SPECIFICATION Spec
CONSTANTS
    Writers = {w1, w2}
    Releases = {r1}
    NoRelease = NoRelease
    MaxTime = 1
    DistinctSeconds = FALSE
SYMMETRY WriterSymmetry
INVARIANTS
    BoundExtractComplete
PROPERTIES
    ExtractsImmutable
