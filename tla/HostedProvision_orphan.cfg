SPECIFICATION Spec
CONSTANTS
    Writers = {w1}
    Releases = {r1}
    NoRelease = NoRelease
    MaxTime = 2
    DistinctSeconds = TRUE
INVARIANTS
    OrphanExtractRecovers
