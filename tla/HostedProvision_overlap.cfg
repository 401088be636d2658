SPECIFICATION Spec
CONSTANTS
    Writers = {w1, w2}
    Releases = {r1}
    NoRelease = NoRelease
    MaxTime = 2
    DistinctSeconds = TRUE
SYMMETRY WriterSymmetry
PROPERTIES
    NonNewerFailsClosed
