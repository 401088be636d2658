SPECIFICATION StackSpec
CONSTANTS
    cra = cra
    nia = nia
    Cells <- AllCells
    Authorities <- AllAuthorities
    MaxKeys <- KeyBounds
    MaxTime = 2
    MaxAge = 1
    Pids = {p1, p2, p3}
    NoPid = NoPid
    Abandoned = Abandoned
SYMMETRY Symmetry
CONSTRAINT Apart
INVARIANTS BoundExtractsWhole NoneForgotten
PROPERTIES PreparedIsReady  UpServes FailedUpStops

