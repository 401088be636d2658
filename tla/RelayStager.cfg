SPECIFICATION FairSpec
CONSTANTS
    Stagers = {s1, s2}
    Releases = {r1, r2}
    Nothing = Nothing
    Nobody = Nobody
INVARIANTS
    StagerInv
    SuccessIsStaged
    FailuresExplained
PROPERTIES
    RevealsOnce
    RunsEnd
