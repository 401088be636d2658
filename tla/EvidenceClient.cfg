SPECIFICATION Spec
CONSTANTS
    cra = cra
    nia = nia
    r1 = r1
    r2 = r2
    Requests <- TwoRequests
    Authorities = {cra, nia}
    Plan <- TwoPlans
    Asks <- TwoAsks
    Nobody = Nobody
    Lifetime = 4
    Margin = 2
    Timeout = 1
    KeyTimeout = 1
    CacheTime = 1
    MaxTime = 3
    MaxRotations <- CivilRotates
INVARIANTS
    TokenWaitBounded
    KeysRecent
PROPERTIES
    TokenAlive
    ShownIsOurs
    RequestsEnd
CHECK_DEADLOCK FALSE
