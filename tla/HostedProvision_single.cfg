SPECIFICATION Spec
CONSTANTS
    Writers = {w1}
    Releases = {r1, r2}
    NoRelease = NoRelease
    MaxTime = 2
    DistinctSeconds = TRUE
INVARIANTS
    TypeOK
    GatewayRestartable
    RollbackReady
    RefusalsExplained
PROPERTIES
    PreflightDecides
    ImplementsLedger
