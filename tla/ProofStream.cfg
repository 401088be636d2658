SPECIFICATION Spec
CONSTANTS
    Tabs = {t1, t2}
    Limit = 1
    MaxSessions = 2
    MaxTraces = 3
    MaxRestarts = 1
CONSTRAINT LastAfterDrop
INVARIANTS
    SteadyMirror
    NothingSkipped
PROPERTIES
    MirrorOnlyGrows
    CatchesUp
