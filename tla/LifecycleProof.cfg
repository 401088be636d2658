SPECIFICATION Spec
CONSTANTS
    Containers = {c1}
    Overlap = FALSE
    MaxRuns = 2
INVARIANTS
    PublisherInv
    BoundExtractKept
    FailureRestores
    PassLeavesDeployed
PROPERTIES
    ImplementsSession
