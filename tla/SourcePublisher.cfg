SPECIFICATION PublisherSpec
CONSTANTS
    Containers = {c1, c2}
    Overlap = TRUE
INVARIANTS
    PublisherTypeOK
PROPERTIES
    SeedKeepsContent
    BackupKept
