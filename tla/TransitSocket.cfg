SPECIFICATION Spec
CONSTANTS
    Signers = {s1, s2}
    Inodes = {i1, i2}
    NoInode = NoInode
SYMMETRY Symmetry
INVARIANTS
    TypeOK
    ServingReachable
    KeyConfined
PROPERTIES
    FreshSignerStarts
