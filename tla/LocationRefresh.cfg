CONSTANTS
    Providers = {a1, a2}
    Sync = sync
    Refreshers = {sync}
    Inodes = {i1, i2}
    NoInode = NoInode
    ReadFails = TRUE
SPECIFICATION Spec
INVARIANTS
    TypeOK
    JsonIsWhole
PROPERTIES
    LossHasCause
    RefreshIsAtomic
