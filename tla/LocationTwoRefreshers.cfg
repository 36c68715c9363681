CONSTANTS
    Providers = {a1}
    Sync = sync
    Refreshers = {sync, cron}
    Inodes = {i1, i2, i3, i4}
    NoInode = NoInode
    ReadFails = FALSE
SPECIFICATION Spec
PROPERTIES
    FailedKeepsLocations
