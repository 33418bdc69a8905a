CONSTANTS
    Keys = {1, 2, 3}
    Values = {v1, v2}
    MaxLeaf = 2
    MaxInternal = 2
    FirstBlock = 2
    MaxBlock = 9
    MaxErrors = 0
SPECIFICATION FsSpec
INVARIANT
    MountFindsCommitted
CHECK_DEADLOCK FALSE
