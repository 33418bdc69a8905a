CONSTANTS
    Keys = {1, 2}
    Values = {v1, v2}
    MaxLeaf = 2
    MaxInternal = 2
    FirstBlock = 2
    MaxBlock = 6
    MaxErrors = 1
SYMMETRY ValueSymmetry
SPECIFICATION FsSpec
INVARIANTS
    MountFindsCommitted
    CommittedIsIntact
PROPERTY
    UpdateTouchesOneInode
CHECK_DEADLOCK FALSE
