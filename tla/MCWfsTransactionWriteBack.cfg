CONSTANTS
    Inodes = {1, 2}
    Values = {v1, v2}
    RootInode = 1
    RootTreeBlock = 2
    FirstBlock = 5
    WriteBack = TRUE
    MaxBlock = 6
    MaxGeneration = 3
SPECIFICATION Spec
INVARIANTS
    AckedCommitSurvives
    BackupNotAhead
PROPERTY
    GenerationGrows
CHECK_DEADLOCK FALSE
