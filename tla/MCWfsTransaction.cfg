CONSTANTS
    Inodes = {1, 2}
    Values = {v1, v2}
    RootInode = 1
    RootTreeBlock = 2
    FirstBlock = 5
    WriteBack = FALSE
    MaxBlock = 7
    MaxGeneration = 4
SPECIFICATION Spec
INVARIANTS
    TypeOK
    DurableTreeIsWritten
    AckedCommitSurvives
    BackupNotAhead
PROPERTIES
    GenerationGrows
    ImplementsAtomicStore
CHECK_DEADLOCK FALSE
