CONSTANTS
    Keys = {0, 1, 2, 3, 4}
    Values = {v1}
    MaxLeaf = 2
    MaxInternal = 3
    FirstBlock = 5
    MaxBlock = 13
    MaxErrors = 1
VIEW View
SPECIFICATION Spec
INVARIANTS
    TypeOK
    OldVersionsIntact
    HeightIsRootLevel
    EveryEntryIsFound
    NodesFit
PROPERTY
    ImplementsDictionary
CHECK_DEADLOCK FALSE
