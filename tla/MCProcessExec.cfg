CONSTANTS
    Images = {"missing", "corrupt", "unloadable", "good"}
    MAX_PROCESSES = 3
    KernelStacks = 40
    MappedEnd = 128
    MaxDepth = 4
    MaxPid = 9
SPECIFICATION Spec
INVARIANTS
    TypeOK
    NoSlotLeaked
    ContextOfCaller
PROPERTY
    ExitResumesCaller
CHECK_DEADLOCK FALSE
