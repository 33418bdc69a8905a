CONSTANTS
    Images = {"good"}
    MAX_PROCESSES = 16
    KernelStacks = 40
    MappedEnd = 128
    MaxDepth = 3
    MaxPid = 5
SPECIFICATION Spec
INVARIANT
    HaltOnlyAtTopLevel
CHECK_DEADLOCK FALSE
