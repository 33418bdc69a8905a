CONSTANTS
    Images = {"missing", "corrupt", "unloadable", "good"}
    MAX_PROCESSES = 16
    KernelStacks = 40
    MappedEnd = 128
    MaxDepth = 3
    MaxPid = 5
SPECIFICATION Spec
INVARIANT
    PageTableIsLive
CHECK_DEADLOCK FALSE
