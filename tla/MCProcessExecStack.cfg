CONSTANTS
    Images = {"good"}
    MAX_PROCESSES = 16
    KernelStacks = 40
    MappedEnd = 128
    MaxDepth = 1
    MaxPid = 100
SPECIFICATION Spec
INVARIANT
    KernelStackMapped
CHECK_DEADLOCK FALSE
