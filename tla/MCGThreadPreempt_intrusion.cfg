SPECIFICATION PreemptSpec
CONSTANTS
    MaxGThreads = 3
    Workers = 2
    MaxPriority = 4
    Priorities <- MCPriorities
    Menu = {"RoundRobin", "PriorityBased"}
    SemValue = 1
    MayReturn = FALSE
    MallocMayFail = FALSE
    MaxInterrupts = 2
INVARIANT
    MutualExclusion
CHECK_DEADLOCK FALSE
