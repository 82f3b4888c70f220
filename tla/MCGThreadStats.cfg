SPECIFICATION StatsSpec
CONSTANTS
    MaxGThreads = 3
    Workers = 2
    MaxPriority = 4
    Priorities <- MCPriorities
    Menu = {"RoundRobin", "PriorityBased", "LotteryScheduling"}
    SemValue = 1
    MayReturn = TRUE
    MallocMayFail = TRUE
    MaxTime = 3
    MaxCalls = 6
INVARIANTS
    WaitsAreExact
    TimeIsAccounted
    NeverReachesAssert
PROPERTY
    GoneStaysGone
CHECK_DEADLOCK FALSE
