SPECIFICATION FairSpec
CONSTANTS
    MaxGThreads = 4
    Workers = 3
    MaxPriority = 4
    Priorities <- MCPriorities
    Menu = {"RoundRobin", "PriorityBased"}
    SemValue = 1
    MayReturn = FALSE
    MallocMayFail = TRUE
PROPERTY
    MainExits
