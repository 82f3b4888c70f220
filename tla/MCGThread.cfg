SPECIFICATION FairSpec
CONSTANTS
    MaxGThreads = 5
    Workers = 5
    MaxPriority = 4
    Priorities <- MCPriorities
    Menu = {"RoundRobin", "PriorityBased", "LotteryScheduling"}
    SemValue = 2
    MayReturn = TRUE
    MallocMayFail = FALSE
INVARIANTS
    TypeOK
    CurrentRuns
    QueueIsTheBlocked
    UnitsConserved
    MutualExclusion
    TicketPartition
PROPERTIES
    RoundRobinProgress
    FifoSpec
    NoStarvation
    EveryReadyRuns
CHECK_DEADLOCK FALSE
