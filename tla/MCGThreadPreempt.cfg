SPECIFICATION PreemptSpec
CONSTANTS
    MaxGThreads = 4
    Workers = 3
    MaxPriority = 4
    Priorities <- MCPriorities
    Menu = {"RoundRobin", "PriorityBased"}
    SemValue = 1
    MayReturn = FALSE
    MallocMayFail = FALSE
    MaxInterrupts = 2
INVARIANTS
    PreemptTypeOK
    CodeRunsAsCurrent
    BooksBalance
PROPERTY
    AtomicUntilInterrupted
CHECK_DEADLOCK FALSE
