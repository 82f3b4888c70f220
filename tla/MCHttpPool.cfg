SPECIFICATION Spec
CONSTANTS
    WORKER_COUNT = 2
    Kinds = {"script", "upload"}
    ClientsHangUp = TRUE
    FdLimit = 2
    ChannelSize = 1
    QueueSize = 2
    MaxAccepts = 3
    MaxSignals = 1
CHECK_DEADLOCK FALSE
INVARIANTS
    PoolTypeOK
    LogInOrder
    LeakIsTheAnswered
PROPERTIES
    DispatchSpec
