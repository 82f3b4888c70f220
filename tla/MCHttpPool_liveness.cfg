SPECIFICATION Spec
CONSTANTS
    WORKER_COUNT = 2
    Kinds = {"script"}
    ClientsHangUp = TRUE
    FdLimit = 2
    ChannelSize = 1
    QueueSize = 1
    MaxAccepts = 2
    MaxSignals = 1
CHECK_DEADLOCK FALSE
PROPERTIES
    Settled
    WorkersFollow
    GroupShutdown
