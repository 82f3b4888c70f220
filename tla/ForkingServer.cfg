SPECIFICATION Spec
CONSTANTS
    MAX_WORKERS = 2
    MaxStarts = 2
    MaxClients = 2
CHECK_DEADLOCK FALSE
INVARIANTS
    OneAcceptPerStart
    WorkersSleepOn
PROPERTY
    FirstClientEndsServer
