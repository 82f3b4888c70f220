SPECIFICATION Spec
CONSTANTS
    MaxGThreads = 4
    MaxPriority = 3
INVARIANT
    LoopsMatchOperators
PROPERTY
    Terminates
CHECK_DEADLOCK FALSE
