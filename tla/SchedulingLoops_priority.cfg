SPECIFICATION Spec
CONSTANTS
    MaxGThreads = 4
    MaxPriority = 3
INVARIANT
    PassedOverOnlyWithBoost
CHECK_DEADLOCK FALSE
