SPECIFICATION Spec
CONSTANTS
    None = None
    HeaderSize = 4
    Requests <- MCRequests
CHECK_DEADLOCK FALSE
INVARIANTS
    SavedIsSent
    
