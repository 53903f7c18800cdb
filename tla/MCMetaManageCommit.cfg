SPECIFICATION Spec
CONSTANTS
    Rows = 2
    Values <- MCValues
    Garbage = Garbage
    Unknown = 9
    Clients = {}
    MaxItems = 1
    DbFaults <- CommitFaults
    History = FALSE
INVARIANTS
    AckIsDurable
CHECK_DEADLOCK FALSE
