SPECIFICATION WindowSpec
CONSTANTS
    Rows = 2
    Values <- MCValues
    Garbage = Garbage
    Unknown = 9
    Clients = {}
    MaxItems = 2
    DbFaults <- NoFaults
    History = FALSE
INVARIANTS
    SnapshotIsAState
CHECK_DEADLOCK FALSE
