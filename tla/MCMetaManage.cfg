SPECIFICATION Spec
CONSTANTS
    Rows = 2
    Values <- MCValues
    Garbage = Garbage
    Unknown = 9
    Clients = {c1}
    MaxItems = 2
    DbFaults <- ExecFaults
    History = FALSE
INVARIANTS
    TypeOK
    MemoryMatchesTable
    NothingUncommittedIsRead
    AckIsDurable
PROPERTIES
    StoresAtomically
    UnloadedListRefuses
CHECK_DEADLOCK FALSE
