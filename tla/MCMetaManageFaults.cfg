SPECIFICATION FaultsSpec
CONSTANTS
    Rows = 2
    Values <- MCValues
    Garbage = Garbage
    Unknown = 9
    Clients = {}
    MaxItems = 2
    DbFaults <- BeginOrCommitFaults
    History = TRUE
INVARIANTS
    InterfaceSnapshotIsExact
    NecIsCurrent
    OnlyCommitLoses
PROPERTIES
    AcknowledgedIsAnnounced
CHECK_DEADLOCK FALSE
