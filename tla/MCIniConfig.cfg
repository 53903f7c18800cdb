SPECIFICATION MCSpec
CONSTANTS
    Hosts = {Empty, LocalHost, host}
    Empty = Empty
    LocalHost = LocalHost
    Ports <- MCPorts
    Absent = Absent
    RowIds = {0, 1, 2, 3, 4, 9}
    Addrs = {0, 1}
    TPorts = {0, 1, 2}
    Levels = {0, 1}
    Channels = {0, 1}
    PlateTables <- MCPlateTables
    MdTables <- MCMdTables
INVARIANTS
    SaveAfterLoadIsHarmless
    ChangedPortsAreKept
    MapsMatchRows
    MirrorFollowsList
CHECK_DEADLOCK FALSE
