SPECIFICATION FairSpec
CONSTANTS
    Ports <- MCPorts
    Main = 0
    MaxDatagrams = 3
INVARIANTS
    TypeOK
    OwnPortIsSafe
    MapReadersExcludeWriters
    EmptyMapMeansQuiet
PROPERTIES
    DestructorFindsNoSocket
    CleanupEnds
CHECK_DEADLOCK FALSE
