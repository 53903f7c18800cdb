SPECIFICATION FairSpec
CONSTANTS
    Configs <- MCConfigs
    MaxDatagrams = 3
INVARIANTS
    TypeOK
    DataOutlivesHandlers
    InterfaceFirstFindsWorker
    InterfaceFirstFindsSocket
    MainSendsFindSocket
    EndMeansJoined
PROPERTIES
    UsesUdpAsAgreed
    QuitEnds
CHECK_DEADLOCK FALSE
