SPECIFICATION FairSpec
CONSTANTS
    RandomCode <- MCRandomCode
    SerialLimit = 2
    FirstSerial = 1
    Cuts = {3}
    MaxPairs = 1
    MaxConnects = 2
INVARIANTS
    TypeOK
    InStep
    OneBatchOutstanding
PROPERTIES
    ChannelOpensAgain
CHECK_DEADLOCK FALSE
