SPECIFICATION Spec
CONSTANTS
    Configs <- ShippedOnly
    MaxDatagrams = 1
INVARIANTS
    SendsUseLiveWorker
CHECK_DEADLOCK FALSE
