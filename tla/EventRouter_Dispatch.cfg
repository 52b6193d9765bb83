CONSTANTS
    TxKinds <- MC_RoutedKinds
    ChainLen = 2
    ChanCap = 1
    MaxReconnects = 1
    SendCanFail = FALSE
    ProducerCanFail = FALSE
SPECIFICATION Spec
PROPERTY EveryEventHandled
CHECK_DEADLOCK FALSE
