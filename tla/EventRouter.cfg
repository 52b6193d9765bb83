CONSTANTS
    TxKinds <- MC_MixedKinds
    ChainLen = 3
    ChanCap = 2
    MaxReconnects = 5
    SendCanFail = TRUE
    ProducerCanFail = TRUE
SPECIFICATION Spec
INVARIANT TypeOK TopicOrder
PROPERTY PfTradeReachesHandler
CHECK_DEADLOCK FALSE
