CONSTANTS
    TxKinds <- MC_PfKinds
    ChainLen = 3
    ChanCap = 1
    MaxReconnects = 2
    SendCanFail = FALSE
    ProducerCanFail = FALSE
SPECIFICATION Spec
INVARIANT NoMissedTransaction
CHECK_DEADLOCK FALSE
