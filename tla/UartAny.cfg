SPECIFICATION Spec
CONSTANTS
    RxSize = 3
    TxSize = 2
    FifoDepth = 3
    RxLevel = 2
    TxLevel = 0
    Ops = {"read", "any", "poll"}
    MaxRead = 3
    MaxWrite = 0
    MaxRx = 7
    MaxTx = 0
    Stall = TRUE
PROPERTIES AnyCounts
