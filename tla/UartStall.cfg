SPECIFICATION FairSpec
CONSTANTS
    RxSize = 2
    TxSize = 3
    FifoDepth = 3
    RxLevel = 1
    TxLevel = 1
    Ops = {"write", "poll"}
    MaxRead = 0
    MaxWrite = 4
    MaxRx = 0
    MaxTx = 6
    Stall = TRUE

PROPERTIES EventuallySent
