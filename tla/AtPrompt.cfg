SPECIFICATION Spec
CONSTANTS
    Prompt = TRUE
    Loss = TRUE
    AlreadyTail = FALSE
    Calls = {"AT", "CWJAP", "CWQAP", "RST", "CIPSTART", "CIPCLOSE", "CIPSEND"}
    MaxBlocks = 2
    MaxInbox = 2
    MaxOut = 2
INVARIANTS TruthfulIfWhole Settled
PROPERTY ImplementsContract
