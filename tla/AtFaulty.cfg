SPECIFICATION FairSpec
CONSTANTS
    Prompt = FALSE
    Loss = TRUE
    AlreadyTail = TRUE
    Calls = {"AT", "CWJAP", "CIPSTART", "CIPSEND"}
    MaxBlocks = 2
    MaxInbox = 1
    MaxOut = 1
PROPERTY Returns
