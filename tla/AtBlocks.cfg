SPECIFICATION Spec
CONSTANTS
    Prompt = TRUE
    Loss = FALSE
    AlreadyTail = FALSE
    Calls = {"CWJAP", "CIPSTART", "CIPSEND", "CIPCLOSE"}
    MaxBlocks = 2
    MaxInbox = 2
    MaxOut = 1
INVARIANT Truthful
