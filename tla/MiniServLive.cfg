SPECIFICATION FairSpec
CONSTANTS
    c1 = c1
    c2 = c2
    c3 = c3
    Client = {c1, c2, c3}
    Prompt = {c1, c2}
    MaxFd = 2
    MaxTokens = 2
    MallocFails = FALSE
CHECK_DEADLOCK FALSE
PROPERTIES ClientsAreServed
