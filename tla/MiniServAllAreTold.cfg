SPECIFICATION Spec
CONSTANTS
    c1 = c1
    c2 = c2
    c3 = c3
    Client = {c1, c2}
    Prompt = {c1}
    MaxFd = 2
    MaxTokens = 3
    MallocFails = TRUE
CHECK_DEADLOCK FALSE
INVARIANTS AllAreTold
