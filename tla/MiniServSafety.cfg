SPECIFICATION Spec
CONSTANTS
    c1 = c1
    c2 = c2
    c3 = c3
    Client = {c1, c2, c3}
    Prompt = {c1, c2}
    MaxFd = 2
    MaxTokens = 3
    MallocFails = TRUE
SYMMETRY MCSymmetry
CHECK_DEADLOCK FALSE
INVARIANTS PassIsCurrent PromptMissNothing StreamIntact IdsFollowArrivals
