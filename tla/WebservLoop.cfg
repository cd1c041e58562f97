SPECIFICATION FairSpec
CONSTANTS
    c1 = c1
    c2 = c2
    c3 = c3
    Client = {c1, c2, c3}
    Careful = {c1}
    MaxFd = 2
    MaxRequests = 2
    Stray = 3
    Inherits = FALSE
CHECK_DEADLOCK FALSE
INVARIANTS BooksAgree AnswersMatch HangsUpWithReason
PROPERTIES CarefulAreAnswered
