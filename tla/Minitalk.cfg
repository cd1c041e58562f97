SPECIFICATION FairSpec
CONSTANTS
    c1 = c1
    c2 = c2
    Client = {c1, c2}
    Bits = 2
    Messages <- MCMessages
CHECK_DEADLOCK FALSE
INVARIANTS PrintsWhatWasSent
PROPERTIES EveryTextIsPrinted
