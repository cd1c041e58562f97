SPECIFICATION FairSpec
CONSTANTS
    Base = 3
    Half = 8
    MaxText <- MCMaxText
    MinText <- MCMinText
    Inputs <- MCInputs
CHECK_DEADLOCK FALSE
INVARIANTS ReadsNumbers NoNumberLost Sorts LowerBitsSorted PassesBounded
PROPERTIES FollowsMachine Terminates
