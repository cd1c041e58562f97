SPECIFICATION FairSpec
CONSTANTS
    Key = {"OLDPWD", "A_B", "1A"}
    Value = {"v", "w"}
    BadKey = "1A"
    OddKey = {"A_B"}
    MaxSegments = 3
    Segments <- MCSegments
CHECK_DEADLOCK FALSE
INVARIANTS ReadsFromPrevious WritesToNext OrIsAboutPrevious KeysUnique
PROPERTIES ExportAndUnset LineEnds
