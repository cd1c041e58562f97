SPECIFICATION FairSpec
CONSTANTS
    ConfigFiles <- MCConfigFiles
    BUFFER_SIZE = 2
    Script <- MCScript
    Writes <- MCWrites
    Ends <- MCEnds
    PipeSize = 2
    CanFail = TRUE
    Request <- MCRequest
    MaxRequests = 2
    ServedFiles = {1}
    Dir <- MCDir
    FirstFile <- MCFirstFile
    Named <- MCNamed
CHECK_DEADLOCK FALSE
INVARIANTS OutputIsWhole NothingLeftRunning OneAnswerEach
PROPERTIES ServersFollowBlocks ActsByRight EveryRequestAnswered
