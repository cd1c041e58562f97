SPECIFICATION FairSpec
CONSTANTS
    Fd = {1, 2}
    Byte = {0, 1}
    NewLine = 0
    BUFFER_SIZE = 2
    MaxText <- MCMaxText
CHECK_DEADLOCK FALSE
INVARIANTS BytesKept OneLineEach
PROPERTIES LinesInOrder CallsReturn
