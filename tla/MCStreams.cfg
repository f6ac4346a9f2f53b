SPECIFICATION MCSpec
CONSTANTS
    Conn = {a}
    Code = {1}
    Word = {1, 2}
    MaxContent = 2
    CMD_ITEM_SIZE_MAX = 2
    MaxSent = 3
    SplitHeaders = FALSE
    None = None
    BitmapInfoSize = 6
    SBS_BASE_BUFFER_SIZE = 8
    Line = {1}
    Header = {1, 2}
    MaxBody = 2
    MaxPackages = 3
    Nothing = Nothing
INVARIANTS
    TypeOK
    StreamConserved
    ParseInvertsConstructor
    HandledWhenArrived
    NothingLostInBuffer
    HandledWereSent
PROPERTY AllReceived
CHECK_DEADLOCK FALSE
