SPECIFICATION Spec
CONSTANTS
    Conn = {a}
    Code = {1}
    Word = {1, 2}
    MaxContent = 2
    CMD_ITEM_SIZE_MAX = 2
    MaxSent = 2
    SplitHeaders = TRUE
    None = None
INVARIANT ReceivedAsSent
CHECK_DEADLOCK FALSE
