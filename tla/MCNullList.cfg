SPECIFICATION Spec
CONSTANTS
    Client = {c1}
    Compatible = {c1}
    Failing = {}
    BlockCount = 1
    Val = {p, q}
    MaxNotices = 1
    Null = Null
    Torn = Torn
INVARIANT ImagesOnlyInTransfer
CHECK_DEADLOCK FALSE
