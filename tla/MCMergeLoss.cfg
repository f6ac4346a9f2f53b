SPECIFICATION Spec
CONSTANTS
    Client = {c1}
    Compatible = {c1}
    Failing = {}
    BlockCount = 2
    Val = {p, q}
    MaxNotices = 1
    Null = Null
    Torn = Torn
INVARIANT MergeLosesNothing
CHECK_DEADLOCK FALSE
