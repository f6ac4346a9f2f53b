SPECIFICATION Spec
CONSTANTS
    Client = {c1}
    Compatible = {c1}
    Failing = {}
    BlockCount = 2
    Val = {p, q}
    MaxNotices = 1
    Null = Null
    Torn = Torn
SYMMETRY Symmetry
INVARIANTS Coverage DrawnIsSent QuiescentMeansSynced
PROPERTY LossOnlyWhenFull ImplementsPictureFeed
CHECK_DEADLOCK FALSE
