SPECIFICATION Spec
CONSTANTS
    Client = {c1, c2}
    Compatible = {c1, c2}
    Failing = {c1, c2}
    BlockCount = 1
    Val = {p, q}
    MaxNotices = 1
    Null = Null
    Torn = Torn
SYMMETRY Symmetry
INVARIANTS TransferNeverStalls AtMostTwoImages LoopStaysInMap
CHECK_DEADLOCK FALSE
