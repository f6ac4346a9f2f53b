SPECIFICATION FairSpec
CONSTANTS
    Client = {c1}
    Compatible = {}
    Failing = {c1}
    BlockCount = 1
    Val = {p, q}
    MaxNotices = 2
    Null = Null
    Torn = Torn
INVARIANT TypeOK
PROPERTIES FirstPictureArrives ListIsFlushed CaptureStops ImplementsPictureFeed
CHECK_DEADLOCK FALSE
