SPECIFICATION MCSpec
CONSTANTS
    Thread = {t1, t2}
    Address = {a1, a2, a3, a4, a5}
    MaxClients = 2
    MaxTimers = 1
    Null = Null
    PixelBytes = 3
    RowAlign = 4
    SCAN_MODIFY_RECT_UNIT = 2
    MaxWidth = 4
    MaxHeight = 3
    MaxTouched = 4
INVARIANT CapturesDesktop
CHECK_DEADLOCK FALSE
