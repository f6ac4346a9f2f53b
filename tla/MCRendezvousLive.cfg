SPECIFICATION FairSpec
CONSTANTS
    h1 = h1
    h2 = h2
    v1 = v1
    Host = {h1}
    Viewer = {v1}
    Address <- OwnIps
    TimerDelivered = TRUE
    MaxQueued = 1
    None = None
INVARIANT TypeOK
PROPERTIES DigIsAnswered SilentPeersGo
CHECK_DEADLOCK FALSE
