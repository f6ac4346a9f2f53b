SPECIFICATION Spec
CONSTANTS
    h1 = h1
    h2 = h2
    v1 = v1
    Host = {h1, h2}
    Viewer = {v1}
    Address <- SharedIp
    TimerDelivered = FALSE
    MaxQueued = 1
    None = None
INVARIANTS RegistryOutlivesConnections ResultIsOfAskedPeer ListeningIsListed
           CrashNeedsGoneHost
PROPERTY RefusalNeedsUnreadRequest
CHECK_DEADLOCK FALSE
