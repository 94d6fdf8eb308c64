CONSTANTS
    f1 = f1
    u = u
    Conns = {c1}
    Feeds = {f1}
    Unknown = u
    Whitelist = {}
    Stuck = {}
    NotifyCap = 1
    WireCap = 1
    Workers = 1
    MaxEvents = 3
    MaxClientMsgs = 1
    MaxTicks = 1
    MaxPings = 2
    MaxStoreFailures = 1
    Requests <- MCRequests
SPECIFICATION Spec
INVARIANT TypeOK
PROPERTY NoUpdateLost InOrderNeverRegresses
CHECK_DEADLOCK FALSE
