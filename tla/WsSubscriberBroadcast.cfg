CONSTANTS
    f1 = f1
    u = u
    Conns = {c1, c2}
    Feeds = {f1}
    Unknown = u
    Whitelist = {c1, c2}
    Stuck = {}
    NotifyCap = 1
    WireCap = 1
    Workers = 2
    MaxEvents = 2
    MaxClientMsgs = 1
    MaxTicks = 1
    MaxPings = 1
    MaxStoreFailures = 0
    Requests <- MCCloseOnly
SPECIFICATION Spec
PROPERTY BroadcastCompletes
CHECK_DEADLOCK FALSE
