CONSTANTS
    f1 = f1
    u = u
    Conns = {c1}
    Feeds = {f1}
    Unknown = u
    Whitelist = {c1}
    Stuck = {}
    NotifyCap = 1
    WireCap = 1
    Workers = 1
    MaxEvents = 2
    MaxClientMsgs = 1
    MaxTicks = 1
    MaxPings = 2
    MaxStoreFailures = 0
    Requests <- MCSubscribeOnly
SPECIFICATION Spec
INVARIANT ResponsiveClientKept
CHECK_DEADLOCK FALSE
