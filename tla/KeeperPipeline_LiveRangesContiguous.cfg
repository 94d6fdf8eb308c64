CONSTANTS
    RevealDelay = 1
    BacklogBlocks = 3
    BlocksAtATime = 2
    ChannelCapacity = 1
    Width = 4
    InitHeads <- MCInitHeads
    MaxHead <- MCMaxHead
    MaxRpcFailures = 1
    OverflowChecks = TRUE
    Overflow = Overflow
SPECIFICATION Spec
PROPERTY LiveRangesContiguous
CHECK_DEADLOCK FALSE
