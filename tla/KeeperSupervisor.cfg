CONSTANTS
    c1 = c1
    c2 = c2
    c3 = c3
    Chains <- MCChains
    Misconfigured = {c3}
    MaxRpcFailures = 3
    MaxBindFailures = 1
SPECIFICATION Spec
INVARIANT TypeOK
INVARIANT ServesOnlyCommitted
PROPERTY ProcessExits
PROPERTY KeeperRecovers
PROPERTY ChainsImplementKeeperChain
CHECK_DEADLOCK FALSE
