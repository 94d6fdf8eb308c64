CONSTANTS
    c1 = c1
    c2 = c2
    c3 = c3
    Chains <- MCChains
    Misconfigured = {}
    MaxRpcFailures = 1
    MaxBindFailures = 0
SPECIFICATION Spec
PROPERTY CrashedChainRestarted
CHECK_DEADLOCK FALSE
