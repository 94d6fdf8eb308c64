CONSTANTS
    Requests = {r1, r2}
    GasLimit = 4
    Estimates <- MCEstimates
    GasSchedule <- MCGasSchedule
    FeeSchedule <- MCFeeSchedule
    MaxRetries = 4
    MaxRpcFailures = 2
    TimeoutOnlyWhenStuck = TRUE
SPECIFICATION Spec
INVARIANT PaddedGasWithinLimit
CHECK_DEADLOCK FALSE
