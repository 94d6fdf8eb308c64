CONSTANTS
    Chains = {a, b}
    MinBalance = 2
    Transfer = 1
    FeeUnit = 3
    InitFees = {0, 3}
    InitBalances = {2, 3}
    Cron = TRUE
    MaxFailures = 2
    MaxAccruals = 1
SPECIFICATION Spec
INVARIANT TypeOK
PROPERTY FeesEventuallyClaimed
