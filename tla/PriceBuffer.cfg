CONSTANTS
    DataLens = {40, 108, 115}
    MaxBatch = 2
    MaxCalls = 3
    NumPricesMax = 15
    IndexBits = 2
    StatusBits = 1
    Rollback = TRUE
SPECIFICATION Spec
INVARIANT TypeOK ReadReturnsExtended
CHECK_DEADLOCK FALSE
