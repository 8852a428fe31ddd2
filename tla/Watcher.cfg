SPECIFICATION FairSpec
CONSTANTS
    N = 3
    Skew = TRUE
    BatchSize = 2
    NoToken = NoToken
    MaxFailures = 1
    MaxRestarts = 1
    MaxStreamErrors = 1
CHECK_DEADLOCK FALSE
INVARIANT TypeOK
INVARIANT NothingMissed
PROPERTY ProcessedOnce
PROPERTY CausalOrder
PROPERTY EventuallyProcessed
