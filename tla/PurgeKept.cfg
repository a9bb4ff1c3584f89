SPECIFICATION FairSpec
CONSTANTS
    Rows = {r1, r2}
    Workers = {w1, w2}
    BatchSize = 2
    MaxAttempts = 2
    MaxDeaths = 1
    LeaseCovers = TRUE
    KeyErrors = FALSE
CHECK_DEADLOCK FALSE
INVARIANTS
    BytesHaveARow
PROPERTIES
    ImplementsQueue
    Drained
