SPECIFICATION Spec
CONSTANTS
    None = None
    Rows = {r1, r2}
    Workers = {w1, w2}
    BatchSize = 2
    MaxAttempts = 2
    Lease = 4
    SendTimeout = 1
    Pace = 1
    QueryTime = 0
    Backoff = 1
    MaxDeaths = 1
SYMMETRY Symmetry
INVARIANTS
    TypeOK
    DuplicatesExplained
    
PROPERTIES
    ImplementsQueue
