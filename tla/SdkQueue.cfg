SPECIFICATION FairSpec
CONSTANTS
    t1 = t1
    t2 = t2
    Tab = {t1, t2}
    NumEvents = 2
    TrackedIn <- OneEach
    HiddenTabs = {t1}
    Standard = {1}
    Launches = {1}
    QueueSize = 1
    BatchSize = 2
    MaxFaults = 1
    NoTab = NoTab
INVARIANTS
    NothingLost
    NoResend
PROPERTY EveryEventEnds
CHECK_DEADLOCK FALSE
