SPECIFICATION FairSpec
CONSTANTS
    e1 = e1
    e2 = e2
    e3 = e3
    i1 = i1
    i2 = i2
    b1 = b1
    b2 = b2
    b3 = b3
    Batch = {b1, b2}
    Event = {e1, e2, e3}
    Installation = {i1, i2}
    InstallationOf <- MCInstallationOf
    Qualifying = {e1, e2, e3}
    Eff <- MCEff
    LockOrder <- MCLockOrder
    Offers <- MCOffers
    MaxArrivals = 3
    MaxFaults = 2
    None = None
    Unknown = Unknown
    Nobody = Nobody
    Blocked = Blocked
INVARIANTS
    TypeOK
    AnsweredHaveState
    AgesFromInstall
PROPERTIES
    ImplementsLog
    Answered
CHECK_DEADLOCK FALSE
