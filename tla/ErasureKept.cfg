SPECIFICATION ErasureFairSpec
CONSTANTS
    e1 = e1
    e2 = e2
    e3 = e3
    i1 = i1
    i2 = i2
    u1 = u1
    u2 = u2
    Batch = {b1}
    Event = {e1, e2, e3}
    Installation = {i1, i2}
    User = {u1, u2}
    Erasure = {x1}
    Nobody = Nobody
    InstallationOf <- MCInstallationOf
    UserOf <- MCUserOf
    Subjects = {i2, u1}
    MaxClock = 3
    MaxFaults = 1
    Unknown = Unknown
INVARIANTS
    ErasedHidden
    KeptSurvive
    GoneFromFiles
PROPERTIES
    ErasureEnds
CHECK_DEADLOCK FALSE
