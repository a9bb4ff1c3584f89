SPECIFICATION Spec
CONSTANTS
    e1 = e1
    e2 = e2
    e3 = e3
    e4 = e4
    g1 = g1
    g2 = g2
    u1 = u1
    u2 = u2
    v1 = v1
    v2 = v2
    NoUser = NoUser
    None = None
    Event = {e1, e2, e3, e4}
    Group = {g1, g2}
    Request = {c1, c2}
    GroupOf <- MCGroupOf
    UserOf <- MCUserOf
    ReleaseOf <- MCReleaseOf
    Subject = u1
    Caps = {1, 2}
    EvictionBatch = 1
    MaxArrivals = 3
    MaxChanges = 1
SYMMETRY Symm
INVARIANTS
    AffectedUsersTrue
    RegressedOnce
    LatestKept
PROPERTY UnderCap
CHECK_DEADLOCK FALSE
