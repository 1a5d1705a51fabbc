SPECIFICATION Spec
CHECK_DEADLOCK FALSE
CONSTANTS
    u1 = u1
    u2 = u2
    r1 = r1
    r2 = r2
    r3 = r3
    r4 = r4
    NoOne = NoOne
    NoRequest = NoRequest
    Users <- TwoUsers
    Requests <- FourRequests
    MaxFailed = 2
    Lockout = 1
    PendingLifetime = 1
    FullLifetime = 2
    MaxTime = 2
    Dies = TRUE
SYMMETRY SameRequests
INVARIANTS
    SessionsAreEarned
    NeverLockedEarly
