CONSTANTS
    None = None
    k1 = k1
    k2 = k2
    Keys = {k1, k2}
    Issued = {k1}
    Requests = {r1, r2, r3}
    ExpiresAt <- MCExpiresAt
    Limit = 1
    WindowLength = 2
    CounterTTL = 3
    MaxClock = 3
    Volatile = {k2}
SYMMETRY MCSymmetry
SPECIFICATION Spec
CHECK_DEADLOCK FALSE
INVARIANTS
    TypeOK
    LimitHolds
    RefusedIsOverLimit
    CountersExpire
