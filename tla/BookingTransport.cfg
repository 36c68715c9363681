CONSTANTS
    b1 = b1
    b2 = b2
    r1 = r1
    r2 = r2
    Nobody = Nobody
    Bookings = {b1}
    Keyless = {}
    Requests = {r1, r2}
    LockTTL = 5
    Faults = {"transport"}
SPECIFICATION FairSpec
CHECK_DEADLOCK FALSE
INVARIANTS
    FailedMeansNone
