CONSTANTS
    b1 = b1
    b2 = b2
    r1 = r1
    r2 = r2
    Nobody = Nobody
    Bookings = {b1, b2}
    Keyless = {b2}
    Requests = {r1, r2}
    LockTTL = 2
    Faults = {"lock", "result", "crash", "transport", "noref", "unfounded"}
SPECIFICATION FairSpec
CHECK_DEADLOCK FALSE
INVARIANTS
    TypeOK
    OneCallAtATime
    ConfirmedIsReserved
    RetryIsReplayed
    ErrorMeansUntouched
PROPERTIES
    RequestsEnd
    LocksEnd
