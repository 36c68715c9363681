CONSTANTS
    q1 = q1
    q2 = q2
    q3 = q3
    e1 = e1
    e2 = e2
    e3 = e3
    s1 = s1
    s2 = s2
    Searches = {q1}
    Bypass = {}
    Entries = {e1, e3}
    Suppliers = {s1, s2}
    Supplier <- MCSupplier
    GlobalTimeout = 1
    SearchTTL = 2
    VehicleTTL = 3
    RedisFails = TRUE
    FailureThreshold = 1
    RecoveryTimeout = 1
    FailureCap = 1
SPECIFICATION FairSpec
CHECK_DEADLOCK FALSE
INVARIANTS
    NobodyIsSilent
