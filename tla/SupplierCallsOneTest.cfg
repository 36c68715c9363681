CONSTANTS
    c1 = c1
    c2 = c2
    c3 = c3
    Calls <- MCCalls
    FailureThreshold = 3
    RecoveryTimeout = 2
    FailureCap = 4
SPECIFICATION FairSpec
PROPERTIES
    OneTestRequest
