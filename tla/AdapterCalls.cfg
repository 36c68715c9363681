CONSTANTS
    Suppliers <- AllSuppliers
    MaxCalls = 2
    FailureThreshold = 2
    RecoveryTimeout = 2
    FailureCap = 3
SPECIFICATION Spec
CHECK_DEADLOCK FALSE
INVARIANTS
    TypeOK
    OneReservationPerCall
    FailedIsRetriable
    ConfirmedIsReserved
    CancelReplyIsTrue
    LostSearchesTripBreaker
    SoundVehiclesAreOffered
    NothingIsFree
PROPERTIES
    LocationsSurvive
