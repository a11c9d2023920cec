SPECIFICATION Spec
CONSTANTS
    MaxRetry = 2
    UseIpv6 = TRUE
    Callers = {"app", "console"}
INVARIANTS
    TypeOK
    OkMeansAddresses
    RetriesBounded
    HandlersHaveSemaphores
    DeletedTwiceOnlyAfterGivingUp
PROPERTIES
    ImplementsNetif
CHECK_DEADLOCK FALSE
