SPECIFICATION Spec
CONSTANTS
    MaxRetry = 2
    UseIpv6 = TRUE
    Callers = {"app", "console"}
PROPERTIES
    GivingUpReturns
CHECK_DEADLOCK FALSE
