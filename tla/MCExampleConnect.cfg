SPECIFICATION Spec
CONSTANTS
    Builds <- MCBuilds
    PppMaxRetry = 1
INVARIANTS
    TypeOK
    ConnectedMeansReady
    HandlersMeetSemaphores
    RegisteredOnce
    OrderlyRestart
PROPERTIES
    NoLostWakeup
    RestartEnds
