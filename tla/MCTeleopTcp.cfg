SPECIFICATION Spec
CONSTANTS
    ConnTypes = {"CUSTOM_TCP"}
    Segments = FALSE
    CommandLen = 2
    ReplyLen = 2
    MaxClicks = 3
INVARIANTS
    TypeOK
    RoundTripConserved
    DisabledWhileAwaiting
    OneWriteInFlight
    BufferTerminated
PROPERTIES
    ImplementsBenchmark
CHECK_DEADLOCK FALSE
