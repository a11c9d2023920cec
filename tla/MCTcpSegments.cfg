SPECIFICATION Spec
CONSTANTS
    ConnTypes = {"CUSTOM_TCP"}
    Segments = TRUE
    CommandLen = 2
    ReplyLen = 2
    MaxClicks = 3
INVARIANTS
    BufferTerminated
CHECK_DEADLOCK FALSE
