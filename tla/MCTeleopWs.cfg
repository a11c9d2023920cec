SPECIFICATION Spec
CONSTANTS
    ConnTypes = {"WEB_SOCKET"}
    CommandLen = 1
    ReplyLen = 1
    MaxClicks = 2
    NoDataTimeout = 2
    MaxPongs = 1
INVARIANTS
    TypeOK
    RepliesConserved
    ReturnsCleanly
PROPERTIES
    SilenceAfterDataShutsDown
    ShutdownCompletes
    DesktopNoticesClose
    SilenceBetweenEvents
CHECK_DEADLOCK FALSE
