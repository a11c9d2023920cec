SPECIFICATION Spec
CONSTANTS
    ConnTypes = {"CUSTOM_TCP", "WEB_SOCKET"}
    CommandLen = 2
    ReplyLen = 2
    MaxClicks = 3
    MaxReplies = 4
INVARIANTS
    TypeOK
    OneReadInFlight
    ReadChainUnbroken
    ClickIsSendable
    LifeCycle
PROPERTIES
    CommandsDoNotOverlap
    StopHonoured
CHECK_DEADLOCK FALSE
