SPECIFICATION Spec
CONSTANTS
    ConnTypes = {"WEB_SOCKET"}
    CommandLen = 1
    ReplyLen = 1
    MaxClicks = 2
    MaxReplies = 2
PROPERTIES
    HandshakeEnds
CHECK_DEADLOCK FALSE
