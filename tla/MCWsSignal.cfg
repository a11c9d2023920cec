SPECIFICATION Spec
CONSTANTS
    ConnTypes = {"WEB_SOCKET"}
    CommandLen = 1
    ReplyLen = 1
    MaxClicks = 2
    NoDataTimeout = 2
    MaxPongs = 1
PROPERTIES
    SignalMeansSilence
CHECK_DEADLOCK FALSE
