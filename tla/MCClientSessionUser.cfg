CONSTANTS
    Mode = {"SecureChannelAndSession"}
    SessionTimeout = TRUE
    ChannelTimeout = FALSE
    RequestTimeout = TRUE
    MaxChannels = 1
    MaxCalls = 2
    MaxRequests = 0
SPECIFICATION Spec
INVARIANTS
    StaysDisconnected
CHECK_DEADLOCK FALSE
