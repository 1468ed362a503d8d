CONSTANTS
    Mode = {"SecureChannelAndSession"}
    SessionTimeout = TRUE
    ChannelTimeout = TRUE
    RequestTimeout = FALSE
    MaxChannels = 1
    MaxCalls = 1
    MaxRequests = 0
SPECIFICATION Spec
INVARIANTS
    NeverBothTimers
CHECK_DEADLOCK FALSE
