CONSTANTS
    Mode = {"SecureChannelAndSession"}
    SessionTimeout = FALSE
    ChannelTimeout = FALSE
    RequestTimeout = TRUE
    MaxChannels = 1
    MaxCalls = 2
    MaxRequests = 0
SPECIFICATION Spec
INVARIANTS
    DisconnectStopsConnect
CHECK_DEADLOCK FALSE
