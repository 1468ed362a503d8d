CONSTANTS
    Mode = {"SecureChannelAndSession"}
    SessionTimeout = FALSE
    ChannelTimeout = FALSE
    RequestTimeout = TRUE
    MaxChannels = 1
    MaxCalls = 2
    MaxRequests = 0
SPECIFICATION FairSpec
PROPERTIES
    SyncReturns
CHECK_DEADLOCK FALSE
