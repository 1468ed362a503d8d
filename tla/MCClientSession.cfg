SPECIFICATION FairSpec
CONSTANTS
    Mode = {"SecureChannel", "SecureChannelAndSession"}
    SessionTimeout = TRUE
    ChannelTimeout = TRUE
    RequestTimeout = TRUE
    MaxChannels = 2
    MaxCalls = 3
    MaxRequests = 1
INVARIANTS
    TypeOK
    ChannelMatchesState
    AnsweredOnce
PROPERTY RequestsAnswered
CHECK_DEADLOCK FALSE
