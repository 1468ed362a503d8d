SPECIFICATION FairSpec
CONSTANTS
    EndpointCount = 1
    MaxChannels = 2
    MaxSessions = 1
    MaxRequests = 1
    Reissue = FALSE
PROPERTY AcceptCompleteCalled
CHECK_DEADLOCK FALSE
