SPECIFICATION FairSpec
CONSTANTS
    EndpointCount = 2
    MaxChannels = 2
    MaxSessions = 0
    MaxRequests = 0
    Reissue = TRUE
INVARIANT HandlesMatchChannels
PROPERTY ShutdownEnds
CHECK_DEADLOCK FALSE
