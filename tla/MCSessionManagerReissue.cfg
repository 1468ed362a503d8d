SPECIFICATION Spec
CONSTANTS
    EndpointCount = 1
    MaxChannels = 2
    MaxSessions = 1
    MaxRequests = 1
    Reissue = TRUE
INVARIANT HandleDeleted
CHECK_DEADLOCK FALSE
