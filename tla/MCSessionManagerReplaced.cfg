SPECIFICATION Spec
CONSTANTS
    EndpointCount = 1
    MaxChannels = 1
    MaxSessions = 2
    MaxRequests = 1
    Reissue = FALSE
INVARIANT RequestsHaveSessions
CHECK_DEADLOCK FALSE
