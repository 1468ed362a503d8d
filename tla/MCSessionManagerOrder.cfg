SPECIFICATION Spec
CONSTANTS
    EndpointCount = 2
    MaxChannels = 2
    MaxSessions = 1
    MaxRequests = 1
    Reissue = FALSE
INVARIANT EndpointsClosedFirst
CHECK_DEADLOCK FALSE
