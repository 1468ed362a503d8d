SPECIFICATION Spec
CONSTANTS
    EndpointCount = 1
    MaxChannels = 2
    MaxSessions = 2
    MaxRequests = 2
    Reissue = TRUE
INVARIANTS
    TypeOK
    AnswersReachTheirChannel
    SessionOutlivesRequests
CHECK_DEADLOCK FALSE
