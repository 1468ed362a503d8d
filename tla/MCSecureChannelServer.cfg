CONSTANTS
    MaxRequestId = 4
    MaxChunks = 2
    SecureFails = TRUE
SPECIFICATION FairSpec
INVARIANTS
    TypeOK
    DeletedWhenQuiet
    OpenAnswersItsRequest
PROPERTIES
    ChunksContiguous
    ResponsesLeave
    QueueRefined
CHECK_DEADLOCK FALSE
