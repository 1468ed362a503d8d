CONSTANTS
    MaxRequestId = 2
    MaxChunks = 1
    SecureFails = FALSE
SPECIFICATION FairSpec
PROPERTIES
    DisconnectCloses
CHECK_DEADLOCK FALSE
