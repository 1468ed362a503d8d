CONSTANTS
    MaxRequestId = 4
    MaxChunks = 1
    SecureFails = FALSE
SPECIFICATION Spec
INVARIANTS
    MessageIsCompleted
CHECK_DEADLOCK FALSE
