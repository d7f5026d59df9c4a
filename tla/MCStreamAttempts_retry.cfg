SPECIFICATION Spec
CONSTANTS
    MaxAttempts = 2
    MaxChunks = 2
    Buffer = 1
INVARIANTS NoHooksOnReturnedPipeline
CHECK_DEADLOCK FALSE
