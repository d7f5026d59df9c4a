SPECIFICATION FairSpec
CONSTANTS
    MaxAttempts = 2
    MaxChunks = 2
    Buffer = 1
INVARIANTS HooksHoldPipeline ChunksDelivered
PROPERTIES PipelinesReturn StreamsSettled
CHECK_DEADLOCK FALSE
