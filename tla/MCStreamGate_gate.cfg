SPECIFICATION FairSpec
CONSTANTS
    Chunks = 3
    BufferLimit = 2
    MaxGates = 4
    MaxControls = 3
    Reaping = TRUE
    NoGate = 0
INVARIANTS NoLostWakeup NoStrandedChunk NothingLost QuietClose
PROPERTY StreamEnds
