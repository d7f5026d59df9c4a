SPECIFICATION LiveSpec
CONSTANTS
    Requests = {r1, r2}
    Streams = {}
    Leavers = {r1}
    Msgs = {m1, m2}
    Slots = {1}
    MaxGen = 3
    Buffer <- ShrinkingBuffer
    DropExcess = FALSE
    CreateMayFail = FALSE
    Updates = {u1}
    Removals = {d1}
    Getters = {}
    Shutdowns = {s1}
    InitGens = {1}
    NoReq = NoReq
    NoMsg = NoMsg
    Free = Free
INVARIANTS ShutdownStopsWorkers ServedWhilePublished
PROPERTIES RemoveQuiesces EarlyAnswered OpsReturn ImplementsRequestLife
CHECK_DEADLOCK FALSE
