SPECIFICATION Spec
CONSTANTS
    Requests = {r1, r2, r3}
    Streams = {r1, r2, r3}
    Leavers = {r1}
    Msgs = {m1, m2, m3}
    Slots = {1}
    MaxGen = 2
    Buffer <- ShrinkingBuffer
    DropExcess = TRUE
    CreateMayFail = TRUE
    Updates = {u1}
    Removals = {}
    Getters = {k1}
    Shutdowns = {}
    InitGens = {0, 1}
    NoReq = NoReq
    NoMsg = NoMsg
    Free = Free
SYMMETRY Symmetry
INVARIANTS AtMostOnce NoCrossTalk SendsNeverBlock
CHECK_DEADLOCK FALSE
