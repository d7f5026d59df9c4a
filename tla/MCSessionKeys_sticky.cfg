SPECIFICATION Spec
CONSTANTS
    k1 = k1
    k2 = k2
    k3 = k3
    Values = {k1, k2, k3}
    Pools <- SomePools
    Requests = {r1, r2, r3}
    TTL = 2
    MaxTime = 3
    MaxChanges = 1
    None = None
SYMMETRY Symmetry
INVARIANTS Agreement
PROPERTIES LiveEntryKept
CHECK_DEADLOCK FALSE
