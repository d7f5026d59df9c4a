SPECIFICATION LogSpec
CONSTANTS
    e1 = e1 e2 = e2 e3 = e3
    Entries = {e1, e2, e3}
    Traced = {e2, e3}
    Deferring = {e1}
    Updaters = 1
    Capacity = 1
    MaxBatch = 2
INVARIANT PartialBatchTimed
PROPERTIES Settled CleanupReturns
CHECK_DEADLOCK FALSE
