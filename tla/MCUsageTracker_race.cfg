SPECIFICATION MCSpec
CONSTANTS
    c1 = c1 c2 = c2 a1 = a1 a2 = a2
    Calls = {c1, c2}
    Attempts = {a1, a2}
    Duration = 2 Period = 3 BilledTTL = 1 Life = 1
    MaxTime = 3 MaxRestarts = 0
PROPERTY IncrementKept
CHECK_DEADLOCK FALSE
