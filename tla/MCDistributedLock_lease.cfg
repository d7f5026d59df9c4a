SPECIFICATION Spec
CONSTANTS
    h1 = h1 h2 = h2 h3 = h3
    Holders = {h1, h2, h3}
    None = None
    TTL = 1
    Interval = 0
    MaxRetries = 1
    MaxFaults = 1
    MaxTime = 3
SYMMETRY Symmetric
INVARIANT JobsDisjoint
PROPERTY GivesUpToTheLiving
CHECK_DEADLOCK FALSE
