SPECIFICATION Spec
CONSTANTS
    Keys = {k1, k2, k3}
    MaxRetries = 6
    HasFallbacks = TRUE
    NoKey = NoKey
SYMMETRY Symmetry
INVARIANTS DeadKeyRetired FairRounds HurriedBounded RotationTruthful ServedKeyReported
