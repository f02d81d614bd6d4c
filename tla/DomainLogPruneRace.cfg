SPECIFICATION Spec
CONSTANTS
    Devices = {d1, d2}
    Rids = {r1}
    Instances = {i1, i2}
    Interval = 2
    Retained = 0
    Batch = 2
    MaxPatches = 0
    MaxStates = 1
    MaxEntries = 6
    MaxPolicies = 1
    MaxEpochs = 2
    MaxCrossings = 0
    MaxPlans = 1
    MaxDeletes = 0
SYMMETRY Symmetric
INVARIANTS
    CoveredGoFirst
CHECK_DEADLOCK FALSE
