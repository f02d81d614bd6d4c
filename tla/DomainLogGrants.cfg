SPECIFICATION Spec
CONSTANTS
    Devices = {d1, d2}
    Rids = {r1}
    Instances = {i1}
    Interval = 3
    Retained = 1
    Batch = 1
    MaxPatches = 1
    MaxStates = 1
    MaxEntries = 5
    MaxPolicies = 3
    MaxEpochs = 2
    MaxCrossings = 0
    MaxPlans = 2
    MaxDeletes = 0
SYMMETRY Symmetric
INVARIANTS
    Inductive
    NamesKept
PROPERTIES
    LiveSetKept
CHECK_DEADLOCK FALSE
