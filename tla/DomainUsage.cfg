SPECIFICATION UsageSpec
CONSTANTS
    Devices = {d1}
    Rids = {r1, r2}
    Instances = {i1}
    Interval = 2
    Retained = 0
    Batch = 1
    MaxPatches = 1
    MaxStates = 1
    MaxEntries = 5
    MaxPolicies = 2
    MaxEpochs = 2
    MaxCrossings = 0
    MaxPlans = 1
    MaxDeletes = 1
SYMMETRY Symmetric
INVARIANTS
    LiveExact
    LatestServed
    PlanAgrees
    ManifestKept
    PruningComplete
    DriftBounded
    DropsStand
PROPERTIES
    LiveSetKept
CHECK_DEADLOCK FALSE
