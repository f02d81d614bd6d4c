SPECIFICATION FairSpec
CONSTANTS
    Devices = {d1}
    Rids = {r1}
    Instances = {i1, i2}
    Interval = 2
    Retained = 0
    Batch = 1
    MaxPatches = 0
    MaxStates = 1
    MaxEntries = 4
    MaxPolicies = 2
    MaxEpochs = 1
    MaxCrossings = 1
    MaxPlans = 1
    MaxDeletes = 0
INVARIANTS
    Inductive
    BucketsKept
    FloorIsServable
PROPERTIES
    FloorBeforeDelete
    CatchesUp
    DueServed
CHECK_DEADLOCK FALSE
