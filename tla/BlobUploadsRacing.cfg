SPECIFICATION Spec
CONSTANTS
    Devices = {d1, d2}
    Requests = {p1, p2}
    Instances = {i1, i2}
    Length = 2
    MaxOps = 2
    MaxRows = 2
    MaxFaults = 0
    MaxRestores = 0
    d1 = d1
    d2 = d2
    p1 = p1
    p2 = p2
    i1 = i1
    i2 = i2
SYMMETRY Symmetric
INVARIANT Typed
INVARIANT ListedKept
INVARIANT CountersExact
INVARIANT CompleteMatches
CHECK_DEADLOCK FALSE
