SPECIFICATION Spec
CONSTANTS
    Devices = {d1, d2}
    Requests = {p1, p2}
    Instances = {i1}
    Length = 1
    MaxOps = 1
    MaxRows = 1
    MaxFaults = 0
    MaxRestores = 1
    d1 = d1
    d2 = d2
    p1 = p1
    p2 = p2
    i1 = i1
SYMMETRY Symmetric
PROPERTY RivalKept
CHECK_DEADLOCK FALSE
