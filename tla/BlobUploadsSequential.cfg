SPECIFICATION FairSpec
CONSTANTS
    Devices = {d1, d2}
    Requests = {p1}
    Instances = {i1}
    Length = 2
    MaxOps = 2
    MaxRows = 2
    MaxFaults = 2
    MaxRestores = 1
    d1 = d1
    d2 = d2
    p1 = p1
    i1 = i1
INVARIANT RecordedReadable
PROPERTY CollectedBare
PROPERTY Collected
CHECK_DEADLOCK FALSE
