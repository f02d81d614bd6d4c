SPECIFICATION FairSpec
CONSTANTS
    Edits = {e1, e2}
    Block = 2
    ResealLimit = 1
    MaxSeals = 14
    MaxEpoch = 2
    MaxFaults = 1
    MaxRefusals = 1
    MaxPruned = 1
    MaxLosses = 0
    MaxCopies = 0
INVARIANTS
    SignsOnce
    AcknowledgedStands
    NothingLost
    NoFalseAlarm
PROPERTIES
    Delivered
CHECK_DEADLOCK FALSE
