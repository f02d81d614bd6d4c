SPECIFICATION FairSpec
CONSTANTS
    Edits = {e1}
    Block = 2
    ResealLimit = 1
    MaxSeals = 14
    MaxEpoch = 2
    MaxFaults = 1
    MaxRefusals = 2
    MaxPruned = 0
    MaxLosses = 1
    MaxCopies = 1
INVARIANTS
    SignsOnce
    NothingLost
PROPERTIES
    Delivered
CHECK_DEADLOCK FALSE
