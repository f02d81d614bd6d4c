SPECIFICATION Spec
CONSTANTS
    Edits = {e1, e2}
    Block = 2
    ResealLimit = 1
    MaxSeals = 14
    MaxEpoch = 1
    MaxFaults = 1
    MaxRefusals = 0
    MaxPruned = 0
    MaxLosses = 0
    MaxCopies = 0
INVARIANT OutboxFollowsHead
CHECK_DEADLOCK FALSE
