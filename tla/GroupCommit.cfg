SPECIFICATION FairSpec
CONSTANTS
    w1 = w1
    w2 = w2
    Writes = {w1, w2, w3}
    Conflicts <- TwoExclude
    Capacity = 2
    MaxGroup = 2
    MaxFaults = 2
INVARIANTS
    Consistent
PROPERTIES
    CloseEnds
    AnswersKept
    Answered
CHECK_DEADLOCK FALSE
