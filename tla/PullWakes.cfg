SPECIFICATION FairSpec
CONSTANTS
    i1 = i1
    i2 = i2
    w1 = w1
    w2 = w2
    p1 = p1
    p2 = p2
    Instances <- MCInstances
    Pushes <- MCPushes
    Pulls <- MCPulls
    Routes <- MCRoutes
    MaxFaults = 1
INVARIANTS
    NoneStranded
    WakeOwed
PROPERTIES
    Woken
    CaughtUp
CHECK_DEADLOCK FALSE
