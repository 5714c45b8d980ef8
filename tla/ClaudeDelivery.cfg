CONSTANTS
    m1 = m1
    m2 = m2
    m3 = m3
    None = None
    Msg <- MCMsg
    Matrix <- MCMatrix
    Provider = "claude"
    MaxSessions = 1
    MaxHandOffs = 3
SPECIFICATION FairSpec
INVARIANTS AdapterKeepsOrder
PROPERTIES QueuedIsServed ActiveMakesRoom InterruptEnds
CHECK_DEADLOCK FALSE
