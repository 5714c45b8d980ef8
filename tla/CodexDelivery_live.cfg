CONSTANTS
    m1 = m1
    m2 = m2
    m3 = m3
    None = None
    Msg <- MCMixed
    Matrix <- MCOne
    Compact <- MCCompact
    Provider = "codex"
    MaxApprovals = 2
    MaxSessions = 1
    MaxHandOffs = 2
SPECIFICATION FairSpec
CHECK_DEADLOCK FALSE
INVARIANTS PlayedInOrder OneTurnAtATime
PROPERTIES CodexQueuedIsServed CodexActiveMakesRoom
