CONSTANTS
    m1 = m1
    m2 = m2
    m3 = m3
    None = None
    Msg <- MCTrio
    Matrix <- MCTrio
    Compact <- MCNoCompact
    Provider = "codex"
    MaxApprovals = 1
    MaxSessions = 1
    MaxHandOffs = 3
SPECIFICATION CodexSpec
SYMMETRY TrioSymmetry
INVARIANTS StartIsAllowed AdapterNotStalled
CHECK_DEADLOCK FALSE
