CONSTANTS
    m1 = m1
    m2 = m2
    w = w
    None = None
    Msg <- MCMsg
    Matrix <- MCMatrix
    Provider = "codex"
    MaxSessions = 1
    MaxHandOffs = 3
SPECIFICATION Spec
SYMMETRY MatrixSymmetry
INVARIANTS InOrder
PROPERTIES EndedStaysEnded
CHECK_DEADLOCK FALSE
