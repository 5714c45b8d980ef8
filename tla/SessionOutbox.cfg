CONSTANTS
    m1 = m1
    m2 = m2
    w = w
    None = None
    Msg <- MCMsg
    Matrix <- MCMatrix
    Provider = "claude"
    MaxSessions = 2
    MaxHandOffs = 3
SPECIFICATION Spec
SYMMETRY MatrixSymmetry
INVARIANTS TypeOK AtMostOnce WithdrawnNeverHanded NoLostWakeup CompletedWasAnswered
PROPERTIES KeepsPromise
CHECK_DEADLOCK FALSE
