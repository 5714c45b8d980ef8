SPECIFICATION FairSpec
CONSTANTS
    Turns = {t1, t2}
    t1 = t1
    t2 = t2
    Kinds = {"result", "delta", "text", "ok", "bad"}
    MaxBatch = 2
    MaxEvents = 3
    MaxFaults = 1
    MaxRestarts = 1
    MaxHandled = 2
INVARIANTS InOrder RunsAreConsecutive TextIsWhole NotificationIsDue
PROPERTIES EventSettles FinishedTurnIsAnnounced
CHECK_DEADLOCK FALSE
