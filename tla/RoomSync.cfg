CONSTANTS
    r1 = r1
    c1 = c1
    c2 = c2
    b1 = b1
    b2 = b2
    w1 = w1
    w2 = w2
    None = None
    Room = {r1}
    Client = {c1, c2}
    Home <- MCHome
    Batch = {b1, b2}
    Waiter = {w1, w2}
    Limit = 1
    MaxWaiters = 1
    MaxSeq = 2
SPECIFICATION FairSpec
INVARIANTS SleepersAreListed NoSleeperForgotten TokenIsHonest
PROPERTIES NewsArrives WakesBringNews
