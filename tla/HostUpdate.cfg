CONSTANTS
    u1 = u1
    u2 = u2
    r1 = r1
    r2 = r2
    None = None
    Updates = {u1, u2}
    Restarts = {r1}
    MaxStops = 1
SPECIFICATION FairSpec
INVARIANTS GateHasOwner
PROPERTIES ReleaseIsOwn LoginComesBack
