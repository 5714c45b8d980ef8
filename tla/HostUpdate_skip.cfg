CONSTANTS
    u1 = u1
    u2 = u2
    r1 = r1
    r2 = r2
    None = None
    Updates = {u1}
    Restarts = {}
    MaxStops = 0
SPECIFICATION FairSpec
PROPERTY LoginReturns
