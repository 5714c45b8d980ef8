CONSTANTS
    s1 = s1
    s2 = s2
    daily = daily
    once = once
    None = None
    Sched = {s1}
    Rule = {daily, once}
    Definition <- MCDaily
    Occurs <- MCOccurs
    MaxTime = 1
    MaxRuns = 2
    MaxStops = 1
    MaxEdits = 1
    MaxDenied = 0
SPECIFICATION Spec
INVARIANT MarkedNotRepeated
