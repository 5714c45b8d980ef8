CONSTANTS
    s1 = s1
    s2 = s2
    daily = daily
    once = once
    None = None
    Sched = {s1, s2}
    Rule = {daily, once}
    Definition <- MCDefinition
    Occurs <- MCOccurs
    MaxTime = 2
    MaxRuns = 2
    MaxStops = 1
    MaxEdits = 1
    MaxDenied = 1
SPECIFICATION FairSpec
INVARIANTS NoCatchUp ClaimedIsInFlight CacheIsCurrent
PROPERTY DueIsRun
