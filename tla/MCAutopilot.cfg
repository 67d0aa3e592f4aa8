SPECIFICATION Spec
CONSTANTS
    p1 = p1
    p2 = p2
    w1 = w1
    w2 = w2
    People <- OnePerson
    Workers <- TwoWorkers
    MaxRuns = 2
    MaxKills = 1
    MaxCrashes = 1
    MaxLate = 1
    None = None
INVARIANT OneActiveRun
INVARIANT NoDuplicate
INVARIANT AppliedWhole
PROPERTY OverrideIsFinal
PROPERTY RunEnds
CHECK_DEADLOCK FALSE
