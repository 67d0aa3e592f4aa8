SPECIFICATION Spec
CONSTANTS
    w1 = w1
    w2 = w2
    Workers <- TwoWorkers
    MaxMail = 2
    MaxGrants = 1
    MaxFaults = 1
    Overlap = 0
SYMMETRY WorkerSymmetry
INVARIANT EveryMailSeen
CHECK_DEADLOCK FALSE
