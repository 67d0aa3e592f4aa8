SPECIFICATION Spec
CONSTANTS
    w1 = w1
    w2 = w2
    Workers <- TwoWorkers
    MaxMail = 2
    MaxGrants = 2
    MaxFaults = 2
    Overlap = 0
SYMMETRY WorkerSymmetry
INVARIANTS NoGap LoggedOnce
PROPERTIES MailboxSpec OnlyDeadRevoked
CHECK_DEADLOCK FALSE
