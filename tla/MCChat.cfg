SPECIFICATION Spec
CONSTANTS
    t1 = t1
    t2 = t2
    Turns <- TwoTurns
    MaxRounds = 1
    Window = 3
    MaxKills = 1
    MaxLosses = 1
    Job = Job
    Nobody = Nobody
INVARIANTS AnswerSettles ReplayAccepted ChargedForAnAnswer
PROPERTIES OutcomeSafety PendingResolved
CHECK_DEADLOCK FALSE
