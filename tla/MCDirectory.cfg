SPECIFICATION Spec
CONSTANTS
    b1 = b1
    b2 = b2
    d1 = d1
    d2 = d2
    Boards <- TwoBoards
    Home = b1
    Dates <- TwoDates
    Cron = cron
    Hand = hand
    MaxFlips = 1
    MaxFaults = 1
    MaxHand = 1
    StructuredVerify = FALSE
    None = None
INVARIANT RecordsExplain
PROPERTY ConfidenceHonest
PROPERTY NoFalseClose
PROPERTY Converges
