SPECIFICATION Spec
CONSTANTS
    Workers = {w1, w2}
    Ops = {"view", "chat"}
    MonthlyGrant <- GrantByPlan
    MessageCost <- FlatCost
    DailyBurst <- BurstByPlan
    BriefCost = 1
    PackCredits = 2
    UnitsPerCredit <- UnitsByOp
    MaxUnits = 1
    DaysPerMonth = 1
    MaxDay = 2
    MaxPurchases = 1
    MaxFlips = 2
SYMMETRY WorkerSymmetry
INVARIANTS MonthlyHandout RolloverCapped
