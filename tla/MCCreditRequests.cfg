SPECIFICATION Spec
CONSTANTS
    Workers = {w1, w2}
    Ops = {"chat", "brief", "rescan", "autopilot"}
    MonthlyGrant <- GrantByPlan
    MessageCost <- CostByPlan
    DailyBurst <- BurstByPlan
    BriefCost = 1
    PackCredits = 2
    UnitsPerCredit <- UnitsByOp
    MaxUnits = 2
    DaysPerMonth = 1
    MaxDay = 1
    MaxPurchases = 0
    MaxFlips = 1
SYMMETRY WorkerSymmetry
INVARIANTS BurstBounded OverdrawBounded
