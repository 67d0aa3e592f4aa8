--------------------------- MODULE MCCreditLedger ---------------------------
(* Model-checking instance of CreditLedger: the plans' numbers scaled down   *)
(* (the code's defaults are 60/1/15 for free and 180/3/45 for pro), keeping  *)
(* free < pro for the grant, the cost and the burst.                         *)
EXTENDS CreditLedger, TLC

GrantByPlan == [free |-> 1, pro |-> 3]
CostByPlan  == [free |-> 1, pro |-> 2]
BurstByPlan == [free |-> 2, pro |-> 3]
FlatCost    == [free |-> 1, pro |-> 1]
UnitsByOp   == [rescan |-> 2, autopilot |-> 1]

WorkerSymmetry == Permutations(Workers)
=============================================================================
