--------------------------- MODULE Billing_proofs ---------------------------
(* Theorems about the money: CreditLedger, for every configuration of the    *)
(* plans, every calendar bound and every finite set of workers; and, at the  *)
(* end, StripeWebhook, for any number of checkouts, of deliveries at one     *)
(* time and of crashes.                                                      *)
EXTENDS CreditLedger, StripeWebhook, FiniteSetTheorems, TLAPS

USE DEF Plans, Batches, NoPlan

-----------------------------------------------------------------------------
(* Arithmetic of the month and of the ledger's operators.                  *)

\* A day's month is one of the modelled months.
LEMMA PeriodInRange ==
    ASSUME NEW d \in Days
    PROVE  Period(d) \in Periods
BY ConfigAssumption DEF Period, Days, Periods

\* Credits for work done, rounded up, are a natural number.
LEMMA CeilDivNat ==
    ASSUME NEW n \in Nat, NEW k \in Nat \ {0}
    PROVE  CeilDiv(n, k) \in Nat
BY DEF CeilDiv

\* Grants and upgrades are never negative and never exceed the month's share.
LEMMA GrantDeltaBound ==
    ASSUME NEW p \in Plans, NEW bal \in Int
    PROVE  /\ GrantDelta(p, bal) \in Nat
           /\ GrantDelta(p, bal) <= MonthlyGrant[p]
BY ConfigAssumption DEF GrantDelta, Larger, Smaller

\* Nor is a top-up, which never exceeds the difference of the two grants.
LEMMA UpgradeDeltaBound ==
    ASSUME NEW bal \in Int
    PROVE  /\ UpgradeDelta("free", "pro", bal) \in Nat
           /\ UpgradeDelta("free", "pro", bal)
                <= MonthlyGrant["pro"] - MonthlyGrant["free"]
BY ConfigAssumption DEF UpgradeDelta, Larger, Smaller

-----------------------------------------------------------------------------
(* What each transaction does to a well-formed book.                       *)

\* Transactions of grants, top-ups, debits and refunds keep a book a book.
LEMMA EnsureGrantType ==
    ASSUME NEW b \in Books, NEW m \in Periods, NEW p \in Plans
    PROVE  EnsureGrant(b, m, p) \in Books
<1>1. GrantDelta(p, b.raw) \in Nat
  BY GrantDeltaBound DEF Books
<1>2. QED
  BY <1>1 DEF EnsureGrant, Books

\* A top-up keeps a book a book.
LEMMA TopUpType ==
    ASSUME NEW b \in Books, NEW m \in Periods
    PROVE  TopUp(b, m, "free", "pro") \in Books
<1>1. UpgradeDelta("free", "pro", b.raw) \in Nat
  BY UpgradeDeltaBound DEF Books
<1>2. QED
  BY <1>1 DEF TopUp, Books

\* So does reconcile_plan_grant.
LEMMA ReconcileType ==
    ASSUME NEW b \in Books, NEW m \in Periods, NEW p \in Plans
    PROVE  Reconcile(b, m, p) \in Books
BY TopUpType DEF Reconcile, Outranks

\* So do debits and refunds.
LEMMA DebitRefundType ==
    ASSUME NEW b \in Books, NEW c \in Int
    PROVE  Debit(b, c) \in Books /\ Refund(b, c) \in Books
BY DEF Debit, Refund, Books

\* The clamped charge never exceeds the balance or what the day has left.
LEMMA ChargeBound ==
    ASSUME NEW b \in Books, NEW p \in Plans, NEW c \in Nat
    PROVE  /\ Charge(b, p, c) \in Nat
           /\ Charge(b, p, c) > 0 =>
                /\ Charge(b, p, c) <= b.raw
                /\ b.spentToday + Charge(b, p, c) <= DailyBurst[p]
BY ConfigAssumption DEF Charge, Smaller, Larger, Books

\* A grant only adds credits, keeps the grant rows there are, and leaves the
\* month with no more than its plan's share.
LEMMA EnsureGrantEffect ==
    ASSUME NEW b \in Books, NEW m \in Periods, NEW p \in Plans
    PROVE  LET c == EnsureGrant(b, m, p) IN
           /\ c.raw >= b.raw
           /\ c.spentToday = b.spentToday
           /\ \A n \in Periods : b.granted[n] # NoPlan => c.granted[n] = b.granted[n]
           /\ \A n \in Periods : HandoutShare(b, n) => HandoutShare(c, n)
<1> DEFINE c == EnsureGrant(b, m, p)
<1>1. CASE b.granted[m] # NoPlan
  BY <1>1 DEF EnsureGrant, Books
<1>2. CASE b.granted[m] = NoPlan
  <2>1. /\ GrantDelta(p, b.raw) \in Nat
        /\ GrantDelta(p, b.raw) <= MonthlyGrant[p]
    BY GrantDeltaBound DEF Books
  <2>2. /\ c.raw = b.raw + GrantDelta(p, b.raw)
        /\ c.spentToday = b.spentToday
        /\ c.granted = [b.granted EXCEPT ![m] = p]
        /\ c.handed = [b.handed EXCEPT ![m] = @ + GrantDelta(p, b.raw)]
        /\ c.upgraded = b.upgraded
    BY <1>2 DEF EnsureGrant, Books
  <2>3. MonthlyGrant[p] \in Nat /\ MonthlyGrant[p] <= MaxGrant /\ MaxGrant \in Nat
    BY ConfigAssumption DEF MaxGrant, Larger
  <2>4. ASSUME NEW n \in Periods, HandoutShare(b, n)
        PROVE  HandoutShare(c, n)
    BY <1>2, <2>1, <2>2, <2>3, <2>4 DEF HandoutShare, Books
  <2>5. QED
    BY <1>2, <2>1, <2>2, <2>4 DEF Books
<1>3. QED
  BY <1>1, <1>2

\* So does a top-up of a month granted for the lower plan.
LEMMA TopUpEffect ==
    ASSUME NEW b \in Books, NEW m \in Periods, b.granted[m] = "free"
    PROVE  LET c == TopUp(b, m, "free", "pro") IN
           /\ c.raw >= b.raw
           /\ c.spentToday = b.spentToday
           /\ c.granted = b.granted
           /\ \A n \in Periods : HandoutShare(b, n) => HandoutShare(c, n)
<1> DEFINE c == TopUp(b, m, "free", "pro")
           d == UpgradeDelta("free", "pro", b.raw)
<1>1. CASE b.upgraded[m] \/ d = 0
  BY <1>1 DEF TopUp, Books
<1>2. CASE ~ (b.upgraded[m] \/ d = 0)
  <2>1. d \in Nat /\ d <= MonthlyGrant["pro"] - MonthlyGrant["free"]
    BY UpgradeDeltaBound DEF Books
  <2>2. /\ c.raw = b.raw + d
        /\ c.spentToday = b.spentToday
        /\ c.granted = b.granted
        /\ c.handed = [b.handed EXCEPT ![m] = @ + d]
        /\ c.upgraded = [b.upgraded EXCEPT ![m] = TRUE]
    BY <1>2 DEF TopUp, Books
  <2>3. MaxGrant = MonthlyGrant["pro"] /\ MaxGrant \in Nat /\ MonthlyGrant["free"] \in Nat
    BY ConfigAssumption DEF MaxGrant, Larger
  <2>4. ASSUME NEW n \in Periods, HandoutShare(b, n)
        PROVE  HandoutShare(c, n)
    BY <1>2, <2>1, <2>2, <2>3, <2>4 DEF HandoutShare, Books
  <2>5. QED
    BY <2>1, <2>2, <2>4 DEF Books
<1>3. QED
  BY <1>1, <1>2

\* Both together, as TurnCharge.reserve runs them under one lock.
LEMMA ReconcileEffect ==
    ASSUME NEW b \in Books, NEW m \in Periods, NEW p \in Plans
    PROVE  LET c == Reconcile(b, m, p) IN
           /\ c.raw >= b.raw
           /\ c.spentToday = b.spentToday
           /\ c.granted = b.granted
           /\ \A n \in Periods : HandoutShare(b, n) => HandoutShare(c, n)
<1>1. CASE Outranks(p, b.granted[m])
  BY <1>1, TopUpEffect DEF Reconcile, Outranks
<1>2. CASE ~ Outranks(p, b.granted[m])
  BY <1>2 DEF Reconcile, Books
<1>3. QED
  BY <1>1, <1>2

\* A debit or a refund moves no grant row.
LEMMA DebitRefundEffect ==
    ASSUME NEW b \in Books, NEW k \in Int
    PROVE  /\ Debit(b, k).raw = b.raw - k
           /\ Debit(b, k).spentToday = b.spentToday + k
           /\ Refund(b, k).raw = b.raw + k
           /\ Refund(b, k).spentToday = b.spentToday - k
           /\ Debit(b, k).granted = b.granted /\ Refund(b, k).granted = b.granted
           /\ \A n \in Periods : HandoutShare(b, n) =>
                HandoutShare(Debit(b, k), n) /\ HandoutShare(Refund(b, k), n)
BY DEF Debit, Refund, Books, HandoutShare
-----------------------------------------------------------------------------
(* HandoutInv is inductive.                                                *)

\* Moving a worker on keeps the control state well typed.
LEMMA GotoType ==
    ASSUME TypeOK, NEW w \in Workers, NEW l \in Labels, Goto(w, l)
    PROVE  pc' \in [Workers -> Labels]
BY DEF Goto, TypeOK

\* So does finishing a request or job.
LEMMA FinishType ==
    ASSUME TypeOK, NEW w \in Workers, Finish(w)
    PROVE  pc' \in [Workers -> Labels] /\ task' \in [Workers -> Tasks]
<1>1. NoTask \in Tasks
  BY ConfigAssumption DEF NoTask, TaskOf, Tasks, Periods
<1>2. QED
  BY <1>1 DEF Finish, Goto, TypeOK, Labels

\* A step of a worker keeps every variable in its domain.
LEMMA StepType ==
    ASSUME HandoutInv, NEW w \in Workers, Step(w)
    PROVE  TypeOK'
<1> USE DEF HandoutInv, World
<1>0. /\ TypeOK /\ book \in Books /\ task[w] \in Tasks /\ pc[w] \in Labels
      /\ Period(day) \in Periods /\ task \in [Workers -> Tasks]
  BY PeriodInRange DEF TypeOK
<1>1. CASE Start(w)
  <2>1. PICK op \in Ops : task' = [task EXCEPT ![w] = TaskOf(op, plan)]
    BY <1>1 DEF Start
  <2>2. TaskOf(op, plan) \in Tasks
    BY <1>0, ConfigAssumption DEF TaskOf, Tasks, TypeOK, Periods
  <2>3. pc' \in [Workers -> Labels]
    BY <1>0, <1>1 DEF Start, Goto, Labels, TypeOK
  <2>4. QED
    BY <1>0, <1>1, <2>1, <2>2, <2>3 DEF Start, TypeOK
<1>2. CASE CheckGrant(w)
  <2>1. task' \in [Workers -> Tasks]
    BY <1>0, <1>2 DEF CheckGrant, Tasks
  <2>2. pc' \in [Workers -> Labels]
    BY <1>0, <1>2 DEF CheckGrant, AfterGrant, Goto, Labels, TypeOK
  <2>3. QED
    BY <1>0, <1>2, <2>1, <2>2 DEF CheckGrant, TypeOK
<1>3. CASE WriteGrant(w)
  <2>1. book' \in Books
    BY <1>0, <1>3, EnsureGrantType DEF WriteGrant, Tasks
  <2>2. pc' \in [Workers -> Labels]
    BY <1>0, <1>3 DEF WriteGrant, AfterGrant, Goto, Labels, TypeOK
  <2>3. QED
    BY <1>0, <1>3, <2>1, <2>2 DEF WriteGrant, TypeOK
<1>4. CASE CheckPlan(w)
  <2>1. book.granted[Period(day)] \in Plans \union {NoPlan}
    BY <1>0 DEF Books
  <2>2. task' \in [Workers -> Tasks]
    BY <1>0, <1>4, <2>1 DEF CheckPlan, Tasks
  <2>3. pc' \in [Workers -> Labels]
    BY <1>0, <1>4 DEF CheckPlan, Goto, Labels, TypeOK
  <2>4. QED
    BY <1>0, <1>4, <2>2, <2>3 DEF CheckPlan, TypeOK
<1>5. CASE WriteUpgrade(w)
  <2>1. book' \in Books
    BY <1>0, <1>5, TopUpType DEF WriteUpgrade, UpgradeBaseline, Tasks
  <2>2. pc' \in [Workers -> Labels]
    BY <1>0, <1>5 DEF WriteUpgrade, Goto, Labels, TypeOK
  <2>3. QED
    BY <1>0, <1>5, <2>1, <2>2 DEF WriteUpgrade, TypeOK
<1>6. CASE ReadBalance(w)
  <2>1. CASE Finish(w)
    BY <1>0, <1>6, <2>1, FinishType DEF ReadBalance, TypeOK
  <2>2. CASE Goto(w, "read_burst") /\ UNCHANGED task
    BY <1>0, <1>6, <2>2, GotoType DEF ReadBalance, TypeOK, Labels
  <2>3. CASE /\ task' = [task EXCEPT ![w].seen = Larger(0, book.raw)]
             /\ Goto(w, "read_burst")
    <3>1. task' \in [Workers -> Tasks]
      BY <1>0, <2>3 DEF Tasks, Books, Larger
    <3>2. QED
      BY <1>0, <1>6, <2>3, <3>1, GotoType DEF ReadBalance, TypeOK, Labels
  <2>4. QED
    BY <1>6, <2>1, <2>2, <2>3 DEF ReadBalance
<1>7. CASE ReadBurst(w)
  <2>1. CASE Finish(w)
    BY <1>0, <1>7, <2>1, FinishType DEF ReadBurst, TypeOK
  <2>2. CASE Goto(w, "model") /\ UNCHANGED task
    BY <1>0, <1>7, <2>2, GotoType DEF ReadBurst, TypeOK, Labels
  <2>3. ASSUME task[w].op \in Batches, NEW candidates \in 1 .. MaxUnits,
               NEW left, left = Larger(0, DailyBurst[task[w].plan] - book.spentToday),
               task' = [task EXCEPT ![w].units =
                          Smaller(candidates, Smaller(task[w].seen, left)
                                                * UnitsPerCredit[task[w].op])],
               Goto(w, "work")
        PROVE  TypeOK'
    <3>1. left \in Nat
      BY <1>0, <2>3, ConfigAssumption DEF Larger, Books, Tasks
    <3>2. Smaller(task[w].seen, left) \in Nat /\ UnitsPerCredit[task[w].op] \in Nat
      BY <1>0, <2>3, <3>1, ConfigAssumption DEF Smaller, Tasks
    <3>3. Smaller(task[w].seen, left) * UnitsPerCredit[task[w].op] \in Nat
      BY <3>2
    <3>4. Smaller(candidates, Smaller(task[w].seen, left)
                                * UnitsPerCredit[task[w].op]) \in Nat
      BY <3>3, ConfigAssumption DEF Smaller
    <3>5. task' \in [Workers -> Tasks]
      BY <1>0, <2>3, <3>4 DEF Tasks
    <3>6. QED
      BY <1>0, <1>7, <2>3, <3>5, GotoType DEF ReadBurst, TypeOK, Labels
  <2>4. QED
    BY <1>7, <2>1, <2>2, <2>3 DEF ReadBurst
<1>8. CASE Brief(w)
  <2>1. BriefCost \in Int
    BY ConfigAssumption
  <2>2. book' \in Books
    BY <1>0, <1>8, <2>1, DebitRefundType DEF Brief
  <2>3. pc' \in [Workers -> Labels] /\ task' \in [Workers -> Tasks]
    BY <1>0, <1>8, FinishType DEF Brief
  <2>4. QED
    BY <1>0, <1>8, <2>2, <2>3 DEF Brief, TypeOK
<1>9. CASE Work(w)
  <2>1. CASE Finish(w)
    BY <1>0, <1>9, <2>1, FinishType DEF Work, TypeOK
  <2>2. ASSUME NEW done \in 0 .. task[w].units,
               task' = [task EXCEPT ![w].credits =
                          CeilDiv(done, UnitsPerCredit[task[w].op])],
               Goto(w, "check_grant")
        PROVE  TypeOK'
    <3>1. task[w].op \in Batches
      <4>1. OpMatches /\ pc[w] = "work"
        BY <1>9 DEF Work
      <4>2. QED
        BY <1>0, <4>1 DEF OpMatches, Tasks
    <3>2. CeilDiv(done, UnitsPerCredit[task[w].op]) \in Nat
      BY <1>0, <3>1, CeilDivNat, ConfigAssumption DEF Tasks
    <3>3. task' \in [Workers -> Tasks]
      BY <1>0, <2>2, <3>2 DEF Tasks
    <3>4. QED
      BY <1>0, <1>9, <2>2, <3>3, GotoType DEF Work, TypeOK, Labels
  <2>3. QED
    BY <1>9, <2>1, <2>2 DEF Work
<1>10. CASE ClampedDebit(w)
  <2>1. Charge(book, task[w].plan, task[w].credits) \in Nat
    BY <1>0, ChargeBound DEF Tasks
  <2>2. QED
    BY <1>0, <1>10, <2>1, FinishType, DebitRefundType DEF ClampedDebit, TypeOK
<1>11. CASE Reserve(w)
  <2> DEFINE p == task[w].plan
             b == Reconcile(EnsureGrant(book, Period(day), p), Period(day), p)
  <2>1. p \in Plans /\ MessageCost[p] \in Int
    BY <1>0, ConfigAssumption DEF Tasks
  <2>2. b \in Books
    BY <1>0, <2>1, EnsureGrantType, ReconcileType
  <2>3. CASE MaySpend(b, p)
    BY <1>0, <1>11, <2>1, <2>2, <2>3, GotoType, DebitRefundType DEF Reserve, TypeOK, Labels
  <2>4. CASE ~ MaySpend(b, p)
    BY <1>0, <1>11, <2>2, <2>4, FinishType DEF Reserve, TypeOK
  <2>5. QED
    BY <2>3, <2>4
<1>12. CASE EndTurn(w)
  <2>1. MessageCost[task[w].plan] \in Int
    BY <1>0, ConfigAssumption DEF Tasks
  <2>2. QED
    BY <1>0, <1>12, <2>1, FinishType, DebitRefundType DEF EndTurn, TypeOK
<1>13. QED
  BY <1>1, <1>2, <1>3, <1>4, <1>5, <1>6, <1>7, <1>8, <1>9, <1>10, <1>11, <1>12 DEF Step
\* What a worker's step does to the book, whichever step it is: grant rows
\* stay, and every month keeps its share.
LEMMA StepBook ==
    ASSUME HandoutInv, NEW w \in Workers, Step(w)
    PROVE  /\ \A m \in Periods : HandoutShare(book', m)
           /\ \A m \in Periods : book.granted[m] # NoPlan =>
                book'.granted[m] = book.granted[m]
<1>0. /\ book \in Books /\ task[w] \in Tasks /\ Period(day) \in Periods
      /\ \A m \in Periods : HandoutShare(book, m)
  BY PeriodInRange DEF HandoutInv, TypeOK
<1>1. CASE UNCHANGED book
  BY <1>0, <1>1
<1>2. CASE WriteGrant(w)
  BY <1>0, <1>2, EnsureGrantEffect DEF WriteGrant, Tasks
<1>3. CASE WriteUpgrade(w)
  BY <1>0, <1>3, TopUpEffect DEF WriteUpgrade, HandoutInv, UpgradeBaseline, Tasks
<1>4. CASE Brief(w)
  <2>1. BriefCost \in Int
    BY ConfigAssumption
  <2>2. QED
    BY <1>0, <1>4, <2>1, DebitRefundEffect DEF Brief
<1>5. CASE ClampedDebit(w)
  <2>1. Charge(book, task[w].plan, task[w].credits) \in Int
    BY <1>0, ChargeBound DEF Tasks
  <2>2. QED
    BY <1>0, <1>5, <2>1, DebitRefundEffect DEF ClampedDebit
<1>6. CASE Reserve(w)
  <2> DEFINE p == task[w].plan
             a == EnsureGrant(book, Period(day), p)
             b == Reconcile(a, Period(day), p)
  <2>1. p \in Plans /\ MessageCost[p] \in Int
    BY <1>0, ConfigAssumption DEF Tasks
  <2>2. a \in Books /\ b \in Books
    BY <1>0, <2>1, EnsureGrantType, ReconcileType
  <2>3. /\ \A m \in Periods : HandoutShare(a, m)
        /\ \A m \in Periods : book.granted[m] # NoPlan =>
             a.granted[m] = book.granted[m]
    BY <1>0, <2>1, EnsureGrantEffect
  <2>4. b.granted = a.granted /\ \A m \in Periods : HandoutShare(b, m)
    BY <1>0, <2>1, <2>2, <2>3, ReconcileEffect
  <2>5. book' = Debit(b, MessageCost[p]) \/ book' = b
    BY <1>6 DEF Reserve
  <2>6. QED
    BY <2>1, <2>2, <2>3, <2>4, <2>5, DebitRefundEffect
<1>7. CASE EndTurn(w)
  <2>1. MessageCost[task[w].plan] \in Int
    BY <1>0, ConfigAssumption DEF Tasks
  <2>2. QED
    BY <1>0, <1>7, <2>1, DebitRefundEffect DEF EndTurn
<1>8. QED
  BY <1>1, <1>2, <1>3, <1>4, <1>5, <1>6, <1>7
     DEF Step, Start, CheckGrant, CheckPlan, ReadBalance, ReadBurst, Work

\* A worker's step keeps the baselines of pending upgrades and the batch jobs.
LEMMA StepControl ==
    ASSUME HandoutInv, NEW w \in Workers, Step(w)
    PROVE  UpgradeBaseline' /\ OpMatches'
<1> USE DEF HandoutInv
<1>0. /\ TypeOK /\ TypeOK' /\ task \in [Workers -> Tasks] /\ pc \in [Workers -> Labels]
      /\ book \in Books /\ Period(day) \in Periods
      /\ \A v \in Workers : task[v].period \in Periods
  BY StepType, PeriodInRange DEF TypeOK, Tasks
<1>1. \A m \in Periods : book.granted[m] # NoPlan =>
        book'.granted[m] = book.granted[m]
  BY StepBook
<1>2. \A v \in Workers \ {w} : task'[v] = task[v] /\ pc'[v] = pc[v]
  BY <1>0 DEF Step, Start, CheckGrant, WriteGrant, CheckPlan, WriteUpgrade,
     ReadBalance, ReadBurst, Brief, Work, ClampedDebit, Reserve, EndTurn,
     Goto, Finish
<1>3. pc'[w] = "write_upgrade" =>
        /\ task'[w].plan = "pro" /\ task'[w].from = "free"
        /\ book'.granted[task'[w].period] = "free"
  <2>1. CASE CheckPlan(w)
    BY <1>0, <2>1 DEF CheckPlan, Goto, Outranks, Tasks
  <2>2. CASE ~ CheckPlan(w)
    BY <1>0, <2>2 DEF Step, Start, CheckGrant, WriteGrant, WriteUpgrade,
       ReadBalance, ReadBurst, Brief, Work, ClampedDebit, Reserve, EndTurn,
       Goto, Finish, AfterGrant
  <2>3. QED
    BY <2>1, <2>2
<1>4. /\ pc'[w] = "work" => task'[w].op \in Batches
      /\ pc'[w] = "model" => task'[w].op = "brief"
  <2>1. CASE ReadBurst(w)
    BY <1>0, <2>1 DEF ReadBurst, Goto, Finish, Tasks
  <2>2. CASE ~ ReadBurst(w)
    BY <1>0, <2>2 DEF Step, Start, CheckGrant, WriteGrant, CheckPlan, WriteUpgrade,
       ReadBalance, Brief, Work, ClampedDebit, Reserve, EndTurn,
       Goto, Finish, AfterGrant
  <2>3. QED
    BY <2>1, <2>2
<1>5. UpgradeBaseline'
  BY <1>0, <1>1, <1>2, <1>3 DEF UpgradeBaseline
<1>6. OpMatches'
  BY <1>2, <1>4 DEF OpMatches
<1>7. QED
  BY <1>5, <1>6

\* HandoutInv holds initially and every step keeps it.
LEMMA HandoutInitial == Init => HandoutInv
<1> SUFFICES ASSUME Init PROVE HandoutInv
  OBVIOUS
<1>1. 0 \in Periods /\ NoTask \in Tasks /\ MaxGrant \in Nat
  BY ConfigAssumption DEF NoTask, TaskOf, Tasks, Periods, MaxGrant, Larger
<1>2. TypeOK
  BY <1>1, ConfigAssumption DEF Init, TypeOK, Books, Labels, Days, Periods
<1>3. \A m \in Periods : HandoutShare(book, m)
  BY <1>1 DEF Init, HandoutShare
<1>4. UpgradeBaseline /\ OpMatches
  BY DEF Init, UpgradeBaseline, OpMatches
<1>5. QED
  BY <1>2, <1>3, <1>4 DEF HandoutInv

\* Every step keeps HandoutInv.
LEMMA HandoutStep == HandoutInv /\ [Next]_vars => HandoutInv'
<1> SUFFICES ASSUME HandoutInv, [Next]_vars PROVE HandoutInv'
  OBVIOUS
<1>1. CASE \E w \in Workers : Step(w)
  <2>1. PICK w \in Workers : Step(w)
    BY <1>1
  <2>2. TypeOK' /\ UpgradeBaseline' /\ OpMatches'
    BY <2>1, StepType, StepControl
  <2>3. \A m \in Periods : HandoutShare(book', m)
    BY <2>1, StepBook
  <2>4. QED
    BY <2>2, <2>3 DEF HandoutInv
<1>2. CASE Purchase
  BY <1>2, ConfigAssumption DEF Purchase, HandoutInv, TypeOK, Books,
     UpgradeBaseline, OpMatches, HandoutShare
<1>3. CASE FlipPlan
  BY <1>3 DEF FlipPlan, HandoutInv, TypeOK, UpgradeBaseline, OpMatches, HandoutShare
<1>4. CASE Midnight
  BY <1>4, ConfigAssumption DEF Midnight, HandoutInv, TypeOK, Books, Days,
     UpgradeBaseline, OpMatches, HandoutShare
<1>5. CASE UNCHANGED vars
  BY <1>5 DEF vars, HandoutInv, TypeOK, UpgradeBaseline, OpMatches, HandoutShare
<1>6. QED
  BY <1>1, <1>2, <1>3, <1>4, <1>5 DEF Next

-----------------------------------------------------------------------------
(* How far the balance falls, and how much one day spends.                 *)

\* The share of a bound that briefs not in flight have used up.
LEMMA SlackFacts ==
    /\ \A n \in Int : Slack(n) \in Int /\ Slack(n) = Slack(n + 1) + BriefCost
    /\ \A n, k \in Int : n <= k => Slack(k) <= Slack(n)
    /\ \A n \in Int : n <= Cardinality(Workers) => Slack(n) >= - BriefCost
    /\ \A n \in Int : n < Cardinality(Workers) => Slack(n) >= 0
    /\ Cardinality(Workers) \in Nat
<1> DEFINE N == Cardinality(Workers)
<1>1. N \in Nat /\ BriefCost \in Nat
  BY WorkersAssumption, FS_CardinalityType, ConfigAssumption
<1>2. \A n \in Int : Slack(n) \in Int /\ Slack(n) = Slack(n + 1) + BriefCost
  BY <1>1 DEF Slack
<1>3. ASSUME NEW n \in Int, NEW k \in Int, n <= k
      PROVE  Slack(k) <= Slack(n)
  <2>1. Slack(n) - Slack(k) = BriefCost * (k - n)
    BY <1>1, <1>3 DEF Slack
  <2>2. BriefCost * (k - n) >= 0
    BY <1>1, <1>3
  <2>3. QED
    BY <1>2, <2>1, <2>2
<1>4. Slack(N) = - BriefCost /\ Slack(N - 1) = 0
  BY <1>1 DEF Slack
<1>5. \A n \in Int : n <= N => Slack(n) >= - BriefCost
  BY <1>1, <1>2, <1>3, <1>4
<1>6. \A n \in Int : n < N => Slack(n) >= 0
  <2> SUFFICES ASSUME NEW n \in Int, n < N PROVE Slack(n) >= 0
    OBVIOUS
  <2>1. n <= N - 1 /\ N - 1 \in Int
    BY <1>1
  <2>2. QED
    BY <1>2, <1>3, <1>4, <2>1
<1>7. QED
  BY <1>1, <1>2, <1>3, <1>5, <1>6

\* Bounds on the plans' numbers.
LEMMA PlanBounds ==
    /\ MaxCost \in Nat /\ MaxCost >= 1 /\ BriefCost \in Nat /\ BriefCost <= MaxCost
    /\ MaxBurst \in Nat /\ MaxBurst >= 1
    /\ \A p \in Plans : MessageCost[p] \in Nat /\ MessageCost[p] <= MaxCost
    /\ \A p \in Plans : DailyBurst[p] \in Nat /\ DailyBurst[p] <= MaxBurst
<1>1. MaxCost >= 1 /\ BriefCost \in Nat /\ BriefCost <= MaxCost /\ MaxBurst >= 1
  BY ConfigAssumption
<1>2. /\ MaxCost \in Nat /\ MaxBurst \in Nat
      /\ \A p \in Plans : MessageCost[p] \in Nat /\ MessageCost[p] <= MaxCost
      /\ \A p \in Plans : DailyBurst[p] \in Nat /\ DailyBurst[p] <= MaxBurst
  BY ConfigAssumption DEF MaxCost, MaxBurst, Larger
<1>3. QED
  BY <1>1, <1>2

\* A set of workers grows or shrinks by one, or misses one.
LEMMA WorkerSets ==
    ASSUME NEW S \in SUBSET Workers, NEW w \in Workers
    PROVE  /\ Cardinality(S) \in Nat
           /\ Cardinality(S) <= Cardinality(Workers)
           /\ w \notin S => Cardinality(S) < Cardinality(Workers)
           /\ Cardinality(S \ {w}) \in Nat
           /\ w \in S => Cardinality(S) = Cardinality(S \ {w}) + 1
           /\ Cardinality(S \ {w}) <= Cardinality(S)
<1>1. IsFiniteSet(Workers) /\ IsFiniteSet(S) /\ IsFiniteSet(S \ {w})
  BY WorkersAssumption, FS_Subset
<1>2. /\ Cardinality(S) \in Nat /\ Cardinality(S) <= Cardinality(Workers)
      /\ Cardinality(S) = Cardinality(Workers) => S = Workers
  BY <1>1, FS_Subset, FS_CardinalityType
<1>3. /\ Cardinality(S \ {w}) \in Nat
      /\ w \in S => Cardinality(S \ {w}) = Cardinality(S) - 1
      /\ w \notin S => S \ {w} = S
  BY <1>1, FS_RemoveElement, FS_CardinalityType
<1>4. Cardinality(Workers) \in Nat
  BY <1>1, FS_CardinalityType
<1>5. w \notin S => Cardinality(S) < Cardinality(Workers)
  BY <1>2, <1>4
<1>6. w \in S => Cardinality(S) = Cardinality(S \ {w}) + 1
  BY <1>2, <1>3
<1>7. QED
  BY <1>2, <1>3, <1>5, <1>6

\* What reserve's book looks like before the gate: grants only add.
LEMMA ReserveEffect ==
    ASSUME HandoutInv, NEW w \in Workers, Reserve(w)
    PROVE  LET p == task[w].plan IN
           \E b \in Books :
              /\ b.raw >= book.raw /\ b.spentToday = book.spentToday
              /\ \/ MaySpend(b, p) /\ book' = Debit(b, MessageCost[p])
                 \/ book' = b
<1> DEFINE p == task[w].plan
           a == EnsureGrant(book, Period(day), p)
           b == Reconcile(a, Period(day), p)
<1>1. p \in Plans /\ book \in Books /\ Period(day) \in Periods
  BY PeriodInRange DEF HandoutInv, TypeOK, Tasks
<1>2. a \in Books /\ b \in Books
  BY <1>1, EnsureGrantType, ReconcileType
<1>3. a.raw >= book.raw /\ a.spentToday = book.spentToday
  BY <1>1, EnsureGrantEffect
<1>4. b.raw >= a.raw /\ b.spentToday = a.spentToday
  BY <1>1, <1>2, ReconcileEffect
<1>5. \/ MaySpend(b, p) /\ book' = Debit(b, MessageCost[p])
      \/ book' = b
  BY DEF Reserve
<1>6. b.raw >= book.raw /\ b.spentToday = book.spentToday
  BY <1>1, <1>2, <1>3, <1>4 DEF Books
<1>7. QED
  BY <1>2, <1>5, <1>6

\* No step of a worker other than w moves w; a step of w leaves the others.
LEMMA OthersStay ==
    ASSUME HandoutInv, NEW w \in Workers, Step(w)
    PROVE  \A v \in Workers \ {w} : task'[v] = task[v] /\ pc'[v] = pc[v]
BY DEF HandoutInv, TypeOK, Step, Start, CheckGrant, WriteGrant, CheckPlan,
   WriteUpgrade, ReadBalance, ReadBurst, Brief, Work, ClampedDebit, Reserve,
   EndTurn, Goto, Finish
\* Two sets of workers that differ at most in w, and their slack.
LEMMA SlackStep ==
    ASSUME NEW G \in SUBSET Workers, NEW H \in SUBSET Workers,
           NEW w \in Workers, G \ {w} = H \ {w}
    PROVE  /\ Slack(Cardinality(G)) \in Int /\ Slack(Cardinality(H)) \in Int
           /\ Slack(Cardinality(H)) >= - BriefCost
           /\ w \notin H => Slack(Cardinality(H)) >= 0
           /\ w \notin H \/ w \in G => Slack(Cardinality(H)) >= Slack(Cardinality(G))
           /\ w \in G /\ w \notin H =>
                Slack(Cardinality(H)) = Slack(Cardinality(G)) + BriefCost
<1> DEFINE N == Cardinality(Workers)
<1>1. G \ {w} = H \ {w}
  OBVIOUS
<1>2. /\ Cardinality(G) \in Nat /\ Cardinality(H) \in Nat
      /\ Cardinality(G) <= N /\ Cardinality(H) <= N
      /\ w \notin H => Cardinality(H) < N
      /\ w \notin H => Cardinality(H) <= Cardinality(G)
      /\ w \in G => Cardinality(H) <= Cardinality(G)
      /\ w \in G /\ w \notin H => Cardinality(G) = Cardinality(H) + 1
  <2> DEFINE r == Cardinality(G \ {w})
  <2>1. /\ r \in Nat /\ r <= Cardinality(G) /\ Cardinality(G) \in Nat
        /\ Cardinality(G) <= N
        /\ w \in G => Cardinality(G) = r + 1
    BY <1>1, WorkerSets
  <2>2. /\ r <= Cardinality(H) /\ Cardinality(H) \in Nat /\ Cardinality(H) <= N
        /\ w \in H => Cardinality(H) = r + 1
        /\ w \notin H => Cardinality(H) < N
    BY <1>1, WorkerSets
  <2>3. w \notin H => Cardinality(H) = r
    <3>1. w \notin H => H = G \ {w}
      BY <1>1
    <3>2. QED
      BY <3>1
  <2>4. QED
    BY <2>1, <2>2, <2>3
<1>3. QED
  BY <1>2, SlackFacts

\* A worker's step keeps OverdrawInv.
LEMMA OverdrawStep ==
    ASSUME HandoutInv, OverdrawInv, NEW w \in Workers, Step(w)
    PROVE  OverdrawInv'
<1> DEFINE G == BriefsInFlight
           H == BriefsInFlight'
<1>0. /\ book \in Books /\ book' \in Books /\ task[w] \in Tasks
      /\ book.raw \in Int /\ book'.raw \in Int
      /\ task \in [Workers -> Tasks] /\ pc \in [Workers -> Labels]
  BY StepType DEF HandoutInv, TypeOK, Books
<1>1. /\ G \in SUBSET Workers /\ H \in SUBSET Workers
      /\ G \ {w} = H \ {w}
  BY OthersStay DEF BriefsInFlight
<1>3. /\ Slack(Cardinality(G)) \in Int /\ Slack(Cardinality(H)) \in Int
      /\ Slack(Cardinality(H)) >= - BriefCost
      /\ w \notin H => Slack(Cardinality(H)) >= 0
      /\ w \notin H \/ w \in G => Slack(Cardinality(H)) >= Slack(Cardinality(G))
      /\ w \in G /\ w \notin H =>
           Slack(Cardinality(H)) = Slack(Cardinality(G)) + BriefCost
  BY <1>1, SlackStep
<1>4. book.raw >= 1 - MaxCost - Slack(Cardinality(G))
  BY DEF OverdrawInv
<1>5. SUFFICES book'.raw >= 1 - MaxCost - Slack(Cardinality(H))
  BY DEF OverdrawInv, Slack
<1>6. CASE book'.raw >= book.raw /\ (w \notin H \/ w \in G)
  BY <1>0, <1>3, <1>4, <1>6, PlanBounds
<1>7. CASE ReadBalance(w)
  <2>1. CASE book.raw > 0
    BY <1>0, <1>3, <1>7, <2>1, PlanBounds DEF ReadBalance
  <2>2. CASE book.raw <= 0
    <3>1. w \notin H
      <4>1. CASE Finish(w)
        BY <1>0, <4>1 DEF Finish, Goto, BriefsInFlight
      <4>2. CASE /\ task[w].op \in Batches
                 /\ task' = [task EXCEPT ![w].seen = Larger(0, book.raw)]
        <5>1. task'[w].op \in Batches
          BY <1>0, <4>2 DEF Tasks
        <5>2. QED
          BY <5>1 DEF BriefsInFlight
      <4>3. QED
        BY <1>0, <1>7, <2>2, <4>1, <4>2 DEF ReadBalance
    <3>2. QED
      BY <1>0, <1>6, <1>7, <3>1 DEF ReadBalance
  <2>3. QED
    BY <1>0, <2>1, <2>2
<1>8. CASE Brief(w)
  <2>1. w \in G /\ w \notin H
    BY <1>0, <1>8 DEF Brief, Finish, Goto, BriefsInFlight, HandoutInv, OpMatches
  <2>2. book'.raw >= book.raw - BriefCost
    BY <1>0, <1>8, DebitRefundEffect, PlanBounds DEF Brief
  <2>3. QED
    BY <1>0, <1>3, <1>4, <2>1, <2>2, PlanBounds
<1>9. CASE ClampedDebit(w)
  <2> DEFINE c == Charge(book, task[w].plan, task[w].credits)
  <2>1. w \notin H
    BY <1>0, <1>9 DEF ClampedDebit, Finish, Goto, BriefsInFlight
  <2>2. c \in Nat /\ (c > 0 => c <= book.raw)
    BY <1>0, ChargeBound DEF Tasks
  <2>3. book'.raw = book.raw - c
    BY <1>0, <1>9, <2>2, DebitRefundEffect DEF ClampedDebit
  <2>4. QED
    BY <1>0, <1>3, <1>6, <2>1, <2>2, <2>3, PlanBounds
<1>10. CASE Reserve(w)
  <2>1. w \notin H
    BY <1>0, <1>10 DEF Reserve, Finish, Goto, BriefsInFlight
  <2>2. PICK b \in Books :
          /\ b.raw >= book.raw
          /\ \/ MaySpend(b, task[w].plan)
                  /\ book' = Debit(b, MessageCost[task[w].plan])
             \/ book' = b
    BY <1>10, ReserveEffect
  <2>3. /\ MessageCost[task[w].plan] \in Nat /\ MessageCost[task[w].plan] <= MaxCost
        /\ MaxCost \in Nat /\ b.raw \in Int
    BY <1>0, PlanBounds DEF Tasks, Books
  <2>4. CASE MaySpend(b, task[w].plan) /\ book' = Debit(b, MessageCost[task[w].plan])
    <3>1. b.raw > 0
      BY <2>4 DEF MaySpend
    <3>2. book'.raw = b.raw - MessageCost[task[w].plan]
      BY <2>3, <2>4, DebitRefundEffect
    <3>3. QED
      BY <1>0, <1>3, <2>1, <2>3, <3>1, <3>2
  <2>5. CASE book' = b
    BY <1>6, <2>1, <2>2, <2>5
  <2>6. QED
    BY <2>2, <2>4, <2>5
<1>11. CASE EndTurn(w)
  <2>1. w \notin H
    BY <1>0, <1>11 DEF EndTurn, Finish, Goto, BriefsInFlight
  <2>2. MessageCost[task[w].plan] \in Nat
    BY <1>0, PlanBounds DEF Tasks
  <2>3. book'.raw >= book.raw
    BY <1>0, <1>11, <2>2, DebitRefundEffect DEF EndTurn
  <2>4. QED
    BY <1>6, <2>1, <2>3
<1>12. CASE WriteGrant(w) \/ WriteUpgrade(w)
  <2>1. w \notin H
    BY <1>0, <1>12 DEF WriteGrant, WriteUpgrade, AfterGrant, Goto, BriefsInFlight
  <2>2. book'.raw >= book.raw
    BY <1>0, <1>12, EnsureGrantEffect, TopUpEffect
       DEF WriteGrant, WriteUpgrade, HandoutInv, UpgradeBaseline, Tasks
  <2>3. QED
    BY <1>6, <2>1, <2>2
<1>13. CASE Start(w) \/ CheckGrant(w) \/ CheckPlan(w) \/ Work(w) \/ ReadBurst(w)
  <2>1. w \notin H \/ w \in G
    BY <1>0, <1>13 DEF Start, CheckGrant, CheckPlan, Work, ReadBurst, AfterGrant,
       Finish, Goto, BriefsInFlight, Batches
  <2>2. book' = book
    BY <1>13 DEF Start, CheckGrant, CheckPlan, Work, ReadBurst
  <2>3. QED
    BY <1>0, <1>6, <2>1, <2>2
<1>14. QED
  BY <1>7, <1>8, <1>9, <1>10, <1>11, <1>12, <1>13 DEF Step
\* A worker's step keeps BurstInv.
LEMMA BurstStep ==
    ASSUME HandoutInv, BurstInv, NEW w \in Workers, Step(w)
    PROVE  BurstInv'
<1> DEFINE G == BriefsGated
           H == BriefsGated'
           Top == MaxBurst - 1 + MaxCost
<1>0. /\ book \in Books /\ book' \in Books /\ task[w] \in Tasks
      /\ book.spentToday \in Int /\ book'.spentToday \in Int /\ book.raw \in Int
      /\ pc \in [Workers -> Labels]
      /\ Top \in Int
  BY StepType, PlanBounds DEF HandoutInv, TypeOK, Books
<1>1. /\ G \in SUBSET Workers /\ H \in SUBSET Workers
      /\ G \ {w} = H \ {w}
  BY OthersStay DEF BriefsGated
<1>3. /\ Slack(Cardinality(G)) \in Int /\ Slack(Cardinality(H)) \in Int
      /\ Slack(Cardinality(H)) >= - BriefCost
      /\ w \notin H => Slack(Cardinality(H)) >= 0
      /\ w \notin H \/ w \in G => Slack(Cardinality(H)) >= Slack(Cardinality(G))
      /\ w \in G /\ w \notin H =>
           Slack(Cardinality(H)) = Slack(Cardinality(G)) + BriefCost
  BY <1>1, SlackStep
<1>4. book.spentToday <= Top + Slack(Cardinality(G))
  BY DEF BurstInv
<1>5. SUFFICES book'.spentToday <= Top + Slack(Cardinality(H))
  BY DEF BurstInv, Slack
<1>6. CASE book'.spentToday <= book.spentToday /\ (w \notin H \/ w \in G)
  BY <1>0, <1>3, <1>4, <1>6
<1>7. CASE ReadBurst(w)
  <2>1. CASE w \in H
    <3>1. pc'[w] = "model"
      BY <2>1 DEF BriefsGated
    <3>2. book.spentToday < DailyBurst[task[w].plan] /\ book' = book
      BY <1>0, <1>7, <3>1 DEF ReadBurst, Finish, Goto
    <3>3. DailyBurst[task[w].plan] \in Nat /\ DailyBurst[task[w].plan] <= MaxBurst
      BY <1>0, PlanBounds DEF Tasks
    <3>4. QED
      BY <1>0, <1>3, <3>2, <3>3, PlanBounds
  <2>2. CASE w \notin H
    BY <1>0, <1>6, <1>7, <2>2 DEF ReadBurst
  <2>3. QED
    BY <2>1, <2>2
<1>8. CASE Brief(w)
  <2>1. w \in G /\ w \notin H
    BY <1>0, <1>8 DEF Brief, Finish, Goto, BriefsGated
  <2>2. book'.spentToday <= book.spentToday + BriefCost
    BY <1>0, <1>8, DebitRefundEffect, PlanBounds DEF Brief
  <2>3. QED
    BY <1>0, <1>3, <1>4, <2>1, <2>2, PlanBounds
<1>9. CASE ClampedDebit(w)
  <2> DEFINE c == Charge(book, task[w].plan, task[w].credits)
  <2>1. w \notin H
    BY <1>0, <1>9 DEF ClampedDebit, Finish, Goto, BriefsGated
  <2>2. c \in Nat /\ (c > 0 => book.spentToday + c <= DailyBurst[task[w].plan])
    BY <1>0, ChargeBound DEF Tasks
  <2>3. book'.spentToday = book.spentToday + c
    <3>1. c \in Int /\ book' = Debit(book, c)
      BY <1>9, <2>2 DEF ClampedDebit
    <3>2. QED
      BY <1>0, <3>1, DebitRefundEffect
  <2>4. DailyBurst[task[w].plan] \in Nat /\ DailyBurst[task[w].plan] <= MaxBurst
    BY <1>0, PlanBounds DEF Tasks
  <2>5. QED
    BY <1>0, <1>3, <1>6, <2>1, <2>2, <2>3, <2>4, PlanBounds
<1>10. CASE Reserve(w)
  <2> DEFINE p == task[w].plan
  <2>1. w \notin H
    BY <1>0, <1>10 DEF Reserve, Finish, Goto, BriefsGated
  <2>2. PICK b \in Books :
          /\ b.spentToday = book.spentToday
          /\ \/ MaySpend(b, p) /\ book' = Debit(b, MessageCost[p])
             \/ book' = b
    BY <1>10, ReserveEffect
  <2>3. /\ MessageCost[p] \in Nat /\ MessageCost[p] <= MaxCost
        /\ DailyBurst[p] \in Nat /\ DailyBurst[p] <= MaxBurst
    BY <1>0, PlanBounds DEF Tasks
  <2>4. CASE MaySpend(b, p) /\ book' = Debit(b, MessageCost[p])
    <3>1. b.spentToday < DailyBurst[p]
      BY <2>4 DEF MaySpend
    <3>2. book'.spentToday = b.spentToday + MessageCost[p]
      BY <2>3, <2>4, DebitRefundEffect
    <3>3. QED
      BY <1>0, <1>3, <2>1, <2>2, <2>3, <3>1, <3>2, PlanBounds
  <2>5. CASE book' = b
    BY <1>0, <1>6, <2>1, <2>2, <2>5
  <2>6. QED
    BY <2>2, <2>4, <2>5
<1>11. CASE EndTurn(w)
  <2>1. w \notin H
    BY <1>0, <1>11 DEF EndTurn, Finish, Goto, BriefsGated
  <2>2. MessageCost[task[w].plan] \in Nat /\ book \in Books
    BY <1>0, PlanBounds DEF Tasks, HandoutInv, TypeOK
  <2>3. CASE book' = book
    BY <1>0, <1>6, <2>1, <2>3
  <2>4. CASE book' = Refund(book, MessageCost[task[w].plan])
    <3>1. book'.spentToday = book.spentToday - MessageCost[task[w].plan]
      BY <2>2, <2>4, DebitRefundEffect
    <3>2. QED
      BY <1>0, <1>6, <2>1, <2>2, <3>1
  <2>5. QED
    BY <1>11, <2>3, <2>4 DEF EndTurn
<1>12. CASE WriteGrant(w) \/ WriteUpgrade(w)
  <2>1. w \notin H
    BY <1>0, <1>12 DEF WriteGrant, WriteUpgrade, AfterGrant, Goto, BriefsGated
  <2>2. book'.spentToday = book.spentToday
    BY <1>0, <1>12, EnsureGrantEffect, TopUpEffect
       DEF WriteGrant, WriteUpgrade, HandoutInv, UpgradeBaseline, Tasks
  <2>3. QED
    BY <1>0, <1>6, <2>1, <2>2
<1>13. CASE Start(w) \/ CheckGrant(w) \/ CheckPlan(w) \/ Work(w) \/ ReadBalance(w)
  <2>1. w \notin H
    BY <1>0, <1>13 DEF Start, CheckGrant, CheckPlan, Work, ReadBalance, AfterGrant,
       Finish, Goto, BriefsGated
  <2>2. book' = book
    BY <1>13 DEF Start, CheckGrant, CheckPlan, Work, ReadBalance
  <2>3. QED
    BY <1>0, <1>6, <2>1, <2>2
<1>14. QED
  BY <1>7, <1>8, <1>9, <1>10, <1>11, <1>12, <1>13 DEF Step

-----------------------------------------------------------------------------
(* How high the balance rises.                                             *)

\* The cap on the balance, refundable turns included.
Cap == 2 * MaxGrant + PackCredits * purchases + MaxCost * Cardinality(Workers)

\* The numbers the cap is made of.
LEMMA CapFacts ==
    ASSUME purchases \in Nat
    PROVE  /\ MaxGrant \in Nat /\ \A p \in Plans : MonthlyGrant[p] \in Nat /\ MonthlyGrant[p] <= MaxGrant
           /\ PackCredits * purchases \in Nat
           /\ MaxCost * Cardinality(Workers) \in Nat
           /\ Cap \in Nat
           /\ Cap >= 2 * MaxGrant + MaxCost * Cardinality(Workers)
<1>1. /\ MaxGrant \in Nat
      /\ \A p \in Plans : MonthlyGrant[p] \in Nat /\ MonthlyGrant[p] <= MaxGrant
  BY ConfigAssumption DEF MaxGrant, Larger
<1>2. PackCredits * purchases \in Nat
  BY ConfigAssumption
<1>3. MaxCost * Cardinality(Workers) \in Nat
  <2>1. MaxCost \in Nat /\ Cardinality(Workers) \in Nat
    BY PlanBounds, SlackFacts
  <2>2. QED
    BY <2>1
<1>4. QED
  BY <1>1, <1>2, <1>3 DEF Cap

\* A grant leaves the balance alone or at two months of a plan at most.
LEMMA EnsureGrantCap ==
    ASSUME NEW b \in Books, NEW m \in Periods, NEW p \in Plans
    PROVE  LET c == EnsureGrant(b, m, p)
           IN  c.raw <= b.raw \/ c.raw <= 2 * MaxGrant
<1>1. /\ b.raw \in Int /\ MonthlyGrant[p] \in Nat /\ MaxGrant \in Nat
      /\ MonthlyGrant[p] <= MaxGrant
  BY ConfigAssumption DEF Books, MaxGrant, Larger
<1>2. EnsureGrant(b, m, p).raw \in {b.raw, b.raw + GrantDelta(p, b.raw)}
  BY DEF EnsureGrant
<1>3. GrantDelta(p, b.raw) <= 0 \/ GrantDelta(p, b.raw) <= 2 * MonthlyGrant[p] - b.raw
  BY <1>1 DEF GrantDelta, Larger, Smaller
<1>4. GrantDelta(p, b.raw) \in Int
  BY <1>1, GrantDeltaBound
<1>5. QED
  BY <1>1, <1>2, <1>3, <1>4

\* So does a top-up.
LEMMA TopUpCap ==
    ASSUME NEW b \in Books, NEW m \in Periods
    PROVE  LET c == TopUp(b, m, "free", "pro")
           IN  c.raw <= b.raw \/ c.raw <= 2 * MaxGrant
<1> DEFINE d == UpgradeDelta("free", "pro", b.raw)
<1>1. /\ b.raw \in Int /\ MonthlyGrant["pro"] \in Nat /\ MaxGrant \in Nat
      /\ MonthlyGrant["pro"] <= MaxGrant /\ MonthlyGrant["free"] \in Nat
  BY ConfigAssumption DEF Books, MaxGrant, Larger
<1>2. TopUp(b, m, "free", "pro").raw \in {b.raw, b.raw + d}
  BY DEF TopUp
<1>3. d <= 0 \/ d <= 2 * MonthlyGrant["pro"] - b.raw
  BY <1>1 DEF UpgradeDelta, Larger, Smaller
<1>4. d \in Int
  BY <1>1, UpgradeDeltaBound
<1>5. QED
  BY <1>1, <1>2, <1>3, <1>4

\* What reserve's book looks like before the gate: as it was, or capped.
LEMMA ReserveCap ==
    ASSUME HandoutInv, NEW w \in Workers, Reserve(w)
    PROVE  LET p == task[w].plan IN
           \E b \in Books :
              /\ b.raw <= book.raw \/ b.raw <= 2 * MaxGrant
              /\ \/ /\ book' = Debit(b, MessageCost[p])
                    /\ Goto(w, "turn") /\ UNCHANGED task
                 \/ book' = b /\ Finish(w)
<1> DEFINE p == task[w].plan
           a == EnsureGrant(book, Period(day), p)
           b == Reconcile(a, Period(day), p)
<1>1. p \in Plans /\ book \in Books /\ Period(day) \in Periods
  BY PeriodInRange DEF HandoutInv, TypeOK, Tasks
<1>2. a \in Books /\ b \in Books
  BY <1>1, EnsureGrantType, ReconcileType
<1>3. a.raw <= book.raw \/ a.raw <= 2 * MaxGrant
  BY <1>1, EnsureGrantCap
<1>4. b.raw <= a.raw \/ b.raw <= 2 * MaxGrant
  <2>1. CASE Outranks(p, a.granted[Period(day)])
    <3>1. b = TopUp(a, Period(day), "free", "pro")
      BY <2>1 DEF Reconcile, Outranks
    <3>2. QED
      BY <1>1, <1>2, <3>1, TopUpCap
  <2>2. CASE ~ Outranks(p, a.granted[Period(day)])
    BY <1>2, <2>2 DEF Reconcile, Books
  <2>3. QED
    BY <2>1, <2>2
<1>5. b.raw <= book.raw \/ b.raw <= 2 * MaxGrant
  <2>1. a.raw \in Int /\ b.raw \in Int /\ book.raw \in Int /\ 2 * MaxGrant \in Int
    BY <1>1, <1>2, ConfigAssumption DEF Books, MaxGrant, Larger
  <2>2. QED
    BY <1>3, <1>4, <2>1
<1>6. \/ book' = Debit(b, MessageCost[p]) /\ Goto(w, "turn") /\ UNCHANGED task
      \/ book' = b /\ Finish(w)
  BY Zenon DEF Reserve
<1>7. QED
  BY <1>2, <1>5, <1>6

\* What turns of the two plans hold between them: nothing below zero, and the
\* dearest turn of every worker at most.
LEMMA HeldRange ==
    /\ Held \in Nat
    /\ Held <= MaxCost * Cardinality(Workers)
<1> DEFINE F == TurnsOf("free")
           P == TurnsOf("pro")
           f == Cardinality(F)
           p == Cardinality(P)
           N == Cardinality(Workers)
<1>1. IsFiniteSet(Workers) /\ F \subseteq Workers /\ P \subseteq Workers /\ F \cap P = {}
  BY WorkersAssumption DEF TurnsOf
<1>2. f \in Nat /\ p \in Nat /\ N \in Nat
  BY <1>1, FS_Subset, FS_CardinalityType
<1>3. f + p <= N
  <2>1. IsFiniteSet(F) /\ IsFiniteSet(P) /\ IsFiniteSet(F \union P)
    BY <1>1, FS_Subset, FS_Union
  <2>2. Cardinality(F \union P) = f + p - Cardinality({})
    BY <1>1, <2>1, FS_Union
  <2>3. Cardinality(F \union P) <= N /\ Cardinality({}) = 0
    BY <1>1, FS_Subset, FS_EmptySet
  <2>4. QED
    BY <1>2, <2>2, <2>3
<1>4. /\ MessageCost["free"] \in Nat /\ MessageCost["free"] <= MaxCost
      /\ MessageCost["pro"] \in Nat /\ MessageCost["pro"] <= MaxCost
      /\ MaxCost \in Nat
  BY PlanBounds
<1>5. MessageCost["free"] * f <= MaxCost * f /\ MessageCost["free"] * f \in Nat
  <2>1. (MaxCost - MessageCost["free"]) * f >= 0
    BY <1>2, <1>4
  <2>2. QED
    BY <1>2, <1>4, <2>1
<1>6. MessageCost["pro"] * p <= MaxCost * p /\ MessageCost["pro"] * p \in Nat
  <2>1. (MaxCost - MessageCost["pro"]) * p >= 0
    BY <1>2, <1>4
  <2>2. QED
    BY <1>2, <1>4, <2>1
<1>7. MaxCost * f + MaxCost * p <= MaxCost * N
  <2>1. MaxCost * (N - (f + p)) >= 0
    BY <1>2, <1>3, <1>4
  <2>2. QED
    BY <1>2, <1>4, <2>1
<1>8. Held = MessageCost["free"] * f + MessageCost["pro"] * p
  BY DEF Held
<1>9. MaxCost * f \in Int /\ MaxCost * p \in Int /\ MaxCost * N \in Int
  BY <1>2, <1>4
<1> HIDE DEF f, p, N
<1>10. QED
  BY <1>5, <1>6, <1>7, <1>8, <1>9 DEF N

\* The turns of a plan after a step of w, which moves no other worker.
LEMMA TurnsStep ==
    ASSUME HandoutInv, NEW w \in Workers, Step(w), NEW p \in Plans
    PROVE  /\ Cardinality(TurnsOf(p)) \in Nat /\ Cardinality(TurnsOf(p)') \in Nat
           /\ w \in TurnsOf(p) /\ w \notin TurnsOf(p)' =>
                Cardinality(TurnsOf(p)) = Cardinality(TurnsOf(p)') + 1
           /\ w \notin TurnsOf(p) /\ w \in TurnsOf(p)' =>
                Cardinality(TurnsOf(p)') = Cardinality(TurnsOf(p)) + 1
           /\ (w \in TurnsOf(p)) = (w \in TurnsOf(p)') =>
                Cardinality(TurnsOf(p)') = Cardinality(TurnsOf(p))
<1> DEFINE G == TurnsOf(p)
           H == TurnsOf(p)'
<1>1. G \in SUBSET Workers /\ H \in SUBSET Workers /\ G \ {w} = H \ {w}
  BY OthersStay DEF TurnsOf
<1> HIDE DEF G, H
<1>2. /\ Cardinality(G) \in Nat /\ Cardinality(G \ {w}) \in Nat
      /\ w \in G => Cardinality(G) = Cardinality(G \ {w}) + 1
      /\ w \notin G => G \ {w} = G
  BY <1>1, WorkerSets
<1>3. /\ Cardinality(H) \in Nat
      /\ w \in H => Cardinality(H) = Cardinality(H \ {w}) + 1
      /\ w \notin H => H \ {w} = H
  BY <1>1, WorkerSets
<1>4. /\ Cardinality(G) \in Nat /\ Cardinality(H) \in Nat
      /\ w \in G /\ w \notin H => Cardinality(G) = Cardinality(H) + 1
      /\ w \notin G /\ w \in H => Cardinality(H) = Cardinality(G) + 1
      /\ (w \in G) = (w \in H) => Cardinality(H) = Cardinality(G)
  BY <1>1, <1>2, <1>3
<1>5. QED
  BY <1>4 DEF G, H

\* What the turns hold changes by the turn that begins or ends.
LEMMA HeldStep ==
    ASSUME HandoutInv, NEW w \in Workers, Step(w)
    PROVE  LET p == task[w].plan IN
           /\ Held \in Int /\ Held' \in Int
           /\ pc[w] = "turn" /\ pc'[w] # "turn" => Held = Held' + MessageCost[p]
           /\ pc[w] # "turn" /\ pc'[w] = "turn" /\ task' = task =>
                Held' = Held + MessageCost[p]
           /\ pc[w] # "turn" /\ pc'[w] # "turn" => Held' = Held
<1> DEFINE f == Cardinality(TurnsOf("free"))
           g == Cardinality(TurnsOf("free")')
           p == Cardinality(TurnsOf("pro"))
           q == Cardinality(TurnsOf("pro")')
           F == MessageCost["free"]
           P == MessageCost["pro"]
<1>1. F \in Nat /\ P \in Nat /\ task[w].plan \in Plans
  BY ConfigAssumption DEF HandoutInv, TypeOK, Tasks
<1>2. f \in Nat /\ g \in Nat /\ p \in Nat /\ q \in Nat
  BY TurnsStep
<1>3. Held = F * f + P * p /\ Held' = F * g + P * q
  BY DEF Held
<1>4. /\ \A x \in Plans : w \in TurnsOf(x) <=> pc[w] = "turn" /\ task[w].plan = x
      /\ \A x \in Plans : w \in TurnsOf(x)' <=> pc'[w] = "turn" /\ task'[w].plan = x
  BY DEF TurnsOf
<1>5. /\ F * (f + 1) = F * f + F /\ F * (g + 1) = F * g + F
      /\ P * (p + 1) = P * p + P /\ P * (q + 1) = P * q + P
      /\ F * f \in Int /\ F * g \in Int /\ P * p \in Int /\ P * q \in Int
  BY <1>1, <1>2
<1>6. ASSUME pc[w] = "turn", pc'[w] # "turn"
      PROVE  Held = Held' + MessageCost[task[w].plan]
  <2>1. CASE task[w].plan = "free"
    <3>1. f = g + 1 /\ p = q
      BY <1>4, <1>6, <2>1, TurnsStep
    <3>2. QED
      BY <1>1, <1>3, <1>5, <2>1, <3>1
  <2>2. CASE task[w].plan = "pro"
    <3>1. f = g /\ p = q + 1
      BY <1>4, <1>6, <2>2, TurnsStep
    <3>2. QED
      BY <1>1, <1>3, <1>5, <2>2, <3>1
  <2>3. QED
    BY <1>1, <2>1, <2>2
<1>7. ASSUME pc[w] # "turn", pc'[w] = "turn", task' = task
      PROVE  Held' = Held + MessageCost[task[w].plan]
  <2>1. CASE task[w].plan = "free"
    <3>1. g = f + 1 /\ p = q
      BY <1>4, <1>7, <2>1, TurnsStep
    <3>2. QED
      BY <1>1, <1>3, <1>5, <2>1, <3>1
  <2>2. CASE task[w].plan = "pro"
    <3>1. f = g /\ q = p + 1
      BY <1>4, <1>7, <2>2, TurnsStep
    <3>2. QED
      BY <1>1, <1>3, <1>5, <2>2, <3>1
  <2>3. QED
    BY <1>1, <2>1, <2>2
<1>8. ASSUME pc[w] # "turn", pc'[w] # "turn"
      PROVE  Held' = Held
  <2>1. g = f /\ q = p
    BY <1>4, <1>8, TurnsStep
  <2>2. QED
    BY <1>3, <2>1
<1>9. Held \in Int /\ Held' \in Int
  BY <1>3, <1>5
<1>10. QED
  BY <1>6, <1>7, <1>8, <1>9

\* A worker's step keeps RolloverInv.
LEMMA RolloverStep ==
    ASSUME HandoutInv, RolloverInv, NEW w \in Workers, Step(w)
    PROVE  RolloverInv'
<1> DEFINE p == task[w].plan
<1>0. /\ TypeOK /\ book \in Books /\ book' \in Books /\ task[w] \in Tasks
      /\ book.raw \in Int /\ book'.raw \in Int
      /\ pc \in [Workers -> Labels] /\ purchases \in Nat
      /\ p \in Plans /\ MessageCost[p] \in Nat
  BY StepType, ConfigAssumption DEF HandoutInv, TypeOK, Books, Tasks
<1>1. book.raw + Held <= Cap /\ Cap \in Int /\ 2 * MaxGrant \in Int
  BY <1>0, CapFacts DEF RolloverInv, Cap
<1>2. /\ Held \in Int /\ Held' \in Int
      /\ pc[w] = "turn" /\ pc'[w] # "turn" => Held = Held' + MessageCost[p]
      /\ pc[w] # "turn" /\ pc'[w] = "turn" /\ task' = task => Held' = Held + MessageCost[p]
      /\ pc[w] # "turn" /\ pc'[w] # "turn" => Held' = Held
  BY HeldStep
<1>3. ASSUME NEW r \in Int, r <= book.raw \/ r <= 2 * MaxGrant
      PROVE  r + Held <= Cap
  <2>1. MaxCost * Cardinality(Workers) \in Int
    BY <1>0, CapFacts
  <2>2. CASE r <= book.raw
    BY <1>0, <1>1, <1>2, <2>2
  <2>3. CASE r <= 2 * MaxGrant
    BY <1>0, <1>1, <1>2, <2>1, <2>3, CapFacts, HeldRange
  <2>4. QED
    BY <1>3, <2>2, <2>3
<1>4. purchases' = purchases
  BY DEF Step, Start, CheckGrant, WriteGrant, CheckPlan, WriteUpgrade, ReadBalance,
     ReadBurst, Brief, Work, ClampedDebit, Reserve, EndTurn, World
<1>5. SUFFICES book'.raw + Held' <= Cap
  BY <1>4 DEF RolloverInv, Cap
<1>6. CASE WriteGrant(w) \/ WriteUpgrade(w)
  <2>1. pc[w] # "turn" /\ pc'[w] # "turn"
    BY <1>0, <1>6 DEF WriteGrant, WriteUpgrade, AfterGrant, Goto
  <2>2. book'.raw <= book.raw \/ book'.raw <= 2 * MaxGrant
    BY <1>0, <1>6, EnsureGrantCap, TopUpCap
       DEF WriteGrant, WriteUpgrade, HandoutInv, UpgradeBaseline, Tasks
  <2>3. QED
    BY <1>0, <1>2, <1>3, <2>1, <2>2
<1>7. CASE Reserve(w)
  <2>1. PICK b \in Books :
          /\ b.raw <= book.raw \/ b.raw <= 2 * MaxGrant
          /\ \/ book' = Debit(b, MessageCost[p]) /\ Goto(w, "turn") /\ UNCHANGED task
             \/ book' = b /\ Finish(w)
    BY <1>7, ReserveCap
  <2>2. b.raw \in Int /\ b.raw + Held <= Cap
    BY <1>3, <2>1 DEF Books
  <2>3. pc[w] # "turn"
    BY <1>7 DEF Reserve
  <2>4. CASE book' = Debit(b, MessageCost[p]) /\ Goto(w, "turn") /\ UNCHANGED task
    <3>1. book'.raw = b.raw - MessageCost[p]
      BY <1>0, <2>4, DebitRefundEffect
    <3>2. pc'[w] = "turn"
      BY <1>0, <2>4 DEF Goto
    <3>3. QED
      BY <1>0, <1>1, <1>2, <2>2, <2>3, <2>4, <3>1, <3>2
  <2>5. CASE book' = b /\ Finish(w)
    <3>1. pc'[w] # "turn"
      BY <1>0, <2>5 DEF Finish, Goto
    <3>2. QED
      BY <1>2, <2>2, <2>3, <2>5, <3>1
  <2>6. QED
    BY <2>1, <2>4, <2>5
<1>8. CASE EndTurn(w)
  <2>1. pc[w] = "turn" /\ pc'[w] # "turn"
    BY <1>0, <1>8 DEF EndTurn, Finish, Goto
  <2>2. book'.raw <= book.raw + MessageCost[p]
    BY <1>0, <1>8, DebitRefundEffect DEF EndTurn
  <2>3. QED
    BY <1>0, <1>1, <1>2, <2>1, <2>2
<1>9. CASE \/ Start(w) \/ CheckGrant(w) \/ CheckPlan(w) \/ ReadBalance(w) \/ ReadBurst(w)
           \/ Work(w) \/ Brief(w) \/ ClampedDebit(w)
  <2>1. pc[w] # "turn" /\ pc'[w] # "turn"
    BY <1>0, <1>9 DEF Start, CheckGrant, CheckPlan, ReadBalance, ReadBurst, Work, Brief,
       ClampedDebit, AfterGrant, Finish, Goto
  <2>2. Charge(book, p, task[w].credits) \in Nat /\ BriefCost \in Nat
    BY <1>0, ChargeBound, PlanBounds DEF Tasks
  <2>3. book'.raw <= book.raw
    BY <1>0, <1>9, <2>2, DebitRefundEffect DEF Start, CheckGrant, CheckPlan, ReadBalance,
       ReadBurst, Work, Brief, ClampedDebit
  <2>4. QED
    BY <1>0, <1>2, <1>3, <2>1, <2>3
<1>10. QED
  BY <1>6, <1>7, <1>8, <1>9 DEF Step

\* Every step keeps RolloverInv; what a purchase adds, the cap allows for.
LEMMA RolloverKept ==
    ASSUME HandoutInv, RolloverInv, [Next]_vars
    PROVE  RolloverInv'
<1>0. book.raw \in Int /\ purchases \in Nat /\ Cap \in Int /\ book \in Books
  BY CapFacts DEF HandoutInv, TypeOK, Books
<1>1. CASE \E w \in Workers : Step(w)
  BY <1>1, RolloverStep
<1>2. CASE Purchase
  <2>1. Held' = Held /\ Held \in Int
    BY <1>2, HeldRange DEF Purchase, Held, TurnsOf
  <2>2. book'.raw = book.raw + PackCredits /\ purchases' = purchases + 1
    BY <1>0, <1>2 DEF Purchase, Books
  <2>3. Cap' = Cap + PackCredits
    <3>1. PackCredits * (purchases + 1) = PackCredits * purchases + PackCredits
      BY <1>0, ConfigAssumption
    <3>2. QED
      BY <1>0, <2>2, <3>1, CapFacts, ConfigAssumption DEF Cap
  <2>4. book.raw + Held <= Cap /\ PackCredits \in Int
    BY ConfigAssumption DEF RolloverInv, Cap
  <2>5. book'.raw + Held' <= Cap'
    BY <1>0, <2>1, <2>2, <2>3, <2>4
  <2>6. QED
    BY <2>5 DEF RolloverInv, Cap
<1>3. CASE Midnight \/ FlipPlan \/ UNCHANGED vars
  <2>1. Held' = Held /\ purchases' = purchases
    BY <1>3 DEF Midnight, FlipPlan, vars, Held, TurnsOf
  <2>2. book'.raw = book.raw
    BY <1>0, <1>3 DEF Midnight, FlipPlan, vars, Books
  <2>3. QED
    BY <2>1, <2>2 DEF RolloverInv
<1>4. QED
  BY <1>1, <1>2, <1>3 DEF Next

\* The strengthened invariant of the balance and of the daily backstop.
LedgerInv == HandoutInv /\ OverdrawInv /\ BurstInv /\ RolloverInv

\* The strengthened invariant holds in every reachable state.
LEMMA LedgerInvariant == Spec => []LedgerInv
<1>1. Init => LedgerInv
  <2> SUFFICES ASSUME Init PROVE LedgerInv
    OBVIOUS
  <2>1. BriefsInFlight = {} /\ BriefsGated = {}
    BY DEF Init, BriefsInFlight, BriefsGated
  <2>2. Cardinality({}) = 0 /\ Cardinality(Workers) > 0
    <3>1. PICK w : w \in Workers
      BY WorkersAssumption
    <3>2. Cardinality({}) = 0 /\ Cardinality({}) < Cardinality(Workers)
      BY <3>1, WorkerSets, FS_EmptySet
    <3>3. QED
      BY <3>2
  <2>3. Slack(0) >= 0 /\ Slack(0) \in Int
    BY <2>2, SlackFacts
  <2>4. OverdrawInv
    BY <2>1, <2>2, <2>3, PlanBounds DEF Init, OverdrawInv
  <2>5. BurstInv
    BY <2>1, <2>2, <2>3, PlanBounds DEF Init, BurstInv
  <2>6. RolloverInv
    <3>1. TurnsOf("free") = {} /\ TurnsOf("pro") = {}
      BY DEF Init, TurnsOf
    <3>2. purchases \in Nat /\ book.raw = 0
      BY DEF Init
    <3>3. Held = 0
      BY <2>2, <3>1, PlanBounds DEF Held
    <3>4. QED
      BY <3>2, <3>3, CapFacts DEF RolloverInv, Cap
  <2>7. QED
    BY <2>4, <2>5, <2>6, HandoutInitial DEF LedgerInv
<1>2. LedgerInv /\ [Next]_vars => LedgerInv'
  <2> SUFFICES ASSUME LedgerInv, [Next]_vars PROVE LedgerInv'
    OBVIOUS
  <2>1. HandoutInv /\ HandoutInv' /\ OverdrawInv /\ BurstInv /\ RolloverInv'
    BY HandoutStep, RolloverKept DEF LedgerInv
  <2>2. CASE \E w \in Workers : Step(w)
    BY <2>1, <2>2, OverdrawStep, BurstStep DEF LedgerInv
  <2>3. BriefsGated \in SUBSET Workers
    BY DEF BriefsGated
  <2>4. Cardinality(BriefsGated) \in Nat /\ Cardinality(BriefsGated) <= Cardinality(Workers)
    BY <2>3, WorkerSets, WorkersAssumption
  <2>5. Slack(Cardinality(BriefsGated)) >= - BriefCost
        /\ Slack(Cardinality(BriefsGated)) \in Int
    BY <2>4, SlackFacts
  <2>6. Slack(Cardinality(BriefsInFlight)) \in Int
    <3>1. BriefsInFlight \in SUBSET Workers
      BY DEF BriefsInFlight
    <3>2. Cardinality(BriefsInFlight) \in Nat
      BY <3>1, WorkerSets, WorkersAssumption
    <3>3. QED
      BY <3>2, SlackFacts
  <2>7. CASE Purchase
    <3>1. /\ book'.raw >= book.raw /\ book'.spentToday = book.spentToday
          /\ book.raw \in Int /\ book'.raw \in Int
      BY <2>1, <2>7, ConfigAssumption DEF Purchase, HandoutInv, TypeOK, Books
    <3>2. BriefsInFlight' = BriefsInFlight /\ BriefsGated' = BriefsGated
      BY <2>7 DEF Purchase, BriefsInFlight, BriefsGated
    <3>3. OverdrawInv'
      BY <2>1, <2>6, <3>1, <3>2, PlanBounds DEF OverdrawInv, Slack
    <3>4. BurstInv'
      BY <2>1, <3>1, <3>2 DEF BurstInv, Slack
    <3>5. QED
      BY <2>1, <3>3, <3>4 DEF LedgerInv
  <2>8. CASE Midnight
    <3>1. book'.raw = book.raw /\ book'.spentToday = 0
      BY <2>1, <2>8 DEF Midnight, HandoutInv, TypeOK, Books
    <3>2. BriefsInFlight' = BriefsInFlight /\ BriefsGated' = BriefsGated
      BY <2>8 DEF Midnight, BriefsInFlight, BriefsGated
    <3>3. OverdrawInv'
      BY <2>1, <3>1, <3>2 DEF OverdrawInv, Slack
    <3>4. 0 <= MaxBurst - 1 + MaxCost + Slack(Cardinality(BriefsGated))
      BY <2>5, PlanBounds
    <3>5. BurstInv'
      BY <3>1, <3>2, <3>4 DEF BurstInv, Slack
    <3>6. QED
      BY <2>1, <3>3, <3>5 DEF LedgerInv
  <2>9. CASE FlipPlan \/ UNCHANGED vars
    BY <2>1, <2>9 DEF FlipPlan, vars, LedgerInv, OverdrawInv, BurstInv,
       BriefsInFlight, BriefsGated, Slack
  <2>10. QED
    BY <2>2, <2>7, <2>8, <2>9 DEF Next
<1>3. QED
  BY <1>1, <1>2, PTL DEF Spec

\* Every variable stays in its domain.
THEOREM TypeCorrect == Spec => []TypeOK
<1>1. LedgerInv => TypeOK
  BY DEF LedgerInv, HandoutInv
<1>2. QED
  BY <1>1, LedgerInvariant, PTL

\* No month hands out more than one monthly grant of the best plan, however
\* many requests race to write its grant and upgrade rows (credits.py).
THEOREM MonthlyHandoutHolds == Spec => []MonthlyHandout
<1>1. LedgerInv => MonthlyHandout
  BY DEF LedgerInv, HandoutInv, HandoutShare, MonthlyHandout
<1>2. QED
  BY <1>1, LedgerInvariant, PTL

\* The balance falls below zero by at most one chat turn's overdraw and one
\* brief of every other concurrent request (credits.py, crm/views.py).
THEOREM OverdrawBoundedHolds == Spec => []OverdrawBounded
<1>1. LedgerInv => OverdrawBounded
  <2> SUFFICES ASSUME LedgerInv PROVE OverdrawBounded
    OBVIOUS
  <2> DEFINE n == Cardinality(BriefsInFlight)
  <2>1. n \in Nat
    <3>1. BriefsInFlight \in SUBSET Workers
      BY DEF BriefsInFlight
    <3>2. QED
      BY <3>1, WorkerSets, WorkersAssumption
  <2>2. Slack(n) <= Slack(0) /\ Slack(n) \in Int /\ Slack(0) \in Int
    BY <2>1, SlackFacts
  <2>3. book.raw >= 1 - MaxCost - Slack(n) /\ book.raw \in Int
    BY DEF LedgerInv, OverdrawInv, HandoutInv, TypeOK, Books
  <2>4. Slack(0) = BriefCost * (Cardinality(Workers) - 1)
    BY SlackFacts, PlanBounds DEF Slack
  <2>5. book.raw >= 1 - MaxCost - Slack(0)
    BY <2>2, <2>3, PlanBounds
  <2>6. QED
    BY <2>4, <2>5 DEF OverdrawBounded
<1>2. QED
  BY <1>1, LedgerInvariant, PTL

\* One day's net spend stops within one chat turn, and the other requests'
\* briefs, of the largest daily burst (credits.py, can_spend).
THEOREM BurstBoundedHolds == Spec => []BurstBounded
<1>1. LedgerInv => BurstBounded
  <2> SUFFICES ASSUME LedgerInv PROVE BurstBounded
    OBVIOUS
  <2> DEFINE n == Cardinality(BriefsGated)
  <2>1. n \in Nat
    <3>1. BriefsGated \in SUBSET Workers
      BY DEF BriefsGated
    <3>2. QED
      BY <3>1, WorkerSets, WorkersAssumption
  <2>2. Slack(n) <= Slack(0) /\ Slack(n) \in Int /\ Slack(0) \in Int
    BY <2>1, SlackFacts
  <2>3. /\ book.spentToday <= MaxBurst - 1 + MaxCost + Slack(n)
        /\ book.spentToday \in Int
    BY DEF LedgerInv, BurstInv, HandoutInv, TypeOK, Books
  <2>4. Slack(0) = BriefCost * (Cardinality(Workers) - 1)
    BY SlackFacts, PlanBounds DEF Slack
  <2>5. book.spentToday <= MaxBurst - 1 + MaxCost + Slack(0)
    BY <2>2, <2>3, PlanBounds
  <2>6. QED
    BY <2>4, <2>5 DEF BurstBounded
<1>2. QED
  BY <1>1, LedgerInvariant, PTL

\* The balance never compounds past two months of the best plan, what was
\* bought, and the turns that may still be refunded (credits.py, rollover).
THEOREM RolloverCappedHolds == Spec => []RolloverCapped
<1>1. LedgerInv => RolloverCapped
  <2> SUFFICES ASSUME LedgerInv PROVE RolloverCapped
    OBVIOUS
  <2>1. book.raw \in Int /\ purchases \in Nat /\ book.raw + Held <= Cap
    BY DEF LedgerInv, RolloverInv, HandoutInv, TypeOK, Books, Cap
  <2>2. book.raw <= Cap
    BY <2>1, HeldRange, CapFacts
  <2>3. QED
    BY <2>2 DEF RolloverCapped, Cap
<1>2. QED
  BY <1>1, LedgerInvariant, PTL

-----------------------------------------------------------------------------
(* StripeWebhook: a purchase is granted once.                              *)

\* What makes a purchase unique: a granted checkout is on record, a claim is
\* for a checkout nobody has recorded or claimed, and no worker goes on with
\* an event that says nothing of money.
PurchaseInv ==
    /\ \A c \in Checkouts : granted[c] \in {0, 1}
    /\ \A c \in Checkouts : granted[c] = 1 => \E r \in processed : r.checkout = c
    /\ \A w \in Deliveries : claim[w] # None =>
          /\ claim[w] = [event |-> event[w], checkout |-> event[w][1]]
          /\ \A r \in processed : r.checkout # event[w][1]
          /\ \A v \in Deliveries : v # w /\ claim[v] # None => claim[v].checkout # event[w][1]
    /\ RecordedWasGranted
    /\ \A e \in Events : status[e] = "paid" => payment[e[1]] = "paid"
    /\ \A w \in Deliveries : at[w] \in {"mark", "begin", "insert", "grant"} =>
          status[event[w]] = "paid"
    /\ GrantedWasPaid

\* An event names a checkout.
LEMMA EventCheckout == \A e \in Events : e[1] \in Checkouts /\ e[1] # None
BY StripeAssumption DEF Events

\* The initial state has no purchase.
LEMMA Initial == WebhookInit => WebhookTypeOK /\ PurchaseInv
BY StripeAssumption DEF WebhookInit, WebhookTypeOK, PurchaseInv, RecordedWasGranted, GrantedWasPaid, Events

\* Every step keeps the types.
LEMMA TypeStep == WebhookTypeOK /\ PurchaseInv /\ [WebhookNext]_webhookVars => WebhookTypeOK'
<1> SUFFICES ASSUME WebhookTypeOK, PurchaseInv, [WebhookNext]_webhookVars
             PROVE  WebhookTypeOK'
  OBVIOUS
<1> USE StripeAssumption DEF WebhookTypeOK, stripeVars, workVars, Proceed, Idle
<1>1. ASSUME NEW c \in Checkouts, NEW paid \in {"unpaid", "paid"}, Complete(c, paid)
      PROVE  WebhookTypeOK'
  BY <1>1 DEF Complete, Emit, Events
<1>2. ASSUME NEW c \in Checkouts, SettlePayment(c)
      PROVE  WebhookTypeOK'
  BY <1>2 DEF SettlePayment, Emit, Events
<1>13. ASSUME NEW c \in Checkouts, ReportAgain(c)
       PROVE  WebhookTypeOK'
  BY <1>13 DEF ReportAgain, Emit, Events
<1>3. ASSUME NEW w \in Deliveries, NEW e \in Events, Deliver(w, e)
      PROVE  WebhookTypeOK'
  BY <1>3 DEF Deliver
<1>4. ASSUME NEW w \in Deliveries, Lookup(w)
      PROVE  WebhookTypeOK'
  BY <1>4 DEF Lookup
<1>5. ASSUME NEW w \in Deliveries, MarkProcessed(w)
      PROVE  WebhookTypeOK'
  <2>1. [event |-> event[w], checkout |-> None] \in Records
    BY <1>5 DEF MarkProcessed, Records
  <2>2. processed' \subseteq Records
    BY <1>5, <2>1 DEF MarkProcessed
  <2>3. QED
    BY <1>5, <2>2 DEF MarkProcessed
<1>6. ASSUME NEW w \in Deliveries, Begin(w)
      PROVE  WebhookTypeOK'
  BY <1>6 DEF Begin
<1>7. ASSUME NEW w \in Deliveries, Insert(w)
      PROVE  WebhookTypeOK'
  <2>1. [event |-> event[w], checkout |-> event[w][1]] \in Records
    BY <1>7, EventCheckout DEF Insert, Records
  <2>2. CASE claim' = claim /\ at' \in {[at EXCEPT ![w] = "respond"], [at EXCEPT ![w] = "fail"]}
    BY <1>7, <2>2 DEF Insert
  <2>3. CASE /\ claim' = [claim EXCEPT ![w] = [event |-> event[w], checkout |-> event[w][1]]]
             /\ at' = [at EXCEPT ![w] = "grant"]
    BY <1>7, <2>1, <2>3 DEF Insert
  <2>4. QED
    BY <1>7, <2>2, <2>3, Zenon DEF Insert
<1>8. ASSUME NEW w \in Deliveries, Grant(w)
      PROVE  WebhookTypeOK'
  <2>1. /\ claim[w] \in Records
        /\ claim[w].checkout \in Checkouts
    BY <1>8, EventCheckout DEF Grant, PurchaseInv
  <2>2. processed' \subseteq Records /\ granted' \in [Checkouts -> Nat]
    BY <1>8, <2>1 DEF Grant
  <2>3. /\ at' \in {[at EXCEPT ![w] = "respond"], [at EXCEPT ![w] = "fail"]}
        /\ claim' = [claim EXCEPT ![w] = None]
        /\ at[w] = "grant"
        /\ UNCHANGED <<stripeVars, event, user, crashes>>
    BY <1>8, Zenon DEF Grant
  <2>4. QED
    BY <2>2, <2>3
<1>9. ASSUME NEW w \in Deliveries, Respond(w) \/ Fail(w)
      PROVE  WebhookTypeOK'
  BY <1>9 DEF Respond, Fail
<1>10. ASSUME NEW w \in Deliveries, Crash(w)
       PROVE  WebhookTypeOK'
  BY <1>10 DEF Crash
<1>11. CASE DeleteUser \/ UNCHANGED webhookVars
  BY <1>11 DEF DeleteUser, webhookVars
<1>12. QED
  BY <1>1, <1>2, <1>3, <1>4, <1>5, <1>6, <1>7, <1>8, <1>9, <1>10, <1>11, <1>13, Zenon
  DEF WebhookNext, Handle

\* Every step keeps purchases unique, recorded and paid.
LEMMA PurchaseStep == WebhookTypeOK /\ PurchaseInv /\ [WebhookNext]_webhookVars => PurchaseInv'
<1> SUFFICES ASSUME WebhookTypeOK, PurchaseInv, [WebhookNext]_webhookVars
             PROVE  PurchaseInv'
  OBVIOUS
<1> USE StripeAssumption DEF WebhookTypeOK, PurchaseInv, RecordedWasGranted, GrantedWasPaid,
        stripeVars, workVars, Proceed, Idle
<1>1. ASSUME NEW c \in Checkouts, NEW paid \in {"unpaid", "paid"}, Complete(c, paid)
      PROVE  PurchaseInv'
  <2>1. \A e \in Events : status'[e] = "paid" => payment'[e[1]] = "paid"
    BY <1>1, EventCheckout DEF Complete, Emit, Events
  <2>2. \A e \in Events : status[e] = "paid" => status'[e] = "paid"
    BY <1>1, EventCheckout DEF Complete, Emit, Events
  <2>3. \A d \in Checkouts : payment[d] = "paid" => payment'[d] = "paid"
    BY <1>1 DEF Complete
  <2>4. QED
    BY <1>1, <2>1, <2>2, <2>3 DEF Complete
<1>2. ASSUME NEW c \in Checkouts, SettlePayment(c)
      PROVE  PurchaseInv'
  <2>1. \A e \in Events : status'[e] = "paid" => payment'[e[1]] = "paid"
    BY <1>2, EventCheckout DEF SettlePayment, Emit, Events
  <2>2. \A e \in Events : status[e] = "paid" => status'[e] = "paid"
    BY <1>2, EventCheckout DEF SettlePayment, Emit, Events
  <2>3. \A d \in Checkouts : payment[d] = "paid" => payment'[d] = "paid"
    BY <1>2 DEF SettlePayment
  <2>4. QED
    BY <1>2, <2>1, <2>2, <2>3 DEF SettlePayment
<1>13. ASSUME NEW c \in Checkouts, ReportAgain(c)
       PROVE  PurchaseInv'
  <2>1. \A e \in Events : status'[e] = "paid" => payment'[e[1]] = "paid"
    BY <1>13, EventCheckout DEF ReportAgain, Emit, Events
  <2>2. \A e \in Events : status[e] = "paid" => status'[e] = "paid"
    BY <1>13, EventCheckout DEF ReportAgain, Emit, Events
  <2>3. QED
    BY <1>13, <2>1, <2>2 DEF ReportAgain
<1>3. ASSUME NEW w \in Deliveries, NEW e \in Events, Deliver(w, e)
      PROVE  PurchaseInv'
  BY <1>3 DEF Deliver
<1>4. ASSUME NEW w \in Deliveries, Lookup(w)
      PROVE  PurchaseInv'
  BY <1>4 DEF Lookup
<1>5. ASSUME NEW w \in Deliveries, MarkProcessed(w)
      PROVE  PurchaseInv'
  <2>1. \A r \in processed' : r \in processed \/ r.checkout = None
    BY <1>5 DEF MarkProcessed
  <2>2. processed \subseteq processed'
    BY <1>5 DEF MarkProcessed
  <2>3. QED
    BY <1>5, <2>1, <2>2, EventCheckout DEF MarkProcessed
<1>6. ASSUME NEW w \in Deliveries, Begin(w)
      PROVE  PurchaseInv'
  BY <1>6 DEF Begin
<1>7. ASSUME NEW w \in Deliveries, Insert(w)
      PROVE  PurchaseInv'
  <2>1. CASE claim' = claim /\ at' \in {[at EXCEPT ![w] = "respond"], [at EXCEPT ![w] = "fail"]}
    BY <1>7, <2>1 DEF Insert
  <2>2. CASE /\ claim' = [claim EXCEPT ![w] = [event |-> event[w], checkout |-> event[w][1]]]
             /\ at' = [at EXCEPT ![w] = "grant"]
    <3>1. /\ at[w] = "insert" /\ event[w] \in Events /\ claim[w] = None
          /\ \A v \in Deliveries \ {w} : claim[v] # None => claim[v].checkout # event[w][1]
      BY <1>7, EventCheckout DEF Insert, Waits
    <3>2. \A r \in processed : r.checkout # event[w][1]
      BY <1>7, <2>2, <3>1 DEF Insert
    <3>3. claim'[w] = [event |-> event[w], checkout |-> event[w][1]]
      BY <2>2
    <3>4. \A v \in Deliveries \ {w} : claim'[v] = claim[v]
      BY <2>2
    <3>5. \A v \in Deliveries : claim[v] # None => claim[v].checkout = event[v][1]
      OBVIOUS
    <3>6. \A u \in Deliveries : claim'[u] # None =>
             /\ claim'[u] = [event |-> event[u], checkout |-> event[u][1]]
             /\ \A r \in processed : r.checkout # event[u][1]
             /\ \A v \in Deliveries : v # u /\ claim'[v] # None => claim'[v].checkout # event[u][1]
      BY <3>1, <3>2, <3>3, <3>4, <3>5
    <3>7. UNCHANGED <<stripeVars, event, processed, granted, user, crashes>>
      BY <1>7 DEF Insert
    <3>8. QED
      BY <2>2, <3>1, <3>6, <3>7
  <2>3. QED
    BY <1>7, <2>1, <2>2, Zenon DEF Insert
<1>8. ASSUME NEW w \in Deliveries, Grant(w)
      PROVE  PurchaseInv'
  <2> DEFINE c == event[w][1]
  <2>1. /\ at[w] = "grant" /\ event[w] \in Events /\ c \in Checkouts
        /\ claim[w] = [event |-> event[w], checkout |-> c]
        /\ \A r \in processed : r.checkout # c
        /\ claim' = [claim EXCEPT ![w] = None]
        /\ UNCHANGED <<stripeVars, event, user, crashes>>
    BY <1>8, EventCheckout DEF Grant
  <2>2. payment[c] = "paid" /\ granted[c] = 0
    BY <2>1
  <2>3. CASE user
    <3>1. /\ processed' = processed \union {[event |-> event[w], checkout |-> c]}
          /\ granted' = [granted EXCEPT ![c] = 1]
          /\ at' = [at EXCEPT ![w] = "respond"]
      <4>1. granted' = [granted EXCEPT ![claim[w].checkout] = @ + 1]
        BY <1>8, <2>3 DEF Grant
      <4>2. claim[w].checkout = c
        BY <2>1
      <4>3. granted' = [granted EXCEPT ![c] = granted[c] + 1]
        BY <4>1, <4>2
      <4>4. QED
        BY <1>8, <2>1, <2>2, <2>3, <4>3 DEF Grant
    <3> HIDE DEF c
    <3>2. \A v \in Deliveries \ {w} : claim[v] # None => event[v][1] # c /\ claim[v].checkout # c
      BY <2>1 DEF c
    <3>3. \A v \in Deliveries : claim'[v] # None =>
             /\ claim'[v] = [event |-> event'[v], checkout |-> event'[v][1]]
             /\ \A r \in processed' : r.checkout # event'[v][1]
             /\ \A u \in Deliveries : u # v /\ claim'[u] # None => claim'[u].checkout # event'[v][1]
      BY <2>1, <3>1, <3>2
    <3>4. \A d \in Checkouts : /\ granted'[d] \in {0, 1}
                               /\ granted'[d] = 1 => \E r \in processed' : r.checkout = d
                               /\ granted'[d] > 0 => payment'[d] = "paid"
      BY <2>1, <2>2, <3>1
    <3>5. RecordedWasGranted'
      <4>1. \A r \in processed : r.checkout # None => r.checkout \in Checkouts /\ r.checkout # c
        BY <2>1 DEF Records
      <4>2. \A r \in processed : r.checkout # None => granted'[r.checkout] = granted[r.checkout]
        BY <3>1, <4>1
      <4>3. granted'[c] = 1
        BY <2>1, <3>1
      <4>4. QED
        BY <3>1, <4>2, <4>3
    <3>6. QED
      BY <2>1, <3>1, <3>3, <3>4, <3>5
  <2>4. CASE ~ user
    <3>1. UNCHANGED <<processed, granted>> /\ at' = [at EXCEPT ![w] = "fail"]
      BY <1>8, <2>4 DEF Grant
    <3>2. QED
      BY <2>1, <3>1
  <2>5. QED
    BY <2>3, <2>4
<1>9. ASSUME NEW w \in Deliveries, Respond(w) \/ Fail(w)
      PROVE  PurchaseInv'
  BY <1>9 DEF Respond, Fail
<1>10. ASSUME NEW w \in Deliveries, Crash(w)
       PROVE  PurchaseInv'
  BY <1>10 DEF Crash
<1>11. CASE DeleteUser \/ UNCHANGED webhookVars
  BY <1>11 DEF DeleteUser, webhookVars
<1> HIDE DEF WebhookTypeOK, PurchaseInv, RecordedWasGranted, GrantedWasPaid, stripeVars, workVars, Proceed, Idle
<1>12. QED
  BY <1>1, <1>2, <1>3, <1>4, <1>5, <1>6, <1>7, <1>8, <1>9, <1>10, <1>11, <1>13, Zenon
  DEF WebhookNext, Handle

\* The invariant of every reachable state.
LEMMA PurchaseInvariant == Safety => [](WebhookTypeOK /\ PurchaseInv)
BY Initial, TypeStep, PurchaseStep, PTL DEF Safety

\* Every reachable state is well typed.
THEOREM WebhookTypeCorrect == Safety => []WebhookTypeOK
BY PurchaseInvariant, PTL

\* However many deliveries of however many events race, one checkout buys its
\* credits once (ProcessedStripeEvent's unique keys).
THEOREM GrantedOnceHolds == Safety => []GrantedOnce
<1>1. PurchaseInv => GrantedOnce
  BY DEF PurchaseInv, GrantedOnce
<1>2. QED
  BY <1>1, PurchaseInvariant, PTL

\* Only paid checkouts buy credits.
THEOREM GrantedWasPaidHolds == Safety => []GrantedWasPaid
<1>1. PurchaseInv => GrantedWasPaid
  BY DEF PurchaseInv
<1>2. QED
  BY <1>1, PurchaseInvariant, PTL

\* No crash and no deletion leaves a recorded checkout without its credits.
THEOREM RecordedWasGrantedHolds == Safety => []RecordedWasGranted
<1>1. PurchaseInv => RecordedWasGranted
  BY DEF PurchaseInv
<1>2. QED
  BY <1>1, PurchaseInvariant, PTL
=============================================================================
