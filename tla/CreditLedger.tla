---------------------------- MODULE CreditLedger ----------------------------
(***************************************************************************)
(* The credit ledger of one account (networkly_web/billing/credits.py).    *)
(*                                                                         *)
(* Web requests and cron jobs ("workers") read and append to one account's *)
(* CreditLedger rows at the same time.  Every read-then-write path takes   *)
(* the account's user row FOR UPDATE, so a locked transaction is one       *)
(* atomic action here; everything the code computes BEFORE the lock (the   *)
(* plan held by the in-memory user, the local date, an unlocked exists()   *)
(* or balance read) is a step of its own, kept in the worker's `task`.     *)
(*                                                                         *)
(* The append-only rows are kept as what the code's queries return: their  *)
(* sum, today's net spend, and per month the plan of the grant row, the    *)
(* credits handed out by grant and upgrade rows, and whether an upgrade    *)
(* row exists.                                                             *)
(***************************************************************************)
EXTENDS Integers, FiniteSets

CONSTANTS
    Workers,        \* concurrent requests and jobs of this account
    Ops,            \* what the workers may run, a subset of AllOps
    MonthlyGrant,   \* credits per month, by plan
    MessageCost,    \* credits of one chat turn, by plan
    DailyBurst,     \* net spend per day past which can_spend refuses, by plan
    BriefCost,      \* credits of one coffee-chat brief
    PackCredits,    \* credits of a purchased pack
    UnitsPerCredit, \* threads / rows covered by one credit, by batch op
    MaxUnits,       \* bound: work a batch job has queued
    DaysPerMonth,   \* length of a month
    MaxDay,         \* bound: last day of the calendar
    MaxPurchases,   \* bound: packs bought
    MaxFlips        \* bound: changes of the account's plan

Plans   == {"free", "pro"}
Batches == {"rescan", "autopilot"}
AllOps  == {"view", "chat", "brief"} \union Batches

Larger(a, b)  == IF a >= b THEN a ELSE b
Smaller(a, b) == IF a <= b THEN a ELSE b

MaxGrant == Larger(MonthlyGrant["free"], MonthlyGrant["pro"])
MaxCost  == Larger(MessageCost["free"], MessageCost["pro"])
MaxBurst == Larger(DailyBurst["free"], DailyBurst["pro"])

\* A brief never costs more than the dearest chat turn (ai_brief.BRIEF_COST
\* is 1), some plan's turn costs something, and some plan lets its user spend
\* (a zero burst blocks everything).
ASSUME ConfigAssumption ==
    /\ Ops \subseteq AllOps
    /\ MonthlyGrant \in [Plans -> Nat]
    /\ MessageCost \in [Plans -> Nat]
    /\ DailyBurst \in [Plans -> Nat]
    /\ MonthlyGrant["free"] <= MonthlyGrant["pro"]
    /\ BriefCost \in Nat
    /\ BriefCost <= MaxCost
    /\ MaxCost >= 1
    /\ MaxBurst >= 1
    /\ PackCredits \in Nat
    /\ UnitsPerCredit \in [Batches -> Nat \ {0}]
    /\ MaxUnits \in Nat \ {0}
    /\ DaysPerMonth \in Nat \ {0}
    /\ MaxDay \in Nat
    /\ MaxPurchases \in Nat
    /\ MaxFlips \in Nat
ASSUME WorkersAssumption == IsFiniteSet(Workers) /\ Workers # {}

Days    == 0 .. MaxDay
Period(d) == d \div DaysPerMonth
Periods == 0 .. MaxDay      \* at least as many as the days span months
NoPlan  == "none"           \* no grant row, or a task without a baseline

VARIABLES
    book,       \* the ledger rows, as the queries see them
    plan,       \* the users.plan column
    day,        \* today, in the user's time zone
    task,       \* what each worker holds in memory
    pc,         \* where each worker is
    purchases,  \* packs bought so far
    flips       \* plan changes so far

vars == <<book, plan, day, task, pc, purchases, flips>>

TaskOf(op, p) == [op |-> op, plan |-> p, period |-> 0, from |-> NoPlan,
                  seen |-> 0, units |-> 0, credits |-> 0]
NoTask == TaskOf("none", "free")

-----------------------------------------------------------------------------
(* What one transaction under the user row lock does to the ledger.        *)

\* Mutant of GrantDelta: no rollover clamp.
GrantDeltaNoRollover(p, bal) == MonthlyGrant[p]

GrantDelta(p, bal) ==
    Larger(0, Smaller(MonthlyGrant[p], 2 * MonthlyGrant[p] - bal))

\* Mutant of EnsureGrant: neither the re-check nor the constraint.
EnsureGrantUnchecked(b, m, p) ==
    LET delta == GrantDelta(p, b.raw)
    IN  [b EXCEPT !.raw = @ + delta, !.granted[m] = p, !.handed[m] = @ + delta]

\* ensure_monthly_grant, from the re-check inside the lock on.  The partial
\* unique constraint on (user, period, kind) is the same test again.
EnsureGrant(b, m, p) ==
    IF b.granted[m] # NoPlan THEN b
    ELSE LET delta == GrantDelta(p, b.raw)
         IN  [raw        |-> b.raw + delta,
              spentToday |-> b.spentToday,
              granted    |-> [b.granted EXCEPT ![m] = p],
              handed     |-> [b.handed EXCEPT ![m] = @ + delta],
              upgraded   |-> b.upgraded]

UpgradeDelta(old, new, bal) ==
    Larger(0, Smaller(MonthlyGrant[new] - MonthlyGrant[old],
                      2 * MonthlyGrant[new] - bal))

\* reconcile_plan_grant, from the re-check inside the lock on: no row is
\* written for a top-up of nothing, so a later call may still write one.
TopUp(b, m, old, new) ==
    LET delta == UpgradeDelta(old, new, b.raw)
    IN  IF b.upgraded[m] \/ delta = 0 THEN b
        ELSE [raw        |-> b.raw + delta,
              spentToday |-> b.spentToday,
              granted    |-> b.granted,
              handed     |-> [b.handed EXCEPT ![m] = @ + delta],
              upgraded   |-> [b.upgraded EXCEPT ![m] = TRUE]]

Outranks(new, old) == new = "pro" /\ old = "free"

\* reconcile_plan_grant when its caller already holds the row lock.
Reconcile(b, m, p) ==
    IF Outranks(p, b.granted[m]) THEN TopUp(b, m, b.granted[m], p) ELSE b

Debit(b, cost) ==
    [raw |-> b.raw - cost, spentToday |-> b.spentToday + cost,
     granted |-> b.granted, handed |-> b.handed, upgraded |-> b.upgraded]
Refund(b, cost) == Debit(b, - cost)

\* Mutants of MaySpend: one of the two conditions forgotten.
MaySpendOverdrawn(b, p) == b.spentToday < DailyBurst[p]
MaySpendUnlimited(b, p) == b.raw > 0

\* can_spend, after its two ensure/reconcile calls.
MaySpend(b, p) == b.raw > 0 /\ b.spentToday < DailyBurst[p]

\* The min() of _spend_clamped.
Charge(b, p, cost) ==
    Smaller(cost, Smaller(Larger(0, b.raw),
                          Larger(0, DailyBurst[p] - b.spentToday)))

CeilDiv(n, k) == (n + k - 1) \div k

-----------------------------------------------------------------------------
Init ==
    /\ book = [raw |-> 0, spentToday |-> 0,
               granted  |-> [m \in Periods |-> NoPlan],
               handed   |-> [m \in Periods |-> 0],
               upgraded |-> [m \in Periods |-> FALSE]]
    /\ plan = "free"
    /\ day = 0
    /\ task = [w \in Workers |-> NoTask]
    /\ pc = [w \in Workers |-> "idle"]
    /\ purchases = 0
    /\ flips = 0

Goto(w, label) == pc' = [pc EXCEPT ![w] = label]
Finish(w) == Goto(w, "idle") /\ task' = [task EXCEPT ![w] = NoTask]
World == <<plan, day, purchases, flips>>

\* A request or job loads its user: `plan` is a snapshot from here on.  A
\* chat turn goes straight to TurnCharge.reserve; the others start with
\* ensure_monthly_grant.
Start(w) ==
    /\ pc[w] = "idle"
    /\ \E op \in Ops :
         /\ task' = [task EXCEPT ![w] = TaskOf(op, plan)]
         /\ Goto(w, IF op = "chat" THEN "reserve" ELSE "check_grant")
    /\ UNCHANGED <<book, World>>

\* Where a call of ensure_monthly_grant returns to: _spend_clamped makes one
\* after the work is done, the read paths one before reconcile_plan_grant.
AfterGrant(w) == IF task[w].credits > 0 THEN "debit" ELSE "check_plan"

\* ensure_monthly_grant before the lock: today's month, unlocked exists().
CheckGrant(w) ==
    /\ pc[w] = "check_grant"
    /\ task' = [task EXCEPT ![w].period = Period(day)]
    /\ Goto(w, IF book.granted[Period(day)] = NoPlan THEN "write_grant"
               ELSE AfterGrant(w))
    /\ UNCHANGED <<book, World>>

\* ensure_monthly_grant under the lock, for the month computed before it.
WriteGrant(w) ==
    /\ pc[w] = "write_grant"
    /\ book' = EnsureGrant(book, task[w].period, task[w].plan)
    /\ Goto(w, AfterGrant(w))
    /\ UNCHANGED <<task, World>>

\* reconcile_plan_grant before the lock: today's month, its grant row's plan
\* against the snapshot's.
CheckPlan(w) ==
    /\ pc[w] = "check_plan"
    /\ LET from == book.granted[Period(day)] IN
         /\ task' = [task EXCEPT ![w].period = Period(day), ![w].from = from]
         /\ Goto(w, IF Outranks(task[w].plan, from) THEN "write_upgrade"
                    ELSE "read_balance")
    /\ UNCHANGED <<book, World>>

\* reconcile_plan_grant under the lock, for the month and plans read before.
WriteUpgrade(w) ==
    /\ pc[w] = "write_upgrade"
    /\ book' = TopUp(book, task[w].period, task[w].from, task[w].plan)
    /\ Goto(w, "read_balance")
    /\ UNCHANGED <<task, World>>

\* _raw_balance, unlocked.  balance() is done; can_spend stops a brief at a
\* balance of zero or less; the two affordable_* clamps floor it at zero.
ReadBalance(w) ==
    /\ pc[w] = "read_balance"
    /\ \/ task[w].op = "view" /\ Finish(w)
       \/ task[w].op = "brief" /\ book.raw <= 0 /\ Finish(w)
       \/ /\ task[w].op = "brief" /\ book.raw > 0
          /\ Goto(w, "read_burst")
          /\ UNCHANGED task
       \/ /\ task[w].op \in Batches
          /\ task' = [task EXCEPT ![w].seen = Larger(0, book.raw)]
          /\ Goto(w, "read_burst")
    /\ UNCHANGED <<book, World>>

\* daily_spent, unlocked: a brief may start its model call; a batch learns
\* how many of its queued threads or rows it may work on.
ReadBurst(w) ==
    /\ pc[w] = "read_burst"
    /\ \/ /\ task[w].op = "brief"
          /\ IF book.spentToday < DailyBurst[task[w].plan]
             THEN Goto(w, "model") /\ UNCHANGED task
             ELSE Finish(w)
       \/ /\ task[w].op \in Batches
          /\ \E candidates \in 1 .. MaxUnits :
               LET left  == Larger(0, DailyBurst[task[w].plan] - book.spentToday)
                   units == Smaller(candidates,
                                    Smaller(task[w].seen, left)
                                      * UnitsPerCredit[task[w].op])
               IN  IF units = 0 THEN Finish(w)
                   ELSE /\ task' = [task EXCEPT ![w].units = units]
                        /\ Goto(w, "work")
    /\ UNCHANGED <<book, World>>

\* contact_ai_brief after the model call: nothing is charged for a failed
\* call; spend() charges BRIEF_COST without looking at the balance again.
Brief(w) ==
    /\ pc[w] = "model"
    /\ Finish(w)
    /\ book' \in {book, Debit(book, BriefCost)}
    /\ UNCHANGED World

\* spend_rescan / spend_autopilot: the units the model really handled, in
\* credits rounded up; nothing handled writes nothing.
Work(w) ==
    /\ pc[w] = "work"
    /\ \E done \in 0 .. task[w].units :
         IF done = 0 THEN Finish(w)
         ELSE /\ task' = [task EXCEPT
                    ![w].credits = CeilDiv(done, UnitsPerCredit[task[w].op])]
              /\ Goto(w, "check_grant")
    /\ UNCHANGED <<book, World>>

\* _spend_clamped under the lock: clamp again, charge what is left.
ClampedDebit(w) ==
    /\ pc[w] = "debit"
    /\ book' = Debit(book, Charge(book, task[w].plan, task[w].credits))
    /\ Finish(w)
    /\ UNCHANGED World

\* TurnCharge.reserve: ensure, reconcile, can_spend and spend under one lock.
\* A refused turn keeps the grant and upgrade rows it wrote on the way.
Reserve(w) ==
    /\ pc[w] = "reserve"
    /\ LET p == task[w].plan
           m == Period(day)
           b == Reconcile(EnsureGrant(book, m, p), m, p)
       IN  IF MaySpend(b, p)
           THEN /\ book' = Debit(b, MessageCost[p])
                /\ Goto(w, "turn")
                /\ UNCHANGED task
           ELSE /\ book' = b
                /\ Finish(w)
    /\ UNCHANGED World

\* The turn ends: an answer keeps the charge, anything else refunds it (by
\* the turn or, after a kill, by the recovery job), dated the day it lands.
EndTurn(w) ==
    /\ pc[w] = "turn"
    /\ book' \in {book, Refund(book, MessageCost[task[w].plan])}
    /\ Finish(w)
    /\ UNCHANGED World

\* grant_purchase, from the payment webhook: takes no user row lock.
Purchase ==
    /\ purchases < MaxPurchases
    /\ purchases' = purchases + 1
    /\ book' = [book EXCEPT !.raw = @ + PackCredits]
    /\ UNCHANGED <<plan, day, task, pc, flips>>

\* users.plan changes: a trial starts or expires, or an admin sets it.
FlipPlan ==
    /\ flips < MaxFlips
    /\ flips' = flips + 1
    /\ plan' \in Plans \ {plan}
    /\ UNCHANGED <<book, day, task, pc, purchases>>

\* Local midnight: daily_spent counts a new window.
Midnight ==
    /\ day < MaxDay
    /\ day' = day + 1
    /\ book' = [book EXCEPT !.spentToday = 0]
    /\ UNCHANGED <<plan, task, pc, purchases, flips>>

Step(w) ==
    \/ Start(w) \/ CheckGrant(w) \/ WriteGrant(w) \/ CheckPlan(w)
    \/ WriteUpgrade(w) \/ ReadBalance(w) \/ ReadBurst(w) \/ Brief(w)
    \/ Work(w) \/ ClampedDebit(w) \/ Reserve(w) \/ EndTurn(w)

Next == Purchase \/ FlipPlan \/ Midnight \/ \E w \in Workers : Step(w)

Spec == Init /\ [][Next]_vars

-----------------------------------------------------------------------------
(* Type invariant, safety properties and their inductive strengthening.    *)

Labels == {"idle", "check_grant", "write_grant", "check_plan", "write_upgrade",
           "read_balance", "read_burst", "model", "work", "debit", "reserve",
           "turn"}

Books == [raw : Int, spentToday : Int,
          granted  : [Periods -> Plans \union {NoPlan}],
          handed   : [Periods -> Nat],
          upgraded : [Periods -> BOOLEAN]]

Tasks == [op : AllOps \union {"none"}, plan : Plans, period : Periods,
          from : Plans \union {NoPlan}, seen : Nat, units : Nat, credits : Nat]

\* Every variable stays in its domain.
TypeOK ==
    /\ book \in Books
    /\ plan \in Plans
    /\ day \in Days
    /\ task \in [Workers -> Tasks]
    /\ pc \in [Workers -> Labels]
    /\ purchases \in Nat
    /\ flips \in Nat

\* Briefs let through can_spend and not yet charged.
BriefsInFlight ==
    {w \in Workers : task[w].op = "brief" /\ pc[w] \in {"read_burst", "model"}}

\* How far below zero all workers together can push the balance: the chat
\* turn that may overdraw by its full cost, and one brief of every other
\* worker, because can_spend is checked without the lock and spend() charges
\* unclamped after the model call.
OverdrawBounded ==
    book.raw >= 1 - MaxCost - BriefCost * (Cardinality(Workers) - 1)

\* The daily backstop: today's net spend stops within one chat turn, and the
\* other workers' briefs, of the largest daily burst -- whatever was gated
\* before midnight, whichever plan a stale request holds.
BurstBounded ==
    book.spentToday
      <= MaxBurst - 1 + MaxCost + BriefCost * (Cardinality(Workers) - 1)

\* A month's grant and upgrade rows together never hand out more than the
\* best plan's monthly grant, however plans flip and requests race.
MonthlyHandout == \A m \in Periods : book.handed[m] <= MaxGrant

\* Rollover: grants and upgrades never compound the balance past two months
\* of the best plan; only purchases, and refunds of turns that were charged
\* before a grant filled the balance up, lie above it.
RolloverCapped ==
    book.raw <= 2 * MaxGrant + PackCredits * purchases
                  + MaxCost * Cardinality(Workers)

\* The strengthening that makes MonthlyHandout inductive: an upgrade row is
\* only ever written on top of a grant row for the lower plan, and until it
\* is, the month has handed out no more than that plan's grant.
HandoutShare(b, m) ==
    /\ b.granted[m] = NoPlan => b.handed[m] = 0 /\ ~ b.upgraded[m]
    /\ b.granted[m] # NoPlan /\ ~ b.upgraded[m] =>
         b.handed[m] <= MonthlyGrant[b.granted[m]]
    /\ b.handed[m] <= MaxGrant

UpgradeBaseline ==
    \A w \in Workers : pc[w] = "write_upgrade" =>
        /\ task[w].plan = "pro"
        /\ task[w].from = "free"
        /\ book.granted[task[w].period] = "free"

\* Only a batch job is ever at work, only a brief in its model call.
OpMatches ==
    \A w \in Workers :
        /\ pc[w] = "work" => task[w].op \in Batches
        /\ pc[w] = "model" => task[w].op = "brief"

HandoutInv ==
    /\ TypeOK
    /\ OpMatches
    /\ UpgradeBaseline
    /\ \A m \in Periods : HandoutShare(book, m)

\* The strengthenings of OverdrawBounded and BurstBounded: a brief that is in
\* flight has not used up its share of the bound yet.
Slack(n) == BriefCost * (Cardinality(Workers) - 1 - n)

BriefsGated == {w \in Workers : pc[w] = "model"}

OverdrawInv == book.raw >= 1 - MaxCost - Slack(Cardinality(BriefsInFlight))

BurstInv ==
    book.spentToday <= MaxBurst - 1 + MaxCost + Slack(Cardinality(BriefsGated))

\* The strengthening of RolloverCapped: a turn in flight may bring back what it
\* was charged, and a grant that fills the balance up does not know of it.
TurnsOf(p) == {w \in Workers : pc[w] = "turn" /\ task[w].plan = p}

Held == MessageCost["free"] * Cardinality(TurnsOf("free"))
          + MessageCost["pro"] * Cardinality(TurnsOf("pro"))

RolloverInv ==
    book.raw + Held <= 2 * MaxGrant + PackCredits * purchases
                         + MaxCost * Cardinality(Workers)

\* What _spend_clamped's docstring says of the balance: it "only ever goes as
\* negative as one deliberate overdraw" (the chat turn's full cost).
OneDeliberateOverdraw == book.raw >= 1 - MaxCost
=============================================================================
