----------------------- MODULE ContactPipeline_proofs -----------------------
(* Theorems about ContactPipeline, for any number of calls, any clock and    *)
(* any set of overrides: the writers keep ContactLog's promise, and from it  *)
(* alone the newest touch wins, and the ledger read again gives the row.                                               *)
EXTENDS ReplayStates, FiniteSetTheorems, WellFoundedInduction, TLAPS

-----------------------------------------------------------------------------
(* The operators of ContactLog.                                              *)

\* What may be recorded is an event; one that moves a touch says both fields.
LEMMA RecordableShape ==
    \A e \in Recordable :
        /\ e.ts \in Times
        /\ e.warmth \in Warmths \union {None}
        /\ e.state \in ThreadStates \union {None}
        /\ e.kind # "manual_override" /\ Orders(e) => e.warmth \in Warmths /\ e.state \in ThreadStates
        /\ e.kind # "manual_override" /\ ~ Orders(e) => e.warmth = None /\ e.state = None
<1> SUFFICES ASSUME NEW e \in Recordable
             PROVE  /\ e.ts \in Times
                    /\ e.warmth \in Warmths \union {None}
                    /\ e.state \in ThreadStates \union {None}
                    /\ e.kind # "manual_override" /\ Orders(e) => e.warmth \in Warmths /\ e.state \in ThreadStates
                    /\ e.kind # "manual_override" /\ ~ Orders(e) => e.warmth = None /\ e.state = None
  OBVIOUS
<1>1. CASE \E k \in TouchKinds, t \in Times : e = Touch(k, t)
  BY <1>1 DEF Touch, TouchKinds, NewWarmth, NewState, Orders, Warmths, ThreadStates
<1>2. CASE \E o \in Overrides, t \in Times : e = Override(o, t)
  BY <1>2, LogAssumption DEF Override, ThreadStates, Orders
<1>3. QED
  BY <1>1, <1>2 DEF Recordable

\* Both updates keep a contact's row a row.
LEMMA RatchetRow == \A r \in Rows, e \in Recordable : Ratchet(r, e) \in Rows
BY RecordableShape, LogAssumption DEF Ratchet, Rows

\* As RatchetRow, for the override.
LEMMA OverwriteRow == \A r \in Rows, e \in Recordable : Overwrite(r, e) \in Rows
BY RecordableShape, LogAssumption DEF Overwrite, Rows

\* A kind that moves nothing leaves the row as it was.
LEMMA RatchetNothing ==
    \A r \in Rows, e \in Recordable :
        e.kind # "manual_override" /\ ~ Orders(e) => Ratchet(r, e) = r
BY RecordableShape, LogAssumption DEF Ratchet, Rows

\* Ranks are numbers.
LEMMA RankNat == \A w \in Warmths : WARMTH_RANK[w] \in Nat
BY DEF Warmths, WARMTH_RANK

\* The contact agrees with the event that moved it last.
LEMMA RatchetAgrees ==
    \A r \in Rows, e \in Recordable :
        e.kind # "manual_override" /\ Orders(e) => Agrees(Ratchet(r, e), e)
<1> SUFFICES ASSUME NEW r \in Rows, NEW e \in Recordable, e.kind # "manual_override", Orders(e)
             PROVE  Agrees(Ratchet(r, e), e)
  OBVIOUS
<1>1. e.warmth \in Warmths /\ e.state \in ThreadStates /\ e.warmth # None /\ e.state # None
  BY RecordableShape, LogAssumption
<1>2. WARMTH_RANK[e.warmth] \in Nat /\ WARMTH_RANK[r.warmth] \in Nat
  BY <1>1, RankNat DEF Rows
<1>3. WARMTH_RANK[Ratchet(r, e).warmth] >= WARMTH_RANK[e.warmth]
  BY <1>1, <1>2 DEF Ratchet
<1>4. Ratchet(r, e).state \in {e.state, "advocate"}
  BY <1>1 DEF Ratchet
<1>5. QED
  BY <1>3, <1>4 DEF Agrees

\* As RatchetAgrees, for the override.
LEMMA OverwriteAgrees ==
    \A r \in Rows, e \in Recordable : e.kind = "manual_override" => Agrees(Overwrite(r, e), e)
BY DEF Overwrite, Agrees

-----------------------------------------------------------------------------
(* What ContactLog promises, of its own steps.                               *)

\* The log's types.
LogTypeOK == row \in Rows /\ touches \in Seq(Recordable)

\* The types hold at the start ...
LEMMA LogTypeInit == LogInit => LogTypeOK
<1> SUFFICES ASSUME LogInit PROVE LogTypeOK
  OBVIOUS
<1>1. row \in Rows
  BY DEF LogInit, Rows, Warmths, ThreadStates
<1>2. CASE touches = <<>>
  BY <1>1, <1>2 DEF LogTypeOK
<1>3. CASE \E t \in Times : touches = <<Touch("chat", t)>>
  <2>1. PICK t \in Times : touches = <<Touch("chat", t)>>
    BY <1>3
  <2>2. Touch("chat", t) \in Recordable
    BY DEF Recordable, TouchKinds
  <2>3. QED
    BY <1>1, <2>1, <2>2 DEF LogTypeOK
<1>4. QED
  BY <1>2, <1>3 DEF LogInit

\* ... and after every record.
LEMMA LogTypeStep == LogTypeOK /\ [LogNext]_logVars => LogTypeOK'
<1> SUFFICES ASSUME LogTypeOK, [LogNext]_logVars PROVE LogTypeOK'
  OBVIOUS
<1>1. ASSUME NEW e \in Recordable, Record(e) PROVE LogTypeOK'
  <2>1. touches' \in Seq(Recordable)
    BY <1>1 DEF Record, LogTypeOK
  <2>2. row' \in Rows
    BY <1>1, RatchetRow, OverwriteRow DEF Record, After, LogTypeOK
  <2>3. QED
    BY <2>1, <2>2 DEF LogTypeOK
<1>2. CASE UNCHANGED logVars
  BY <1>2 DEF logVars, LogTypeOK
<1>3. QED
  BY <1>1, <1>2 DEF LogNext

\* A contact's first state agrees with its only touch.
LEMMA NewestInit == LogInit => NewestTouchWins
<1> SUFFICES ASSUME LogInit PROVE NewestTouchWins
  OBVIOUS
<1>1. CASE touches = <<>>
  BY <1>1 DEF NewestTouchWins
<1>2. CASE \E t \in Times : touches = <<Touch("chat", t)>>
  <2>1. row = [warmth |-> "chatted", state |-> "chat_done"]
    BY <1>2 DEF LogInit
  <2>2. PICK t \in Times : touches = <<Touch("chat", t)>>
    BY <1>2
  <2>3. Len(touches) = 1 /\ touches[1] = Touch("chat", t)
    BY <2>2
  <2>4. touches[1].kind = "chat" /\ touches[1].warmth = "chatted" /\ touches[1].state = "chat_done"
    BY <2>3 DEF Touch, NewWarmth, NewState
  <2>5. WARMTH_RANK["chatted"] >= WARMTH_RANK["chatted"]
    BY RankNat DEF Warmths
  <2>6. Agrees(row, touches[1])
    BY <2>1, <2>4, <2>5 DEF Agrees
  <2>7. \A i \in 1..Len(touches) : i = 1
    BY <2>3
  <2>8. QED
    BY <2>6, <2>7 DEF NewestTouchWins
<1>3. QED
  BY <1>1, <1>2 DEF LogInit

\* One record keeps the newest event's word: an older touch moves nothing, a
\* newer one moves the row to what it says.
LEMMA NewestStep == LogTypeOK /\ NewestTouchWins /\ [LogNext]_logVars => NewestTouchWins'
<1> SUFFICES ASSUME LogTypeOK, NewestTouchWins, [LogNext]_logVars PROVE NewestTouchWins'
  OBVIOUS
<1>1. ASSUME NEW e \in Recordable, Record(e) PROVE NewestTouchWins'
  <2> DEFINE n == Len(touches)
  <2>1. touches \in Seq(Recordable) /\ row \in Rows /\ n \in Nat
    BY DEF LogTypeOK
  <2>9. \A f \in Recordable : f.ts \in Nat
    BY RecordableShape, LogAssumption
  <2>8. e.ts \in Nat /\ \A j \in 1..n : touches[j].ts \in Nat
    <3>1. \A j \in 1..n : touches[j] \in Recordable
      BY <2>1
    <3>2. QED
      BY <2>9, <3>1
  <2>2. /\ Len(touches') = n + 1
        /\ \A i \in 1..n : touches'[i] = touches[i]
        /\ touches'[n + 1] = e
    BY <1>1, <2>1 DEF Record
  <2>3. row' = After(row, touches, e)
    BY <1>1 DEF Record
  <2> SUFFICES ASSUME NEW i \in 1..(n + 1), IsNewest(touches', i),
                      \A j \in (i + 1)..(n + 1) : touches'[j].kind # "manual_override"
               PROVE  Agrees(row', touches'[i])
    BY <2>2 DEF NewestTouchWins
  <2>4. CASE i = n + 1
    <3>1. Orders(e) /\ \A j \in 1..(n + 1) : Orders(touches'[j]) => touches'[j].ts <= e.ts
      BY <2>2, <2>4, <2>8 DEF IsNewest
    <3>2. \A j \in 1..n : Orders(touches[j]) => ~ (touches[j].ts > e.ts)
      BY <2>1, <2>2, <2>8, <3>1
    <3>3. ~ Stale(touches, e)
      BY <3>2 DEF Stale, Newer
    <3>4. QED
      BY <2>1, <2>2, <2>3, <2>4, <3>1, <3>3, RatchetAgrees, OverwriteAgrees DEF After
  <2>5. CASE i \in 1..n
    <3>1. e.kind # "manual_override"
      BY <2>1, <2>2, <2>5
    <3>2. IsNewest(touches, i)
      BY <2>1, <2>2, <2>5 DEF IsNewest
    <3>3. \A j \in (i + 1)..n : touches[j].kind # "manual_override"
      BY <2>1, <2>2, <2>5
    <3>4. Agrees(row, touches[i])
      BY <2>5, <3>2, <3>3 DEF NewestTouchWins
    <3>5. row' = row
      <4>1. CASE Orders(e)
        <5>1. touches[i].ts \in Nat /\ e.ts \in Nat
          BY <2>5, <2>8
        <5>2. e.ts < touches[i].ts /\ Orders(touches[i])
          BY <2>1, <2>2, <2>5, <4>1, <5>1 DEF IsNewest
        <5>3. Stale(touches, e)
          BY <2>5, <4>1, <5>1, <5>2 DEF Stale, Newer
        <5>4. QED
          BY <2>3, <3>1, <5>3 DEF After
      <4>2. CASE ~ Orders(e)
        BY <2>1, <2>3, <3>1, <4>2, RatchetNothing DEF After, Stale
      <4>3. QED
        BY <4>1, <4>2
    <3>6. QED
      BY <2>2, <2>5, <3>4, <3>5
  <2>6. QED
    BY <2>1, <2>4, <2>5
<1>2. CASE UNCHANGED logVars
  BY <1>2 DEF logVars, NewestTouchWins
<1>3. QED
  BY <1>1, <1>2 DEF LogNext

\* One record demotes only if it is an override.
Demotes ==
    \/ WARMTH_RANK[row'.warmth] < WARMTH_RANK[row.warmth]
    \/ row.state = "advocate" /\ row'.state # "advocate"

\* A touch never lowers warmth and never moves an advocate's thread.
LEMMA DemotionStep ==
    LogTypeOK /\ [LogNext]_logVars =>
        [ Demotes => /\ Len(touches') = Len(touches) + 1
                     /\ touches'[Len(touches')].kind = "manual_override" ]_logVars
<1> SUFFICES ASSUME LogTypeOK, NEW e \in Recordable, Record(e), Demotes
             PROVE  /\ Len(touches') = Len(touches) + 1
                    /\ touches'[Len(touches')].kind = "manual_override"
  BY DEF LogNext
<1>1. /\ Len(touches') = Len(touches) + 1
      /\ touches'[Len(touches')] = e
  BY DEF LogTypeOK, Record
<1>2. e.kind = "manual_override"
  <2> SUFFICES ASSUME e.kind # "manual_override" PROVE FALSE
    OBVIOUS
  <2>1. row' = row \/ row' = Ratchet(row, e)
    BY DEF Record, After
  <2>2. row \in Rows /\ row' \in Rows
    BY <2>1, RatchetRow DEF LogTypeOK
  <2>3. WARMTH_RANK[row.warmth] \in Nat /\ WARMTH_RANK[row'.warmth] \in Nat
    BY <2>2, RankNat DEF Rows
  <2>4. CASE row' = row
    BY <2>3, <2>4 DEF Demotes
  <2>5. CASE row' = Ratchet(row, e)
    <3>1. e.warmth # None => WARMTH_RANK[e.warmth] \in Nat
      BY RecordableShape, RankNat
    <3>2. WARMTH_RANK[row'.warmth] >= WARMTH_RANK[row.warmth]
      BY <2>3, <2>5, <3>1 DEF Ratchet
    <3>3. row.state = "advocate" => row'.state = "advocate"
      BY <2>5 DEF Ratchet
    <3>4. QED
      BY <2>3, <3>2, <3>3 DEF Demotes
  <2>6. QED
    BY <2>1, <2>4, <2>5
<1>3. QED
  BY <1>1, <1>2

-----------------------------------------------------------------------------
(* ContactPipeline implements ContactLog.                                    *)

\* The guard's answer, given under the lock, is still right at the commit.
GuardHolds ==
    \A c \in Calls : pc[c] = "write" => stale[c] = Stale(touches, job[c])

\* A call that overrides carries an override, any other one a touch.
JobKinds ==
    \A c \in Calls :
        /\ pc[c] \in {"lock", "check", "write"} => job[c].kind # "manual_override"
        /\ pc[c] \in {"update", "audit"} => job[c].kind = "manual_override"

\* The inductive invariant.
PipelineInv == TypeOK /\ GuardHolds /\ JobKinds

\* What a door asks for may be recorded.
LEMMA TouchRecordable ==
    \A k \in TouchKinds, t \in Times : Touch(k, t) \in Recordable /\ Touch(k, t).kind # "manual_override"
BY DEF Recordable, Touch, TouchKinds

\* As TouchRecordable, for an override.
LEMMA OverrideRecordable ==
    \A o \in Overrides, t \in Times : Override(o, t) \in Recordable /\ Override(o, t).kind = "manual_override"
BY DEF Recordable, Override

\* The invariant holds at the start.
LEMMA PipelineInit == Init => PipelineInv
<1> SUFFICES ASSUME Init PROVE PipelineInv
  OBVIOUS
<1>1. LogTypeOK
  BY LogTypeInit DEF Init
<1>2. Touch("outreach", 0) \in Recordable
  BY TouchRecordable, PipelineAssumption DEF TouchKinds
<1>3. TypeOK
  <2>1. row \in Rows /\ touches \in Seq(Recordable)
    BY <1>1 DEF LogTypeOK
  <2>2. clock \in 0..MaxTime
    BY PipelineAssumption DEF Init
  <2>3. \A c \in Calls : lock = c <=> pc[c] \in {"check", "write", "audit"}
    BY PipelineAssumption DEF Init
  <2>4. /\ lock \in Calls \union {None}
        /\ pc \in [Calls -> {"idle", "lock", "check", "write", "save", "update", "audit", "done"}]
        /\ job \in [Calls -> Recordable]
        /\ door \in [Calls -> Doors]
        /\ stale \in [Calls -> BOOLEAN]
        /\ promoted \in BOOLEAN
    BY <1>2 DEF Init, Doors
  <2>5. QED
    BY <2>1, <2>2, <2>3, <2>4 DEF TypeOK
<1>4. QED
  BY <1>3 DEF Init, PipelineInv, GuardHolds, JobKinds

\* Beginning a call keeps the invariant.
LEMMA BeginStep ==
    ASSUME PipelineInv, NEW c \in Calls, NEW d \in Doors, NEW e \in Recordable,
           NEW label \in {"lock", "update"}, Begin(c, d, e, label),
           e.kind = "manual_override" <=> label = "update"
    PROVE  PipelineInv'
<1> USE DEF PipelineInv, Begin, Goto
<1>1. TypeOK'
  BY DEF TypeOK, logVars
<1>2. GuardHolds'
  BY DEF GuardHolds, TypeOK, logVars
<1>3. JobKinds'
  BY DEF JobKinds, TypeOK
<1>4. QED
  BY <1>1, <1>2, <1>3

\* The step a transaction commits with records its event as ContactLog does.
LEMMA CommitStep ==
    ASSUME PipelineInv, NEW c \in Calls, WriteTouch(c) \/ WriteOverride(c)
    PROVE  Record(job[c])
<1>1. CASE WriteTouch(c)
  <2>1. job[c].kind # "manual_override" /\ stale[c] = Stale(touches, job[c])
    BY <1>1 DEF WriteTouch, PipelineInv, GuardHolds, JobKinds
  <2>2. QED
    BY <1>1, <2>1 DEF WriteTouch, Release, Record, After
<1>2. CASE WriteOverride(c)
  <2>1. job[c].kind = "manual_override"
    BY <1>2 DEF WriteOverride, PipelineInv, JobKinds
  <2>2. QED
    BY <1>2, <2>1 DEF WriteOverride, Release, Record, After
<1>3. QED
  BY <1>1, <1>2

\* A commit keeps the invariant: nobody else is between guard and commit.
LEMMA CommitInv ==
    ASSUME PipelineInv, NEW c \in Calls, WriteTouch(c) \/ WriteOverride(c)
    PROVE  PipelineInv'
<1> USE DEF PipelineInv
<1>1. Record(job[c])
  BY CommitStep
<1>2. job[c] \in Recordable
  BY DEF TypeOK
<1>3. LogTypeOK'
  BY <1>1, <1>2, LogTypeStep DEF LogNext, TypeOK, LogTypeOK
<1>4. lock = c
  BY DEF TypeOK, WriteTouch, WriteOverride
<1>5. \A b \in Calls \ {c} : pc[b] \notin {"check", "write", "audit"}
  BY <1>4 DEF TypeOK
<1>6. lock' = None
  BY <1>4 DEF WriteTouch, WriteOverride, Release
<1>7. \/ pc' = [pc EXCEPT ![c] = "done"]
      \/ pc' = [pc EXCEPT ![c] = "save"]
  BY Zenon DEF WriteTouch, WriteOverride, Goto
<1>8. promoted' \in BOOLEAN
  BY DEF TypeOK, WriteTouch, WriteOverride
<1>9. job' = job /\ door' = door /\ stale' = stale /\ clock' = clock
  BY DEF WriteTouch, WriteOverride
<1>10. TypeOK'
  BY <1>3, <1>5, <1>6, <1>7, <1>8, <1>9, PipelineAssumption DEF TypeOK, LogTypeOK
<1>11. \A b \in Calls : pc'[b] \in {"lock", "check", "write", "update", "audit"} => pc'[b] = pc[b]
  BY <1>7 DEF TypeOK
<1>12. \A b \in Calls : pc'[b] # "write"
  BY <1>5, <1>7 DEF TypeOK
<1>13. GuardHolds' /\ JobKinds'
  BY <1>9, <1>11, <1>12 DEF GuardHolds, JobKinds
<1>14. QED
  BY <1>10, <1>13

\* Every step keeps the invariant.
LEMMA PipelineStep == PipelineInv /\ [Next]_vars => PipelineInv'
<1> SUFFICES ASSUME PipelineInv, [Next]_vars PROVE PipelineInv'
  OBVIOUS
<1>1. CASE Tick
  <2>1. UNCHANGED <<row, touches, lock, pc, job, door, stale, promoted>>
    BY <1>1 DEF Tick, logVars, callVars
  <2>2. clock' \in 0..MaxTime
    BY <1>1, PipelineAssumption DEF Tick, PipelineInv, TypeOK
  <2>3. TypeOK'
    BY <2>1, <2>2 DEF PipelineInv, TypeOK
  <2>4. QED
    BY <2>1, <2>3 DEF PipelineInv, GuardHolds, JobKinds
<1>2. ASSUME NEW c \in Calls, LogTouch(c) PROVE PipelineInv'
  <2>1. PICK k \in TouchKinds, t \in 0..clock : Begin(c, "log", Touch(k, t), "lock")
    BY <1>2 DEF LogTouch
  <2>2. t \in Times
    BY PipelineAssumption DEF PipelineInv, TypeOK
  <2>3. QED
    BY <2>1, <2>2, BeginStep, TouchRecordable DEF Doors
<1>3. ASSUME NEW c \in Calls, SetContactState(c) PROVE PipelineInv'
  <2>1. PICK o \in Overrides : Begin(c, "override", Override(o, clock), "update")
    BY <1>3 DEF SetContactState
  <2>2. clock \in Times
    BY PipelineAssumption DEF PipelineInv, TypeOK
  <2>3. QED
    BY <2>1, <2>2, BeginStep, OverrideRecordable DEF Doors
<1>4. ASSUME NEW c \in Calls, Unpark(c) PROVE PipelineInv'
  <2>1. PICK o \in Overrides : Begin(c, "unpark", Override(o, clock), "update")
    BY <1>4 DEF Unpark
  <2>2. clock \in Times
    BY PipelineAssumption DEF PipelineInv, TypeOK
  <2>3. QED
    BY <2>1, <2>2, BeginStep, OverrideRecordable DEF Doors
<1>5. ASSUME NEW c \in Calls, Promote(c) PROVE PipelineInv'
  <2>1. Begin(c, "promote", Touch("referral", touches[1].ts), "lock")
    BY <1>5 DEF Promote
  <2>2. touches[1] \in Recordable
    BY <1>5 DEF Promote, PipelineInv, TypeOK
  <2>3. touches[1].ts \in Times
    BY <2>2, RecordableShape
  <2>4. "referral" \in TouchKinds
    BY DEF TouchKinds
  <2>5. QED
    BY <2>1, <2>3, <2>4, BeginStep, TouchRecordable DEF Doors
<1>6. ASSUME NEW c \in Calls, LockRow(c) PROVE PipelineInv'
  BY <1>6, PipelineAssumption
  DEF LockRow, Goto, PipelineInv, TypeOK, GuardHolds, JobKinds, logVars
<1>7. ASSUME NEW c \in Calls, CheckOrder(c) PROVE PipelineInv'
  <2>1. Stale(touches, job[c]) \in BOOLEAN
    BY DEF Stale
  <2>2. TypeOK'
    BY <1>7, <2>1 DEF CheckOrder, Goto, PipelineInv, TypeOK, logVars
  <2>3. GuardHolds'
    BY <1>7, <2>1 DEF CheckOrder, Goto, PipelineInv, TypeOK, GuardHolds, logVars
  <2>4. JobKinds'
    BY <1>7 DEF CheckOrder, Goto, PipelineInv, TypeOK, JobKinds
  <2>5. QED
    BY <2>2, <2>3, <2>4 DEF PipelineInv
<1>8. ASSUME NEW c \in Calls, WriteTouch(c) \/ WriteOverride(c) PROVE PipelineInv'
  BY <1>8, CommitInv
<1>9. ASSUME NEW c \in Calls, SavePromoted(c) PROVE PipelineInv'
  BY <1>9 DEF SavePromoted, Goto, PipelineInv, TypeOK, GuardHolds, JobKinds, logVars
<1>10. ASSUME NEW c \in Calls, UpdateRow(c) PROVE PipelineInv'
  BY <1>10, PipelineAssumption
  DEF UpdateRow, Goto, PipelineInv, TypeOK, GuardHolds, JobKinds, logVars
<1>11. ASSUME NEW c \in Calls, Fail(c) PROVE PipelineInv'
  BY <1>11, PipelineAssumption
  DEF Fail, Goto, PipelineInv, TypeOK, GuardHolds, JobKinds, logVars
<1>12. CASE UNCHANGED vars
  BY <1>12 DEF vars, PipelineInv, TypeOK, GuardHolds, JobKinds, logVars, callVars
<1>13. QED
  BY <1>1, <1>2, <1>3, <1>4, <1>5, <1>6, <1>7, <1>8, <1>9, <1>10, <1>11, <1>12 DEF Next

\* The invariant holds always.
LEMMA Invariant == Spec => []PipelineInv
BY PipelineInit, PipelineStep, PTL DEF Spec

\* Every reachable state is well typed, and exactly the holder of the
\* contact's row is between lock and commit.
THEOREM TypeCorrect == Spec => []TypeOK
<1>1. PipelineInv => TypeOK
  BY DEF PipelineInv
<1>2. QED
  BY <1>1, Invariant, PTL

\* Every step of the writers is a record of ContactLog, or changes nothing there.
LEMMA LogStep == PipelineInv /\ [Next]_vars => [LogNext]_logVars
<1> SUFFICES ASSUME PipelineInv, [Next]_vars PROVE [LogNext]_logVars
  OBVIOUS
<1>1. ASSUME NEW c \in Calls, WriteTouch(c) \/ WriteOverride(c) PROVE LogNext
  <2>1. job[c] \in Recordable
    BY DEF PipelineInv, TypeOK
  <2>2. QED
    BY <1>1, <2>1, CommitStep DEF LogNext
<1>2. ASSUME NEW c \in Calls,
             \/ LogTouch(c) \/ SetContactState(c) \/ Unpark(c) \/ Promote(c)
             \/ LockRow(c) \/ CheckOrder(c) \/ SavePromoted(c) \/ UpdateRow(c) \/ Fail(c)
      PROVE  UNCHANGED logVars
  BY <1>2 DEF LogTouch, SetContactState, Unpark, Promote, Begin, LockRow, CheckOrder,
              SavePromoted, UpdateRow, Fail
<1>3. ASSUME Tick \/ UNCHANGED vars PROVE UNCHANGED logVars
  BY <1>3 DEF Tick, vars
<1>4. QED
  BY <1>1, <1>2, <1>3 DEF Next

\* The writers implement the ledger that records one touch at a time: the
\* guard's answer is never out of date when the touch commits.
THEOREM Serializable == Spec => LogSpec
<1>1. Init => LogInit
  BY DEF Init
<1>2. QED
  BY <1>1, LogStep, Invariant, PTL DEF Spec, LogSpec

\* What ContactLog keeps by itself.
LEMMA LogInvariant == LogSpec => [](LogTypeOK /\ NewestTouchWins)
<1>1. LogInit => LogTypeOK /\ NewestTouchWins
  BY LogTypeInit, NewestInit
<1>2. LogTypeOK /\ NewestTouchWins /\ [LogNext]_logVars => (LogTypeOK /\ NewestTouchWins)'
  BY LogTypeStep, NewestStep
<1>3. QED
  BY <1>1, <1>2, PTL DEF LogSpec

\* A backdated touch never overturns a newer decision (pipeline.py, the
\* event-order guard).
THEOREM NewestTouchWinsHolds == Spec => []NewestTouchWins
BY Serializable, LogInvariant, PTL

\* Only an override takes warmth down or an advocate's thread away
\* (apply_touch's contract).
THEOREM OnlyOverrideDemotesHolds == Spec => OnlyOverrideDemotes
<1>1. LogSpec => OnlyOverrideDemotes
  <2>1. LogTypeOK /\ [LogNext]_logVars =>
          [ \/ WARMTH_RANK[row'.warmth] < WARMTH_RANK[row.warmth]
            \/ row.state = "advocate" /\ row'.state # "advocate"
            => /\ Len(touches') = Len(touches) + 1
               /\ touches'[Len(touches')].kind = "manual_override" ]_logVars
    BY DemotionStep DEF Demotes
  <2>2. QED
    BY <2>1, LogInvariant, PTL DEF LogSpec, OnlyOverrideDemotes
<1>2. QED
  BY <1>1, Serializable, PTL
-----------------------------------------------------------------------------
(* The replay.                                                               *)

\* A set of numbers that is not empty has a least one.
LEMMA LeastExists ==
    ASSUME NEW S, S \subseteq Nat, S # {}
    PROVE  \E n \in S : \A k \in S : n <= k
<1> DEFINE Less == OpToRel(<, Nat)
<1>1. \E n \in S : \A k \in S : ~ (<<k, n>> \in Less)
  <2> HIDE DEF Less
  <2>1. QED
    BY NatLessThanWellFounded, WFMin DEF Less
<1>2. \A k, n \in Nat : k < n => <<k, n>> \in Less
  BY DEF OpToRel
<1>3. QED
  <2> HIDE DEF Less
  <2>1. PICK n \in S : \A k \in S : ~ (<<k, n>> \in Less)
    BY <1>1
  <2>2. \A k \in S : ~ (k < n)
    BY <1>2, <2>1
  <2>3. QED
    BY <2>2

\* A contact nobody has written to.
Fresh == [warmth |-> "cold", state |-> "no_reply"]

\* What a list of the rows after each touch has to be.
Reads(f, read, n) ==
    f = [k \in 0..n |-> IF k = 0 THEN Fresh ELSE Apply(f[k - 1], read[k])]

\* There is such a list, of any length: were there a first length without, the
\* list one shorter could be extended.
LEMMA ReadsExists ==
    ASSUME NEW read, NEW n \in Nat
    PROVE  \E f : Reads(f, read, n)
<1> DEFINE bad == {m \in Nat : ~ \E f : Reads(f, read, m)}
<1>1. Reads([k \in 0..0 |-> Fresh], read, 0)
  <2>1. \A k \in 0..0 : k = 0
    OBVIOUS
  <2>2. QED
    BY <2>1 DEF Reads
<1>2. ASSUME NEW m \in Nat, NEW g, Reads(g, read, m)
      PROVE  \E f : Reads(f, read, m + 1)
  <2> DEFINE f == [k \in 0..(m + 1) |-> IF k <= m THEN g[k] ELSE Apply(g[m], read[k])]
             h == [k \in 0..(m + 1) |-> IF k = 0 THEN Fresh ELSE Apply(f[k - 1], read[k])]
  <2>1. \A k \in 0..m : g[k] = IF k = 0 THEN Fresh ELSE Apply(g[k - 1], read[k])
    BY <1>2 DEF Reads
  <2>2. ASSUME NEW k \in 0..(m + 1) PROVE f[k] = h[k]
    <3>1. CASE k = 0
      BY <2>1, <3>1
    <3>2. CASE k \in 1..m
      <4>1. k - 1 \in 0..(m + 1) /\ k - 1 <= m /\ k <= m /\ k # 0 /\ k \in 0..m
        BY <3>2
      <4>2. f[k] = g[k] /\ f[k - 1] = g[k - 1]
        BY <4>1
      <4>3. h[k] = Apply(f[k - 1], read[k])
        BY <4>1
      <4> HIDE DEF f, h
      <4>4. QED
        BY <2>1, <4>1, <4>2, <4>3
    <3>3. CASE k = m + 1
      <4>1. ~ (k <= m) /\ k # 0 /\ k - 1 = m /\ m \in 0..(m + 1) /\ m <= m
        BY <3>3
      <4>2. f[k] = Apply(g[m], read[k]) /\ f[m] = g[m]
        BY <4>1
      <4>3. h[k] = Apply(f[k - 1], read[k])
        BY <4>1
      <4> HIDE DEF f, h
      <4>4. QED
        BY <4>1, <4>2, <4>3
    <3>4. k = 0 \/ k \in 1..m \/ k = m + 1
      OBVIOUS
    <3>5. QED
      BY <3>1, <3>2, <3>3, <3>4
  <2>3. f = h
    BY <2>2
  <2>4. Reads(f, read, m + 1)
    BY <2>3 DEF Reads
  <2> HIDE DEF f
  <2>5. QED
    BY <2>4
<1>3. bad = {}
  <2> SUFFICES ASSUME bad # {} PROVE FALSE
    OBVIOUS
  <2>1. PICK m \in bad : \A l \in bad : m <= l
    <3>1. bad \subseteq Nat
      OBVIOUS
    <3> HIDE DEF bad
    <3>2. QED
      BY <3>1, LeastExists
  <2>2. m \in Nat /\ ~ \E f : Reads(f, read, m)
    BY <2>1
  <2>3. m # 0
    BY <1>1, <2>2
  <2>4. PICK l \in Nat : m = l + 1
    BY <2>2, <2>3, m - 1 \in Nat
  <2>5. l \notin bad
    BY <2>1, <2>4
  <2>6. \E f : Reads(f, read, l)
    BY <2>5
  <2>7. QED
    BY <1>2, <2>2, <2>4, <2>6
<1>4. QED
  BY <1>3

\* The same is read up to the n-th touch.
Alike(p, q, n) == \A k \in 1..n : p[k] = q[k]

\* Two lists that read the same agree as far as both go: were there a first
\* place where they do not, they would differ one place before.
LEMMA ReadsAgree ==
    ASSUME NEW p, NEW q, NEW m \in Nat, NEW n \in Nat, m <= n, Alike(p, q, m),
           NEW f, Reads(f, p, m), NEW g, Reads(g, q, n)
    PROVE  f[m] = g[m]
<1> DEFINE bad == {k \in 0..m : f[k] # g[k]}
<1>1. /\ \A k \in 0..m : f[k] = IF k = 0 THEN Fresh ELSE Apply(f[k - 1], p[k])
      /\ \A k \in 0..n : g[k] = IF k = 0 THEN Fresh ELSE Apply(g[k - 1], q[k])
  BY DEF Reads
<1>2. bad = {}
  <2> SUFFICES ASSUME bad # {} PROVE FALSE
    OBVIOUS
  <2>1. PICK k \in bad : \A l \in bad : k <= l
    <3>1. bad \subseteq Nat
      OBVIOUS
    <3> HIDE DEF bad
    <3>2. QED
      BY <3>1, LeastExists
  <2>2. k \in 0..m /\ k \in 0..n /\ f[k] # g[k]
    BY <2>1
  <2>3. k # 0
    BY <1>1, <2>2
  <2>4. k - 1 \in 0..m /\ k \in 1..m /\ ~ (k <= k - 1)
    BY <2>2, <2>3
  <2>5. f[k - 1] = g[k - 1]
    BY <2>1, <2>4
  <2>6. f[k] = Apply(f[k - 1], p[k]) /\ g[k] = Apply(g[k - 1], q[k])
    BY <1>1, <2>2, <2>3
  <2>7. p[k] = q[k]
    BY <2>4 DEF Alike
  <2>8. QED
    BY <2>2, <2>5, <2>6, <2>7
<1>3. m \in 0..m
  OBVIOUS
<1>4. QED
  BY <1>2, <1>3

\* Replayed is the last row of such a list.
LEMMA ReplayedReads ==
    ASSUME NEW read, NEW n \in Nat
    PROVE  \E f : Reads(f, read, n) /\ Replayed(read, n) = f[n]
<1> DEFINE after == CHOOSE f : Reads(f, read, n)
<1>1. Reads(after, read, n)
  <2>1. \E f : Reads(f, read, n)
    BY ReadsExists
  <2>2. QED
    BY <2>1
<1>2. Replayed(read, n) = after[n]
  BY DEF Replayed, Reads, Fresh
<1> HIDE DEF after
<1>3. QED
  BY <1>1, <1>2

\* Reading nothing leaves the contact as it was, and one touch more is applied
\* to what the others gave.
LEMMA ReplayedStep ==
    /\ \A read : Replayed(read, 0) = Fresh
    /\ \A p, q : \A n \in Nat :
          Alike(p, q, n) => Replayed(q, n + 1) = Apply(Replayed(p, n), q[n + 1])
<1>1. ASSUME NEW read PROVE Replayed(read, 0) = Fresh
  <2>1. PICK f : Reads(f, read, 0) /\ Replayed(read, 0) = f[0]
    BY ReplayedReads
  <2>2. \A k \in 0..0 : f[k] = IF k = 0 THEN Fresh ELSE Apply(f[k - 1], read[k])
    BY <2>1 DEF Reads
  <2>3. 0 \in 0..0
    OBVIOUS
  <2>4. QED
    BY <2>1, <2>2, <2>3
<1>2. ASSUME NEW p, NEW q, NEW n \in Nat, Alike(p, q, n)
      PROVE  Replayed(q, n + 1) = Apply(Replayed(p, n), q[n + 1])
  <2>1. PICK f : Reads(f, p, n) /\ Replayed(p, n) = f[n]
    BY ReplayedReads
  <2>2. PICK g : Reads(g, q, n + 1) /\ Replayed(q, n + 1) = g[n + 1]
    BY ReplayedReads, n + 1 \in Nat
  <2>3. f[n] = g[n]
    <3>1. PICK m \in Nat : m = n + 1 /\ n <= m
      OBVIOUS
    <3>2. Reads(g, q, m) /\ Reads(f, p, n)
      BY <2>1, <2>2, <3>1
    <3>3. QED
      BY <1>2, <3>1, <3>2, ReadsAgree
  <2>4. \A k \in 0..(n + 1) : g[k] = IF k = 0 THEN Fresh ELSE Apply(g[k - 1], q[k])
    BY <2>2 DEF Reads
  <2>5. n + 1 \in 0..(n + 1) /\ n + 1 # 0 /\ (n + 1) - 1 = n
    OBVIOUS
  <2>6. g[n + 1] = Apply(g[n], q[n + 1])
    BY <2>4, <2>5
  <2>7. QED
    BY <2>1, <2>2, <2>3, <2>6
<1>3. QED
  BY <1>1, <1>2

\* The touches were recorded in the order of their moments.
Ordered(log) == \A i, j \in 1..Len(log) : i < j => log[i].ts <= log[j].ts

\* Moments are numbers.
LEMMA RecordableTime == \A e \in Recordable : e.ts \in Nat
BY RecordableShape, LogAssumption

\* A ledger in order is read as it stands.
LEMMA InOrderIsLog ==
    ASSUME NEW log \in Seq(Recordable), Ordered(log), NEW k \in 1..Len(log)
    PROVE  InOrder(log)[k] = log[k]
<1> DEFINE n == Len(log)
<1>1. n \in Nat /\ \A i \in 1..n : log[i].ts \in Nat
  <2>1. \A i \in 1..n : log[i] \in Recordable
    OBVIOUS
  <2>2. QED
    BY <2>1, RecordableTime
<1>2. ASSUME NEW i \in 1..n PROVE Cardinality(Earlier(log, i)) = i - 1
  <2>1. ASSUME NEW j \in 1..n PROVE j \in Earlier(log, i) <=> j < i
    <3>1. log[i].ts \in Nat /\ log[j].ts \in Nat
      BY <1>1
    <3>2. CASE j < i
      <4>1. log[j].ts <= log[i].ts
        BY <3>2 DEF Ordered
      <4>2. QED
        BY <3>1, <3>2, <4>1 DEF Earlier
    <3>3. CASE i < j
      <4>1. log[i].ts <= log[j].ts
        BY <3>3 DEF Ordered
      <4>2. QED
        BY <1>1, <3>1, <3>3, <4>1 DEF Earlier
    <3>4. CASE i = j
      BY <1>1, <3>1, <3>4 DEF Earlier
    <3>5. QED
      BY <1>1, <3>2, <3>3, <3>4
  <2>2. Earlier(log, i) \subseteq 1..n
    BY DEF Earlier
  <2>3. Earlier(log, i) = 1..(i - 1)
    <3>1. 1..(i - 1) = {j \in 1..n : j < i}
      BY <1>1
    <3> HIDE DEF n
    <3>2. QED
      BY <2>1, <2>2, <3>1
  <2>4. QED
    BY <1>1, <2>3, FS_Interval
<1>3. (CHOOSE i \in 1..n : Cardinality(Earlier(log, i)) = k - 1) = k
  <2>1. \A i \in 1..n : Cardinality(Earlier(log, i)) = k - 1 <=> i = k
    BY <1>1, <1>2
  <2>2. QED
    BY <2>1
<1>4. QED
  BY <1>3 DEF InOrder

\* Touches recorded in order are never stale, so the engine applies each of
\* them as the replay does.
LEMMA ReplayStep == LogTypeOK /\ ReplayAgrees /\ [LogNext]_logVars => ReplayAgrees'
<1> SUFFICES ASSUME LogTypeOK, ReplayAgrees, [LogNext]_logVars PROVE ReplayAgrees'
  OBVIOUS
<1>1. ASSUME NEW e \in Recordable, Record(e) PROVE ReplayAgrees'
  <2>1. PICK n \in Nat : n = Len(touches)
    BY DEF LogTypeOK
  <2>2. PICK new : new = touches'
    OBVIOUS
  <2>3. /\ touches \in Seq(Recordable) /\ new \in Seq(Recordable)
        /\ Len(new) = n + 1 /\ new[n + 1] = e /\ \A i \in 1..n : new[i] = touches[i]
        /\ DOMAIN new = 1..(n + 1) /\ DOMAIN touches = 1..n
    BY <1>1, <2>1, <2>2 DEF LogTypeOK, Record
  <2> SUFFICES ASSUME Ordered(new) PROVE row' = Replay(new)
    BY <2>2, <2>3 DEF ReplayAgrees, Ordered
  <2>4. \A i \in 1..n : i \in 1..(n + 1) /\ i < n + 1
    OBVIOUS
  <2>5. Ordered(touches)
    BY <2>1, <2>3, <2>4 DEF Ordered
  <2>6. row = Replay(touches)
    BY <2>1, <2>3, <2>5 DEF ReplayAgrees, Ordered
  <2>7. ~ Stale(touches, e)
    <3>1. ASSUME NEW i \in 1..n PROVE ~ (touches[i].ts > e.ts)
      <4>1. touches[i].ts <= e.ts
        BY <2>3, <2>4 DEF Ordered
      <4>2. touches[i].ts \in Nat /\ e.ts \in Nat
        <5>1. touches[i] \in Recordable
          BY <2>1, <2>3
        <5>2. QED
          BY <5>1, RecordableTime
      <4>3. QED
        BY <4>1, <4>2
    <3>2. QED
      BY <2>1, <3>1 DEF Stale, Newer
  <2>8. row' = Apply(row, e)
    BY <1>1, <2>7 DEF Record, After, Apply
  <2>9. \A k \in 1..n : InOrder(touches)[k] = touches[k]
    BY <2>1, <2>3, <2>5, InOrderIsLog
  <2>10. \A k \in 1..(n + 1) : InOrder(new)[k] = new[k]
    BY <2>3, InOrderIsLog
  <2>11. Alike(InOrder(touches), InOrder(new), n)
    BY <2>3, <2>4, <2>9, <2>10 DEF Alike
  <2>12. InOrder(new)[n + 1] = e
    BY <2>3, <2>10, n + 1 \in 1..(n + 1)
  <2>13. Replayed(InOrder(new), n + 1) = Apply(Replayed(InOrder(touches), n), e)
    BY <2>11, <2>12, ReplayedStep
  <2>14. QED
    BY <2>1, <2>3, <2>6, <2>8, <2>13 DEF Replay
<1>2. CASE UNCHANGED logVars
  BY <1>2 DEF logVars, ReplayAgrees
<1>3. QED
  BY <1>1, <1>2 DEF LogNext

\* A contact with one chat on file is what the chat makes of it.
LEMMA ReplayInit == LogInit => ReplayAgrees
<1> SUFFICES ASSUME LogInit PROVE row = Replay(touches)
  BY DEF ReplayAgrees
<1>1. CASE touches = <<>> /\ row = Fresh
  <2>1. Len(touches) = 0
    BY <1>1
  <2>2. QED
    BY <1>1, <2>1, ReplayedStep DEF Replay
<1>2. ASSUME NEW t \in Times, touches = <<Touch("chat", t)>>,
             row = [warmth |-> "chatted", state |-> "chat_done"]
      PROVE  row = Replay(touches)
  <2>1. Touch("chat", t) \in Recordable
    BY DEF Recordable, TouchKinds
  <2>2. touches \in Seq(Recordable) /\ Len(touches) = 1 /\ touches[1] = Touch("chat", t)
    BY <1>2, <2>1
  <2>3. Ordered(touches)
    BY <2>2 DEF Ordered
  <2>4. InOrder(touches)[1] = Touch("chat", t)
    BY <2>2, <2>3, InOrderIsLog
  <2>5. Replayed(InOrder(touches), 0 + 1) = Apply(Replayed(InOrder(touches), 0), InOrder(touches)[0 + 1])
    <3>1. Alike(InOrder(touches), InOrder(touches), 0)
      BY DEF Alike
    <3>2. QED
      BY <3>1, ReplayedStep
  <2>6. Replay(touches) = Apply(Fresh, Touch("chat", t))
    BY <2>2, <2>4, <2>5, ReplayedStep, 0 + 1 = 1 DEF Replay
  <2>7. Apply(Fresh, Touch("chat", t)) = [warmth |-> "chatted", state |-> "chat_done"]
    <3>1. None # "chatted" /\ None # "chat_done"
      BY LogAssumption DEF Warmths, ThreadStates
    <3>2. WARMTH_RANK["chatted"] > WARMTH_RANK["cold"]
      BY DEF WARMTH_RANK, Warmths
    <3>3. QED
      BY <3>1, <3>2 DEF Apply, Ratchet, Fresh, Touch, NewWarmth, NewState
  <2>8. QED
    BY <1>2, <2>6, <2>7
<1>3. QED
  BY <1>1, <1>2 DEF LogInit, Fresh

\* Where the touches were recorded in the order of their moments, replaying
\* the ledger gives the stored row (replay_states.py against pipeline.py).
THEOREM ReplayAgreesHolds == Spec => []ReplayAgrees
<1>1. LogSpec => []ReplayAgrees
  <2>1. LogInit => LogTypeOK /\ ReplayAgrees
    BY LogTypeInit, ReplayInit
  <2>2. LogTypeOK /\ ReplayAgrees /\ [LogNext]_logVars => (LogTypeOK /\ ReplayAgrees)'
    BY LogTypeStep, ReplayStep
  <2>3. QED
    BY <2>1, <2>2, PTL DEF LogSpec
<1>2. QED
  BY <1>1, Serializable, PTL
=============================================================================
