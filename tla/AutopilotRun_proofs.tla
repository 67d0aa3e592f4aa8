------------------------ MODULE AutopilotRun_proofs ------------------------
(***************************************************************************)
(* What AutopilotRun guarantees for any number of people, runs and workers. *)
(***************************************************************************)
EXTENDS AutopilotRun, TLAPS

Statuses == {"proposed", "applied", "undone", "superseded"}

\* A decision that blocks nothing: no override, and superseded or of a run
\* that was not offered.
Open(i) ==
    /\ ~ log[i].overridden
    /\ log[i].status = "superseded" \/ run[log[i].run] \notin Finished

\* Whose run is whose: a claimed run is one worker's and is not offered.
Ownership ==
    /\ \A w \in Workers : wrun[w] # None => run[wrun[w]] \in {"running", "failed"}
    /\ \A w \in Workers : wrun[w] # None /\ run[wrun[w]] = "failed" => wrun[w] \in late
    /\ \A v, w \in Workers : v # w /\ wrun[v] # None => wrun[v] # wrun[w]

\* A run writes its decisions after its claim.
NotBegun ==
    /\ \A w \in Workers : wpc[w] = "claimed" => \A i \in 1..Len(log) : log[i].run # wrun[w]
    /\ \A i \in 1..Len(log) : run[log[i].run] \notin {"none", "queued"}

\* The batch that is being applied.
Batch ==
    /\ \A r \in truns : run[r] = "reviewed"
    /\ tpc = "idle" => truns = {}
    /\ \A i \in list : log[i].run \in truns
    /\ at # 0 => at \in list /\ tpc \in {"accept", "resolve", "save"}
    /\ tpc = "save" => at # 0
    /\ \A i \in 1..Len(log) : log[i].status # "proposed" => run[log[i].run] \in Finished

\* What of the batch's oldest run is not in the list any more is recorded.
Recorded ==
    tpc \in {"loop", "accept", "resolve", "save"} =>
        \A r \in truns, i \in 1..Len(log) :
            /\ \A s \in truns : r <= s
            /\ log[i].run = r /\ log[i].decision = "accept" /\ log[i].status = "proposed"
            /\ i \notin list
            => log[i].overridden

\* Only the newest decision about a person can be closed, and nobody decides
\* about a person while it is.
Decided ==
    late = {} =>
        /\ \A w \in Workers, i \in 1..Len(log) :
                wpc[w] = "deciding" /\ log[i].person \in todo[w]
                => Open(i) /\ log[i].run # wrun[w]
        /\ \A i, j \in 1..Len(log) :
                run[log[i].run] = "running" /\ log[i].person = log[j].person => j <= i
        /\ \A i, j \in 1..Len(log) :
                i < j /\ log[i].person = log[j].person => Open(i)

AutopilotInv ==
    TypeOK /\ OneActiveRun /\ Ownership /\ NotBegun /\ Batch /\ Recorded
    /\ AppliedWhole /\ NoDuplicate /\ Decided

-----------------------------------------------------------------------------
(* What the updates of the log do.                                         *)

\* A row created at the end of the log leaves the others alone.
LEMMA AppendRow ==
    ASSUME log \in Seq(Decisions), NEW d \in Decisions, log' = Append(log, d)
    PROVE  /\ log' \in Seq(Decisions)
           /\ Len(log') = Len(log) + 1
           /\ \A i \in 1..Len(log) : log'[i] = log[i]
           /\ log'[Len(log) + 1] = d
  OBVIOUS

\* The rows of the log are decisions.
LEMMA RowTypes ==
    ASSUME TypeOK
    PROVE  \A i \in 1..Len(log) :
              /\ log[i].run \in Runs /\ log[i].person \in People
              /\ log[i].decision \in {"accept", "escalate"}
              /\ log[i].status \in Statuses
              /\ log[i].overridden \in BOOLEAN /\ log[i].created \in BOOLEAN
<1>1. \A i \in 1..Len(log) : log[i] \in Decisions
  BY DEF TypeOK
<1>2. QED
  BY <1>1 DEF Decisions, Statuses

\* A save of a row changes that row's status and flags, and nothing else.
LEMMA AmendRow ==
    ASSUME TypeOK, NEW i \in 1..Len(log), NEW status \in Statuses,
           NEW overridden \in BOOLEAN, NEW created \in BOOLEAN,
           Amend(i, status, overridden, created)
    PROVE  /\ log' \in Seq(Decisions)
           /\ Len(log') = Len(log)
           /\ \A k \in 1..Len(log) : k # i => log'[k] = log[k]
           /\ \A k \in 1..Len(log) :
                /\ log'[k].run = log[k].run /\ log'[k].person = log[k].person
                /\ log'[k].decision = log[k].decision
           /\ log'[i].status = status
           /\ log'[i].overridden = overridden
<1> DEFINE d == [run |-> log[i].run, person |-> log[i].person, decision |-> log[i].decision,
                 status |-> status, overridden |-> overridden, created |-> created]
<1>1. log \in Seq(Decisions)
  BY DEF TypeOK
<1>2. d \in Decisions
  BY RowTypes DEF Decisions, Statuses
<1>3. log' = [log EXCEPT ![i] = d]
  BY DEF Amend
<1>4. /\ d.run = log[i].run /\ d.person = log[i].person /\ d.decision = log[i].decision
      /\ d.status = status /\ d.overridden = overridden
  OBVIOUS
<1> HIDE DEF d
<1>5. /\ log' \in Seq(Decisions) /\ Len(log') = Len(log)
      /\ \A k \in 1..Len(log) : k # i => log'[k] = log[k]
      /\ log'[i] = d
  BY <1>1, <1>2, <1>3
<1>6. QED
  BY <1>4, <1>5

-----------------------------------------------------------------------------
(* Types.                                                                  *)

RunTypes ==
    /\ run \in [Runs -> {"none"} \union ACTIVE_STATUSES \union Finished \union {"failed"}]
    /\ log \in Seq(Decisions)

CardTypes ==
    /\ card \in [People -> CardStatuses]
    /\ fact \in [People -> {"none", "due", "applied", "closed"}]
    /\ contacts \in [People -> Nat]
    /\ archived \subseteq People /\ own \subseteq People

WorkTypes ==
    /\ wpc \in [Workers -> {"idle", "claimed", "deciding"}]
    /\ wrun \in [Workers -> Runs \union {None}]
    /\ todo \in [Workers -> SUBSET People]
    /\ \A w \in Workers : wpc[w] = "idle" <=> wrun[w] = None

TapTypes ==
    /\ tpc \in {"idle", "load", "loop", "accept", "resolve", "save"}
    /\ truns \subseteq Runs
    /\ seen \in [People -> CardStatuses]
    /\ who \in People /\ made \in BOOLEAN

ListTypes ==
    /\ list \subseteq {i \in 1..Len(log) : log[i].status = "proposed"}
    /\ at \in 0..Len(log)

BoundTypes == kills \in Nat /\ crashes \in Nat /\ late \subseteq Runs

\* The type invariant, part by part.
LEMMA TypeParts ==
    TypeOK <=> RunTypes /\ CardTypes /\ WorkTypes /\ TapTypes /\ ListTypes /\ BoundTypes
  BY DEF TypeOK, RunTypes, CardTypes, WorkTypes, TapTypes, ListTypes, BoundTypes

\* The same of the next state.
LEMMA TypePartsNext ==
    ASSUME RunTypes', CardTypes', WorkTypes', TapTypes', ListTypes', BoundTypes'
    PROVE  TypeOK'
  BY DEF TypeOK, RunTypes, CardTypes, WorkTypes, TapTypes, ListTypes, BoundTypes

\* A worker that moves has the run and the cards it says it has.
LEMMA WorkTyped ==
    ASSUME WorkTypes, NEW w \in Workers, NEW label \in {"claimed", "deciding"},
           NEW r \in Runs, NEW cards \in SUBSET People,
           Work(w, label, r, cards) \/ Work(w, "idle", None, {})
    PROVE  WorkTypes'
<1>0. None \notin Runs
  BY AutopilotAssumption DEF Runs
<1>1. CASE Work(w, label, r, cards)
  BY <1>0, <1>1 DEF WorkTypes, Work
<1>2. CASE Work(w, "idle", None, {})
  BY <1>2 DEF WorkTypes, Work
<1>3. QED
  BY <1>1, <1>2

\* A worker that is not idle has a run.
LEMMA WorkerRun ==
    ASSUME WorkTypes, NEW w \in Workers, wpc[w] # "idle"
    PROVE  wrun[w] \in Runs
  BY DEF WorkTypes

\* The workers' steps and the reaper's keep the types.
LEMMA WorkTypesStep ==
    ASSUME TypeOK, NEW w, NEW r,
           \/ StartRun
           \/ r \in Runs /\ ReapStaleRun(r)
           \/ w \in Workers /\ r \in Runs /\ ClaimRun(w, r)
           \/ w \in Workers /\ (ReadCards(w) \/ Decide(w) \/ FinishRun(w) \/ KillWorker(w))
    PROVE  TypeOK'
<1>0. RunTypes /\ CardTypes /\ WorkTypes /\ TapTypes /\ ListTypes /\ BoundTypes
  BY TypeParts
<1>1. CardTypes' /\ TapTypes'
  <2>1. UNCHANGED <<cardVars, tapVars>>
    BY Zenon DEF StartRun, ClaimRun, ReadCards, Decide, FinishRun, KillWorker, ReapStaleRun
  <2>2. CardTypes'
    BY <1>0, <2>1 DEF CardTypes, cardVars
  <2>3. TapTypes'
    BY <1>0, <2>1 DEF TapTypes, tapVars
  <2>4. QED
    BY <2>2, <2>3
<1>2. BoundTypes'
  BY <1>0 DEF BoundTypes, boundVars, StartRun, ClaimRun, ReadCards, Decide, FinishRun,
              KillWorker, ReapStaleRun
<1>3. CASE StartRun
  <2>1. RunTypes'
    BY <1>0, <1>3 DEF StartRun, RunTypes, ACTIVE_STATUSES
  <2>2. WorkTypes'
    BY <1>0, <1>3 DEF StartRun, WorkTypes, workVars
  <2>3. ListTypes'
    BY <1>0, <1>3 DEF StartRun, ListTypes, tapVars
  <2>4. QED
    BY <1>1, <1>2, <2>1, <2>2, <2>3, TypePartsNext
<1>4. CASE w \in Workers /\ r \in Runs /\ ClaimRun(w, r)
  <2>1. RunTypes'
    BY <1>0, <1>4 DEF ClaimRun, RunTypes, ACTIVE_STATUSES
  <2>2. WorkTypes'
    BY <1>0, <1>4, WorkTyped DEF ClaimRun
  <2>3. ListTypes'
    BY <1>0, <1>4 DEF ClaimRun, ListTypes, tapVars
  <2>4. QED
    BY <1>1, <1>2, <2>1, <2>2, <2>3, TypePartsNext
<1>5. CASE w \in Workers /\ ReadCards(w)
  <2>0. wrun[w] \in Runs
    BY <1>0, <1>5, WorkerRun DEF ReadCards
  <2>1. RunTypes'
    BY <1>0, <1>5 DEF ReadCards, RunTypes, Finished
  <2>2. WorkTypes'
    <3>1. Candidates \subseteq People
      BY DEF Candidates
    <3>2. \/ \E cards \in SUBSET Candidates : Work(w, "deciding", wrun[w], cards)
          \/ Work(w, "idle", None, {})
      BY <1>5 DEF ReadCards
    <3>3. QED
      BY <1>0, <1>5, <2>0, <3>1, <3>2, WorkTyped
  <2>3. ListTypes'
    BY <1>0, <1>5 DEF ReadCards, ListTypes, tapVars
  <2>4. QED
    BY <1>1, <1>2, <2>1, <2>2, <2>3, TypePartsNext
<1>6. CASE w \in Workers /\ Decide(w)
  <2>0. wrun[w] \in Runs
    BY <1>0, <1>6, WorkerRun DEF Decide
  <2>1. PICK p \in todo[w], verdict \in {"accept", "escalate"} :
          /\ log' = Append(log, [run |-> wrun[w], person |-> p, decision |-> verdict,
                                 status |-> "proposed", overridden |-> FALSE, created |-> FALSE])
          /\ Work(w, "deciding", wrun[w], todo[w] \ {p})
    BY <1>6 DEF Decide
  <2>2. p \in People /\ todo[w] \ {p} \in SUBSET People
    BY <1>0, <1>6 DEF WorkTypes
  <2> DEFINE d == [run |-> wrun[w], person |-> p, decision |-> verdict,
                   status |-> "proposed", overridden |-> FALSE, created |-> FALSE]
  <2>3. d \in Decisions
    BY <2>0, <2>2 DEF Decisions
  <2>4. log \in Seq(Decisions)
    BY <1>0 DEF RunTypes
  <2>5. log' = Append(log, d)
    BY <2>1
  <2> HIDE DEF d
  <2>6. /\ log' \in Seq(Decisions) /\ Len(log') = Len(log) + 1
        /\ \A i \in 1..Len(log) : log'[i] = log[i]
    BY <2>3, <2>4, <2>5, AppendRow
  <2>7. RunTypes'
    BY <1>0, <1>6, <2>6 DEF Decide, RunTypes
  <2>8. WorkTypes'
    BY <1>0, <1>6, <2>0, <2>1, <2>2, WorkTyped
  <2>9. ListTypes'
    <3>1. list' = list /\ at' = at
      BY <1>6 DEF Decide, tapVars
    <3>2. QED
      BY <1>0, <2>4, <2>6, <3>1 DEF ListTypes
  <2>10. QED
    BY <1>1, <1>2, <2>7, <2>8, <2>9, TypePartsNext
<1>7. CASE w \in Workers /\ FinishRun(w)
  <2>0. wrun[w] \in Runs
    BY <1>0, <1>7, WorkerRun DEF FinishRun
  <2>1. RunTypes'
    BY <1>0, <1>7 DEF FinishRun, RunTypes, Finished
  <2>2. WorkTypes'
    BY <1>0, <1>7, <2>0, WorkTyped DEF FinishRun
  <2>3. ListTypes'
    BY <1>0, <1>7 DEF FinishRun, ListTypes, tapVars
  <2>4. QED
    BY <1>1, <1>2, <2>1, <2>2, <2>3, TypePartsNext
<1>8. CASE w \in Workers /\ KillWorker(w)
  <2>1. RunTypes'
    BY <1>0, <1>8 DEF KillWorker, RunTypes, runVars
  <2>2. WorkTypes'
    <3>1. wrun[w] \in Runs
      BY <1>0, <1>8, WorkerRun DEF KillWorker
    <3>2. QED
      BY <1>0, <1>8, <3>1, WorkTyped DEF KillWorker
  <2>3. ListTypes'
    BY <1>0, <1>8 DEF KillWorker, ListTypes, tapVars, runVars
  <2>4. QED
    BY <1>1, <1>2, <2>1, <2>2, <2>3, TypePartsNext
<1>9. CASE r \in Runs /\ ReapStaleRun(r)
  <2>1. RunTypes'
    BY <1>0, <1>9 DEF ReapStaleRun, RunTypes
  <2>2. WorkTypes'
    BY <1>0, <1>9 DEF ReapStaleRun, WorkTypes, workVars
  <2>3. ListTypes'
    BY <1>0, <1>9 DEF ReapStaleRun, ListTypes, tapVars
  <2>4. QED
    BY <1>1, <1>2, <2>1, <2>2, <2>3, TypePartsNext
<1>10. QED
  BY <1>3, <1>4, <1>5, <1>6, <1>7, <1>8, <1>9

\* The steps on cards and facts keep the types.
LEMMA CardTypesStep ==
    ASSUME TypeOK, NEW p \in People,
           \/ DismissCard(p) \/ RestoreCard(p) \/ Archive(p) \/ Withdraw(p) \/ WriteFact(p)
           \/ KillSync(p) \/ UndoFact(p) \/ DismissFact(p)
    PROVE  TypeOK'
<1>0. RunTypes /\ CardTypes /\ WorkTypes /\ TapTypes /\ ListTypes /\ BoundTypes
  BY TypeParts
<1>1. UNCHANGED <<runVars, workVars, tapVars>>
  BY Zenon DEF DismissCard, RestoreCard, Archive, Withdraw, WriteFact, KillSync, UndoFact, DismissFact
<1>2. RunTypes' /\ ListTypes'
  BY <1>0, <1>1 DEF RunTypes, ListTypes, runVars, tapVars
<1>3. WorkTypes'
  BY <1>0, <1>1 DEF WorkTypes, workVars
<1>4. TapTypes'
  BY <1>0, <1>1 DEF TapTypes, tapVars
<1>5. BoundTypes'
  BY <1>0 DEF BoundTypes, boundVars, DismissCard, RestoreCard, Archive, Withdraw, WriteFact,
              KillSync, UndoFact, DismissFact
<1>6. Restored(p) \in CardStatuses
  BY DEF Restored, CardStatuses
<1>7. CardTypes'
  <2>1. CASE DismissCard(p)
    BY <1>0, <2>1 DEF CardTypes, CardStatuses, DismissCard
  <2>2. CASE RestoreCard(p)
    BY <1>0, <1>6, <2>2 DEF CardTypes, RestoreCard
  <2>3. CASE Archive(p)
    BY <1>0, <2>3 DEF CardTypes, Archive
  <2>4. CASE Withdraw(p)
    BY <1>0, <2>4 DEF CardTypes, CardStatuses, Withdraw
  <2>5. CASE WriteFact(p)
    BY <1>0, <2>5 DEF CardTypes, WriteFact
  <2>6. CASE KillSync(p)
    BY <1>0, <2>6 DEF CardTypes, KillSync
  <2>7. CASE UndoFact(p)
    BY <1>0, <1>6, <2>7 DEF CardTypes, UndoFact
  <2>8. CASE DismissFact(p)
    BY <1>0, <2>8 DEF CardTypes, DismissFact
  <2>9. QED
    BY <2>1, <2>2, <2>3, <2>4, <2>5, <2>6, <2>7, <2>8
<1>8. QED
  BY <1>2, <1>3, <1>4, <1>5, <1>7, TypePartsNext

\* The apply loop's steps that leave the log alone keep the types.
LEMMA TapTypesStep ==
    ASSUME TypeOK, NEW r, NEW i, NEW p,
           \/ r \in Runs /\ ApplyReviewed(r)
           \/ i \in list /\ AcceptDecision(i)
           \/ p \in People /\ AcceptCard(p)
           \/ LoadRun \/ ApplyRun \/ Accept \/ Resolve \/ CrashTap
    PROVE  TypeOK'
<1>0. RunTypes /\ CardTypes /\ WorkTypes /\ TapTypes /\ ListTypes /\ BoundTypes
  BY TypeParts
<1>1. UNCHANGED <<log, workVars, late, kills>>
  BY Zenon DEF ApplyReviewed, LoadRun, ApplyRun, AcceptDecision, AcceptCard, Accept, Resolve,
               CrashTap, runVars, boundVars
<1>2. WorkTypes'
  BY <1>0, <1>1 DEF WorkTypes, workVars
<1>3. BoundTypes'
  BY <1>0, AutopilotAssumption DEF BoundTypes, boundVars, ApplyReviewed, LoadRun, ApplyRun, AcceptDecision,
              AcceptCard, Accept, Resolve, CrashTap
<1>4. RunTypes'
  <2>1. run' = run \/ ApplyRun
    BY Zenon DEF ApplyReviewed, LoadRun, AcceptDecision, AcceptCard, Accept, Resolve, CrashTap, runVars
  <2>2. QED
    BY <1>0, <1>1, <2>1 DEF RunTypes, ApplyRun, Finished
<1>5. CardTypes'
  <2>1. CASE p \in People /\ AcceptCard(p)
    BY <1>0, <2>1 DEF AcceptCard, CardTypes
  <2>2. CASE Accept
    BY <1>0, <2>2 DEF Accept, CardTypes
  <2>3. CASE Resolve
    BY <1>0, <2>3 DEF Resolve, CardTypes, CardStatuses
  <2>4. CASE UNCHANGED cardVars
    BY <1>0, <2>4 DEF CardTypes, cardVars
  <2>5. QED
    BY <2>1, <2>2, <2>3, <2>4 DEF ApplyReviewed, LoadRun, ApplyRun, AcceptDecision, CrashTap
<1>6. \A k \in 1..Len(log) : log[k].person \in People
  BY RowTypes
<1>7. list \subseteq 1..Len(log)
  BY <1>0 DEF ListTypes
<1>8. TapTypes'
  <2>1. CASE r \in Runs /\ ApplyReviewed(r)
    BY <1>0, <2>1 DEF ApplyReviewed, TapTypes, Goto
  <2>2. CASE LoadRun
    BY <1>0, <2>2 DEF LoadRun, TapTypes, CardTypes, Goto
  <2>3. CASE ApplyRun
    BY <1>0, <2>3 DEF ApplyRun, TapTypes, Goto
  <2>4. CASE i \in list /\ AcceptDecision(i)
    BY <1>0, <1>6, <1>7, <2>4 DEF AcceptDecision, BeginAccept, TapTypes, Goto
  <2>5. CASE p \in People /\ AcceptCard(p)
    BY <1>0, <2>5 DEF AcceptCard, BeginAccept, TapTypes, Goto
  <2>6. CASE Accept
    <3>1. made' \in BOOLEAN
      BY <2>6 DEF Accept
    <3>2. QED
      BY <1>0, <2>6, <3>1 DEF Accept, TapTypes, Goto
  <2>7. CASE Resolve
    BY <1>0, <2>7 DEF Resolve, Idle, TapTypes, Goto
  <2>8. CASE CrashTap
    BY <1>0, <2>8 DEF CrashTap, Idle, TapTypes
  <2>9. QED
    BY <2>1, <2>2, <2>3, <2>4, <2>5, <2>6, <2>7, <2>8
<1>9. ListTypes'
  <2>1. CASE LoadRun
    <3>1. list' \subseteq {k \in 1..Len(log) : log[k].status = "proposed"} /\ at' = at
      BY <2>1 DEF LoadRun
    <3>2. QED
      BY <1>0, <1>1, <3>1 DEF ListTypes
  <2>2. CASE (i \in list /\ AcceptDecision(i)) \/ (p \in People /\ AcceptCard(p))
    <3>1. list' = list /\ at' \in list \union {0}
      BY <2>2 DEF AcceptDecision, AcceptCard, BeginAccept
    <3>2. Len(log) \in Nat
      BY <1>0 DEF RunTypes
    <3>3. at' \in 0..Len(log)
      BY <1>7, <3>1, <3>2
    <3>4. QED
      BY <1>0, <1>1, <3>1, <3>3 DEF ListTypes
  <2>3. CASE Resolve \/ CrashTap
    <3>1. Len(log) \in Nat
      BY <1>0 DEF RunTypes
    <3>2. CASE list' = list /\ at' = at
      BY <1>0, <1>1, <3>2 DEF ListTypes
    <3>3. CASE list' = {} /\ at' = 0
      BY <1>1, <3>1, <3>3 DEF ListTypes
    <3>4. QED
      BY <2>3, <3>2, <3>3 DEF Resolve, CrashTap, Idle
  <2>4. CASE (r \in Runs /\ ApplyReviewed(r)) \/ ApplyRun \/ Accept
    BY <1>0, <1>1, <2>4 DEF ApplyReviewed, ApplyRun, Accept, ListTypes
  <2>5. QED
    BY <2>1, <2>2, <2>3, <2>4
<1>10. QED
  BY <1>2, <1>3, <1>4, <1>5, <1>8, <1>9, TypePartsNext

\* The list without a row that was saved holds rows to be saved.
LEMMA ListWithout ==
    ASSUME TypeOK, NEW i \in 1..Len(log), NEW status \in Statuses,
           NEW overridden \in BOOLEAN, NEW created \in BOOLEAN,
           Amend(i, status, overridden, created), list' = list \ {i},
           at' \in {at, 0}, run' = run
    PROVE  RunTypes' /\ ListTypes'
<1>1. ListTypes /\ RunTypes
  BY TypeParts
<1>2. /\ log' \in Seq(Decisions) /\ Len(log') = Len(log)
      /\ \A k \in 1..Len(log) : k # i => log'[k] = log[k]
  BY AmendRow
<1>3. list' \subseteq {k \in 1..Len(log') : log'[k].status = "proposed"}
  BY <1>1, <1>2 DEF ListTypes
<1>4. Len(log) \in Nat /\ at \in 0..Len(log)
  BY <1>1 DEF RunTypes, ListTypes
<1>5. ListTypes'
  BY <1>2, <1>3, <1>4 DEF ListTypes
<1>6. QED
  BY <1>1, <1>2, <1>5 DEF RunTypes

\* The steps that save a decision keep the types.
LEMMA SaveTypesStep ==
    ASSUME TypeOK, Batch, NEW i \in 1..Len(log),
           (i \in list /\ SkipResolved(i)) \/ SaveDecision \/ UndoDecision(i)
    PROVE  TypeOK'
<1>0. RunTypes /\ CardTypes /\ WorkTypes /\ TapTypes /\ ListTypes /\ BoundTypes
  BY TypeParts
<1>1. UNCHANGED <<run, workVars, boundVars>>
  BY Zenon DEF SkipResolved, SaveDecision, UndoDecision
<1>2. WorkTypes' /\ BoundTypes'
  BY <1>0, <1>1 DEF WorkTypes, workVars, BoundTypes, boundVars
<1>3. /\ log[i].person \in People /\ log[i].status \in Statuses
      /\ log[i].overridden \in BOOLEAN /\ log[i].created \in BOOLEAN
  BY RowTypes
<1>4. CASE i \in list /\ SkipResolved(i)
  <2>1. \/ Amend(i, "superseded", log[i].overridden, log[i].created)
        \/ Amend(i, log[i].status, TRUE, log[i].created)
    BY <1>4 DEF SkipResolved
  <2>2. list' = list \ {i} /\ at' \in {at, 0}
    BY <1>4 DEF SkipResolved
  <2>3. RunTypes' /\ ListTypes'
    BY <1>1, <1>3, <2>1, <2>2, ListWithout DEF Statuses
  <2>4. CardTypes' /\ TapTypes'
    BY <1>0, <1>4 DEF SkipResolved, CardTypes, cardVars, TapTypes
  <2>5. QED
    BY <1>2, <2>3, <2>4, TypePartsNext
<1>5. CASE SaveDecision
  <2>1. at \in list /\ at \in 1..Len(log)
    BY <1>0, <1>5 DEF SaveDecision, Batch, ListTypes
  <2>2. /\ log[at].status \in Statuses /\ log[at].overridden \in BOOLEAN
        /\ log[at].created \in BOOLEAN /\ made \in BOOLEAN
    BY <1>0, <2>1, RowTypes DEF TapTypes
  <2>3. \/ Amend(at, log[at].status, TRUE, log[at].created)
        \/ Amend(at, "applied", log[at].overridden, made)
    BY <1>5 DEF SaveDecision
  <2>4. list' = list \ {at} /\ at' \in {at, 0}
    BY <1>5 DEF SaveDecision
  <2>5. RunTypes' /\ ListTypes'
    BY <1>1, <2>1, <2>2, <2>3, <2>4, ListWithout DEF Statuses
  <2>6. CardTypes' /\ TapTypes'
    BY <1>0, <1>5 DEF SaveDecision, CardTypes, cardVars, TapTypes, Goto
  <2>7. QED
    BY <1>2, <2>5, <2>6, TypePartsNext
<1>6. CASE UndoDecision(i)
  <2>1. Amend(i, "undone", TRUE, log[i].created)
    BY <1>6 DEF UndoDecision
  <2>2. /\ log' \in Seq(Decisions) /\ Len(log') = Len(log)
        /\ \A k \in 1..Len(log) : k # i => log'[k] = log[k]
    BY <1>3, <2>1, AmendRow DEF Statuses
  <2>3. i \notin list /\ list' = list /\ at' = at
    BY <1>0, <1>6 DEF UndoDecision, ListTypes, tapVars
  <2>4. RunTypes' /\ ListTypes'
    BY <1>0, <1>1, <2>2, <2>3 DEF RunTypes, ListTypes
  <2>5. TapTypes'
    BY <1>0, <1>6 DEF UndoDecision, TapTypes, tapVars
  <2> DEFINE q == log[i].person
  <2>6. PICK gone \in {0} \union (IF log[i].created /\ contacts[q] > 0 THEN {1} ELSE {}) :
          /\ contacts' = [contacts EXCEPT ![q] = @ - gone]
          /\ archived' = IF gone = 1 THEN archived \ {q} ELSE archived
    BY <1>6 DEF UndoDecision
  <2>7. /\ gone \in {0, 1} /\ (gone = 1 => contacts[q] > 0)
        /\ contacts' = [contacts EXCEPT ![q] = @ - gone]
        /\ archived' = IF gone = 1 THEN archived \ {q} ELSE archived
    BY <2>6
  <2>8. card' = [card EXCEPT ![q] = "pending"] /\ own' = own \union {q} /\ fact' = fact
    BY <1>6 DEF UndoDecision
  <2>9. q \in People
    BY <1>3
  <2> HIDE DEF q
  <2>10. contacts' \in [People -> Nat]
    <3>1. contacts \in [People -> Nat]
      BY <1>0 DEF CardTypes
    <3>2. contacts[q] - gone \in Nat
      BY <2>7, <2>9, <3>1
    <3>3. QED
      BY <2>7, <3>1, <3>2
  <2>11. CardTypes'
    BY <1>0, <2>7, <2>8, <2>9, <2>10 DEF CardTypes, CardStatuses
  <2>12. QED
    BY <1>2, <2>4, <2>5, <2>11, TypePartsNext
<1>7. QED
  BY <1>4, <1>5, <1>6

-----------------------------------------------------------------------------
(* What holds of the runs, as long as nobody writes them.                  *)

\* What concerns runs, decisions and workers only stays when they do.
LEMMA RunsFrame ==
    ASSUME OneActiveRun, Ownership, NotBegun, AppliedWhole, Decided,
           UNCHANGED <<runVars, workVars, late>>
    PROVE  OneActiveRun' /\ Ownership' /\ NotBegun' /\ AppliedWhole' /\ Decided'
<1>1. run' = run /\ log' = log /\ wpc' = wpc /\ wrun' = wrun /\ todo' = todo /\ late' = late
  BY DEF runVars, workVars
<1>2. OneActiveRun' /\ Ownership'
  BY <1>1 DEF OneActiveRun, Ownership
<1>3. NotBegun' /\ AppliedWhole'
  BY <1>1 DEF NotBegun, AppliedWhole
<1>4. Decided'
  BY <1>1 DEF Decided, Open
<1>5. QED
  BY <1>2, <1>3, <1>4

\* What concerns the batch stays when nobody touches it, the log, or a run
\* that has been offered.
LEMMA BatchFrame ==
    ASSUME TypeOK, Batch, Recorded, AppliedWhole, log' = log, UNCHANGED tapVars,
           \A r \in Runs : run[r] \in Finished => run'[r] = run[r],
           \A r \in Runs : run'[r] = "applied" => run[r] = "applied"
    PROVE  Batch' /\ Recorded' /\ AppliedWhole'
<1>1. tpc' = tpc /\ truns' = truns /\ list' = list /\ at' = at
  BY DEF tapVars
<1>2. \A i \in 1..Len(log) : log[i].run \in Runs
  BY RowTypes
<1>3. truns \subseteq Runs
  BY DEF TypeOK
<1>4. Batch'
  <2>1. \A r \in truns' : run'[r] = "reviewed"
    BY <1>1, <1>3 DEF Batch, Finished
  <2>2. \A i \in 1..Len(log') : log'[i].status # "proposed" => run'[log'[i].run] \in Finished
    BY <1>2 DEF Batch
  <2>3. QED
    BY <1>1, <2>1, <2>2 DEF Batch
<1>5. Recorded'
  BY <1>1 DEF Recorded
<1>6. AppliedWhole'
  BY <1>2 DEF AppliedWhole
<1>7. QED
  BY <1>4, <1>5, <1>6

\* A decision of an offered run that automation has not closed is the newest
\* about its person, and no worker is about to decide about that person.
LEMMA ClosedIsLast ==
    ASSUME TypeOK, Decided, late = {}, NEW i \in 1..Len(log),
           log[i].status # "superseded", run[log[i].run] \in Finished
    PROVE  /\ \A j \in 1..Len(log) : log[j].person = log[i].person => j <= i
           /\ \A w \in Workers : wpc[w] = "deciding" => log[i].person \notin todo[w]
<1>1. ~ Open(i)
  BY DEF Open
<1>2. \A w \in Workers : wpc[w] = "deciding" => log[i].person \notin todo[w]
  BY <1>1 DEF Decided
<1>3. \A j \in 1..Len(log) : log[j].person = log[i].person => j <= i
  BY <1>1 DEF Decided
<1>4. QED
  BY <1>2, <1>3

\* Saving a decision of an offered run disturbs nothing else.
LEMMA AmendFrame ==
    ASSUME TypeOK, OneActiveRun, Ownership, NotBegun, AppliedWhole, Decided,
           UNCHANGED <<run, workVars, late>>,
           NEW i \in 1..Len(log), NEW status \in Statuses,
           NEW overridden \in BOOLEAN, NEW created \in BOOLEAN,
           Amend(i, status, overridden, created),
           log[i].status # "superseded", run[log[i].run] \in Finished,
           status = "proposed" => overridden
    PROVE  OneActiveRun' /\ Ownership' /\ NotBegun' /\ AppliedWhole' /\ Decided'
<1>1. wpc' = wpc /\ wrun' = wrun /\ todo' = todo /\ late' = late /\ run' = run
  BY DEF workVars
<1>2. /\ Len(log') = Len(log)
      /\ \A k \in 1..Len(log) : k # i => log'[k] = log[k]
      /\ \A k \in 1..Len(log) :
            /\ log'[k].run = log[k].run /\ log'[k].person = log[k].person
            /\ log'[k].decision = log[k].decision
      /\ log'[i].status = status
      /\ log'[i].overridden = overridden
  BY AmendRow
<1>3. OneActiveRun' /\ Ownership'
  BY <1>1 DEF OneActiveRun, Ownership
<1>4. NotBegun'
  BY <1>1, <1>2 DEF NotBegun
<1>5. AppliedWhole'
  BY <1>1, <1>2 DEF AppliedWhole
<1>6. ASSUME late' = {} PROVE Decided'
  <2>1. /\ \A j \in 1..Len(log) : log[j].person = log[i].person => j <= i
        /\ \A w \in Workers : wpc[w] = "deciding" => log[i].person \notin todo[w]
    BY <1>1, <1>6, ClosedIsLast
  <2>2. \A k \in 1..Len(log) : k # i /\ Open(k) => Open(k)'
    BY <1>1, <1>2 DEF Open
  <2>3. \A w \in Workers, k \in 1..Len(log) :
          wpc[w] = "deciding" /\ log[k].person \in todo[w] => Open(k)' /\ log[k].run # wrun[w]
    BY <1>1, <1>6, <2>1, <2>2 DEF Decided
  <2>4. \A k, j \in 1..Len(log) :
          run[log[k].run] = "running" /\ log[k].person = log[j].person => j <= k
    BY <1>1, <1>6 DEF Decided
  <2>5. \A k, j \in 1..Len(log) : k < j /\ log[k].person = log[j].person => Open(k)'
    <3> SUFFICES ASSUME NEW k \in 1..Len(log), NEW j \in 1..Len(log),
                        k < j, log[k].person = log[j].person
                 PROVE  Open(k)'
      OBVIOUS
    <3>1. k # i
      BY <2>1
    <3>2. Open(k)
      BY <1>1, <1>6 DEF Decided
    <3>3. QED
      BY <2>2, <3>1, <3>2
  <2>6. QED
    BY <1>1, <1>2, <2>3, <2>4, <2>5 DEF Decided
<1>7. Decided'
  BY <1>6 DEF Decided
<1>8. QED
  BY <1>3, <1>4, <1>5, <1>7

-----------------------------------------------------------------------------
(* The runs: queued, claimed, decided, finished, reaped.                   *)

RunsInv == OneActiveRun /\ Ownership /\ NotBegun /\ Decided

\* Queueing and claiming touch a run that has no decisions and no worker.
LEMMA QueueRuns ==
    ASSUME AutopilotInv, NEW w, NEW r,
           StartRun \/ (w \in Workers /\ r \in Runs /\ ClaimRun(w, r))
    PROVE  RunsInv'
<1>0. /\ TypeOK /\ OneActiveRun /\ Ownership /\ NotBegun /\ Decided
      /\ RunTypes /\ WorkTypes
  BY TypeParts DEF AutopilotInv
<1>1. /\ \A i \in 1..Len(log) : log[i].run \in Runs /\ run[log[i].run] \notin {"none", "queued"}
      /\ \A v \in Workers : wrun[v] # None => wrun[v] \in Runs /\ run[wrun[v]] \notin {"none", "queued"}
  BY <1>0, RowTypes DEF NotBegun, Ownership, WorkTypes
<1>2. log' = log /\ late' = late
  BY DEF StartRun, ClaimRun, boundVars
<1>3. PICK q \in Runs, label \in {"queued", "running"} :
        /\ run[q] \in {"none", "queued"}
        /\ run' = [run EXCEPT ![q] = label]
        /\ \A s \in Runs : s # q => run[s] \notin ACTIVE_STATUSES
  <2>1. CASE StartRun
    BY <2>1 DEF StartRun
  <2>2. CASE w \in Workers /\ r \in Runs /\ ClaimRun(w, r)
    <3>1. \A s \in Runs : s # r => run[s] \notin ACTIVE_STATUSES
      BY <1>0, <2>2 DEF ClaimRun, OneActiveRun, ACTIVE_STATUSES
    <3>2. QED
      BY <2>2, <3>1 DEF ClaimRun
  <2>3. QED
    BY <2>1, <2>2
<1>4. OneActiveRun'
  BY <1>0, <1>3 DEF OneActiveRun, RunTypes
<1>5. \A s \in Runs : s # q => run'[s] = run[s]
  BY <1>0, <1>3 DEF RunTypes
<1>6. \A i \in 1..Len(log) : log[i].run # q /\ run'[log[i].run] = run[log[i].run]
  BY <1>1, <1>3, <1>5
<1>7. \A v \in Workers : wrun[v] # None => wrun[v] # q /\ run'[wrun[v]] = run[wrun[v]]
  BY <1>1, <1>3, <1>5
<1>8. \A i \in 1..Len(log) : Open(i) => Open(i)'
  BY <1>2, <1>6 DEF Open
<1>9. CASE StartRun
  <2>1. wpc' = wpc /\ wrun' = wrun /\ todo' = todo
    BY <1>9 DEF StartRun, workVars
  <2>2. Ownership'
    BY <1>0, <1>2, <1>7, <2>1 DEF Ownership
  <2>3. NotBegun'
    BY <1>0, <1>2, <1>6, <2>1 DEF NotBegun
  <2>4. Decided'
    BY <1>0, <1>2, <1>6, <1>8, <2>1 DEF Decided
  <2>5. QED
    BY <1>4, <2>2, <2>3, <2>4 DEF RunsInv
<1>10. CASE w \in Workers /\ r \in Runs /\ ClaimRun(w, r)
  <2>1. /\ wpc' = [wpc EXCEPT ![w] = "claimed"] /\ wrun' = [wrun EXCEPT ![w] = r]
        /\ todo' = [todo EXCEPT ![w] = {}]
    BY <1>10 DEF ClaimRun, Work
  <2>2. /\ run[r] = "queued" /\ run'[r] = "running" /\ None # r
    BY <1>0, <1>10, AutopilotAssumption DEF ClaimRun, RunTypes, Runs
  <2>3. \A v \in Workers : wrun[v] # r
    BY <1>1, <2>2
  <2>4. \A v \in Workers : v # w => wrun'[v] = wrun[v] /\ wpc'[v] = wpc[v] /\ todo'[v] = todo[v]
    BY <1>0, <2>1 DEF WorkTypes
  <2>5. wrun'[w] = r /\ wpc'[w] = "claimed"
    BY <1>0, <1>10, <2>1 DEF WorkTypes
  <2>6. Ownership'
    BY <1>0, <1>2, <1>7, <2>2, <2>3, <2>4, <2>5 DEF Ownership
  <2>7. NotBegun'
    <3>1. \A i \in 1..Len(log) : log[i].run # r
      BY <1>1, <2>2
    <3>2. QED
      BY <1>0, <1>2, <1>6, <2>4, <2>5, <3>1 DEF NotBegun
  <2>8. Decided'
    BY <1>0, <1>2, <1>6, <1>8, <2>4, <2>5 DEF Decided
  <2>9. QED
    BY <1>4, <2>6, <2>7, <2>8 DEF RunsInv
<1>11. QED
  BY <1>9, <1>10

\* While nothing was reaped alive, a worker's run is the one that runs.
LEMMA OneDecider ==
    ASSUME TypeOK, OneActiveRun, Ownership, late = {}, NEW w \in Workers, wrun[w] # None
    PROVE  /\ run[wrun[w]] = "running"
           /\ \A r \in Runs : run[r] = "running" => r = wrun[w]
           /\ \A v \in Workers : v # w => wrun[v] = None /\ wpc[v] = "idle"
<1>1. run[wrun[w]] = "running" /\ wrun[w] \in Runs
  BY DEF Ownership, TypeOK
<1>2. \A r \in Runs : run[r] = "running" => r = wrun[w]
  BY <1>1 DEF OneActiveRun, ACTIVE_STATUSES
<1>3. ASSUME NEW v \in Workers, v # w, wrun[v] # None PROVE FALSE
  <2>1. run[wrun[v]] = "running" /\ wrun[v] \in Runs
    BY <1>3 DEF Ownership, TypeOK
  <2>2. wrun[v] = wrun[w]
    BY <1>2, <2>1
  <2>3. QED
    BY <1>3, <2>2 DEF Ownership
<1>4. QED
  BY <1>1, <1>2, <1>3 DEF TypeOK

\* A card that may be decided carries no closed decision.
LEMMA CandidatesOpen ==
    ASSUME TypeOK, Decided, late = {}, NEW i \in 1..Len(log), log[i].person \in Candidates
    PROVE  Open(i)
<1>1. CASE \E j \in 1..Len(log) : i < j /\ log[i].person = log[j].person
  BY <1>1 DEF Decided
<1>2. CASE \A j \in 1..Len(log) : log[i].person = log[j].person => ~ (i < j)
  <2>1. IsLatest(i) /\ i \in Of(log[i].person)
    BY <1>2 DEF IsLatest, Of
  <2>2. QED
    BY <2>1 DEF Candidates, Open
<1>3. QED
  BY <1>1, <1>2

\* A worker that reads its cards.
LEMMA ReadRuns ==
    ASSUME AutopilotInv, NEW w \in Workers, ReadCards(w)
    PROVE  RunsInv'
<1>0. /\ TypeOK /\ OneActiveRun /\ Ownership /\ NotBegun /\ Decided
      /\ RunTypes /\ WorkTypes /\ wpc[w] = "claimed" /\ log' = log /\ late' = late
  BY TypeParts DEF AutopilotInv, ReadCards, boundVars
<1> DEFINE r == wrun[w]
<1>1. r \in Runs /\ r # None
  BY <1>0, AutopilotAssumption DEF WorkTypes, Runs
<1>2. \A i \in 1..Len(log) : log[i].run \in Runs /\ log[i].run # r
  BY <1>0, RowTypes DEF NotBegun
<1>3. CASE /\ \E cards \in SUBSET Candidates : Work(w, "deciding", r, cards)
           /\ run' = run
  <2>1. PICK cards \in SUBSET Candidates :
          /\ wpc' = [wpc EXCEPT ![w] = "deciding"] /\ wrun' = [wrun EXCEPT ![w] = r]
          /\ todo' = [todo EXCEPT ![w] = cards]
    BY <1>3 DEF Work
  <2>2. /\ wrun' = wrun
        /\ \A v \in Workers : v # w => wpc'[v] = wpc[v] /\ todo'[v] = todo[v]
        /\ wpc'[w] = "deciding" /\ todo'[w] = cards
    BY <1>0, <2>1 DEF WorkTypes
  <2>3. OneActiveRun' /\ Ownership'
    BY <1>0, <1>3, <2>2 DEF OneActiveRun, Ownership
  <2>4. NotBegun'
    BY <1>0, <1>3, <2>2 DEF NotBegun
  <2>5. ASSUME late' = {} PROVE Decided'
    <3>1. \A i \in 1..Len(log) : log[i].person \in cards => Open(i)
      BY <1>0, <2>5, CandidatesOpen
    <3>2. \A i \in 1..Len(log) : Open(i) => Open(i)'
      BY <1>0, <1>3 DEF Open
    <3>3. QED
      BY <1>0, <1>2, <1>3, <2>2, <2>5, <3>1, <3>2 DEF Decided
  <2>6. QED
    BY <2>3, <2>4, <2>5 DEF RunsInv, Decided
<1>4. CASE /\ Work(w, "idle", None, {})
           /\ run' = IF run[r] = "running" THEN [run EXCEPT ![r] = "reviewed"] ELSE run
  <2>1. /\ wpc' = [wpc EXCEPT ![w] = "idle"] /\ wrun' = [wrun EXCEPT ![w] = None]
        /\ todo' = [todo EXCEPT ![w] = {}]
    BY <1>4 DEF Work
  <2>2. /\ \A v \in Workers : v # w => wpc'[v] = wpc[v] /\ todo'[v] = todo[v] /\ wrun'[v] = wrun[v]
        /\ wpc'[w] = "idle" /\ wrun'[w] = None
    BY <1>0, <2>1 DEF WorkTypes
  <2>3. /\ \A s \in Runs : s # r => run'[s] = run[s]
        /\ run'[r] \notin ACTIVE_STATUSES \/ run'[r] = run[r]
    BY <1>0, <1>1, <1>4 DEF RunTypes, ACTIVE_STATUSES
  <2>4. OneActiveRun'
    BY <1>0, <2>3 DEF OneActiveRun
  <2>5. \A v \in Workers : v # w /\ wrun[v] # None => wrun[v] # r /\ wrun[v] \in Runs
    BY <1>0, <1>1 DEF Ownership, WorkTypes
  <2>6. Ownership'
    BY <1>0, <2>2, <2>3, <2>5 DEF Ownership
  <2>7. \A i \in 1..Len(log) : run'[log[i].run] = run[log[i].run]
    BY <1>2, <2>3
  <2>8. NotBegun'
    BY <1>0, <2>2, <2>7 DEF NotBegun
  <2>9. \A i \in 1..Len(log) : Open(i) => Open(i)'
    BY <1>0, <2>7 DEF Open
  <2>10. Decided'
    BY <1>0, <2>2, <2>7, <2>9 DEF Decided
  <2>11. QED
    BY <2>4, <2>6, <2>8, <2>10 DEF RunsInv
<1>5. QED
  BY <1>3, <1>4 DEF ReadCards

\* The run's last save.
LEMMA FinishRuns ==
    ASSUME AutopilotInv, NEW w \in Workers, FinishRun(w)
    PROVE  RunsInv'
<1>0. /\ TypeOK /\ OneActiveRun /\ Ownership /\ NotBegun /\ Decided
      /\ RunTypes /\ WorkTypes /\ wpc[w] = "deciding" /\ log' = log /\ late' = late
  BY TypeParts DEF AutopilotInv, FinishRun, boundVars
<1> DEFINE r == wrun[w]
<1>1. r \in Runs /\ r # None
  BY <1>0, AutopilotAssumption DEF WorkTypes, Runs
<1>2. /\ wpc' = [wpc EXCEPT ![w] = "idle"] /\ wrun' = [wrun EXCEPT ![w] = None]
      /\ todo' = [todo EXCEPT ![w] = {}]
  BY DEF FinishRun, Work
<1>3. /\ \A v \in Workers : v # w => wpc'[v] = wpc[v] /\ todo'[v] = todo[v] /\ wrun'[v] = wrun[v]
      /\ wpc'[w] = "idle" /\ wrun'[w] = None
  BY <1>0, <1>2 DEF WorkTypes
<1>4. /\ \A s \in Runs : s # r => run'[s] = run[s]
      /\ run'[r] \in {"reviewed", "failed"}
  BY <1>0, <1>1 DEF RunTypes, FinishRun
<1>5. OneActiveRun'
  BY <1>0, <1>4 DEF OneActiveRun, ACTIVE_STATUSES
<1>6. \A v \in Workers : v # w /\ wrun[v] # None => wrun[v] # r /\ wrun[v] \in Runs
  BY <1>0, <1>1 DEF Ownership, WorkTypes
<1>7. Ownership'
  BY <1>0, <1>3, <1>4, <1>6 DEF Ownership
<1>8. \A i \in 1..Len(log) : log[i].run \in Runs
  BY <1>0, RowTypes
<1>9. NotBegun'
  <2>1. \A i \in 1..Len(log) : run'[log[i].run] \notin {"none", "queued"}
    BY <1>0, <1>4, <1>8 DEF NotBegun
  <2>2. \A v \in Workers : v # w => (wpc'[v] = wpc[v] /\ wrun'[v] = wrun[v])
    BY <1>3
  <2>3. QED
    BY <1>0, <1>3, <2>1, <2>2 DEF NotBegun
<1>10. ASSUME late' = {} PROVE Decided'
  <2>1. /\ run[r] = "running"
        /\ \A v \in Workers : v # w => wpc[v] = "idle"
    BY <1>0, <1>1, <1>10, OneDecider
  <2>2. \A v \in Workers : wpc'[v] = "idle"
    BY <1>3, <2>1
  <2>3. \A i \in 1..Len(log) : run'[log[i].run] = "running" => run[log[i].run] = "running"
    BY <1>4, <1>8
  <2>4. \A i, j \in 1..Len(log) : i < j /\ log[i].person = log[j].person => log[i].run # r
    BY <1>0, <1>10, <2>1 DEF Decided
  <2>5. \A i \in 1..Len(log) : log[i].run # r /\ Open(i) => Open(i)'
    BY <1>0, <1>4, <1>8 DEF Open
  <2>6. QED
    BY <1>0, <1>10, <2>2, <2>3, <2>4, <2>5 DEF Decided
<1>11. QED
  BY <1>5, <1>7, <1>9, <1>10 DEF RunsInv, Decided

\* A worker is killed, or its run is given up.
LEMMA StopRuns ==
    ASSUME AutopilotInv, NEW w, NEW r,
           (w \in Workers /\ KillWorker(w)) \/ (r \in Runs /\ ReapStaleRun(r))
    PROVE  RunsInv'
<1>0. /\ TypeOK /\ OneActiveRun /\ Ownership /\ NotBegun /\ Decided
      /\ RunTypes /\ WorkTypes
  BY TypeParts DEF AutopilotInv
<1>1. log' = log
  BY DEF KillWorker, ReapStaleRun, runVars
<1>2. \A i \in 1..Len(log) : log[i].run \in Runs
  BY <1>0, RowTypes
<1>3. CASE w \in Workers /\ KillWorker(w)
  <2>1. /\ wpc' = [wpc EXCEPT ![w] = "idle"] /\ wrun' = [wrun EXCEPT ![w] = None]
        /\ todo' = [todo EXCEPT ![w] = {}] /\ run' = run /\ late' = late
    BY <1>3 DEF KillWorker, Work, runVars
  <2>2. /\ \A v \in Workers : v # w => wpc'[v] = wpc[v] /\ todo'[v] = todo[v] /\ wrun'[v] = wrun[v]
        /\ wpc'[w] = "idle" /\ wrun'[w] = None
    BY <1>0, <1>3, <2>1 DEF WorkTypes
  <2>3. OneActiveRun' /\ Ownership'
    BY <1>0, <2>1, <2>2 DEF OneActiveRun, Ownership
  <2>4. NotBegun'
    BY <1>0, <1>1, <2>1, <2>2 DEF NotBegun
  <2>5. \A i \in 1..Len(log) : Open(i) => Open(i)'
    BY <1>1, <2>1 DEF Open
  <2>6. Decided'
    BY <1>0, <1>1, <2>1, <2>2, <2>5 DEF Decided
  <2>7. QED
    BY <2>3, <2>4, <2>6 DEF RunsInv
<1>4. CASE r \in Runs /\ ReapStaleRun(r)
  <2>1. /\ run[r] = "running" /\ run' = [run EXCEPT ![r] = "failed"]
        /\ wpc' = wpc /\ wrun' = wrun /\ todo' = todo
        /\ (late' = late /\ Abandoned(r)) \/ late' = late \union {r}
    BY <1>4 DEF ReapStaleRun, workVars
  <2>2. run'[r] = "failed" /\ \A s \in Runs : s # r => run'[s] = run[s]
    BY <1>0, <1>4, <2>1 DEF RunTypes
  <2>3. OneActiveRun'
    BY <1>0, <2>2 DEF OneActiveRun, ACTIVE_STATUSES
  <2>4. \A v \in Workers : wrun[v] # None => wrun[v] \in Runs
    BY <1>0 DEF WorkTypes
  <2>5. Ownership'
    BY <1>0, <2>1, <2>2, <2>4 DEF Ownership, Abandoned
  <2>6. NotBegun'
    BY <1>0, <1>1, <1>2, <2>1, <2>2 DEF NotBegun
  <2>7. \A i \in 1..Len(log) : Open(i) => Open(i)'
    BY <1>1, <1>2, <2>2 DEF Open, Finished
  <2>8. \A i \in 1..Len(log) : run'[log[i].run] = "running" => run[log[i].run] = "running"
    BY <1>2, <2>2
  <2>9. late' = {} => late = {}
    BY <2>1
  <2>10. Decided'
    BY <1>0, <1>1, <2>1, <2>7, <2>8, <2>9 DEF Decided
  <2>11. QED
    BY <2>3, <2>5, <2>6, <2>10 DEF RunsInv
<1>5. QED
  BY <1>3, <1>4

\* A model call's row, at the end of the log.
LEMMA DecideKeeps ==
    ASSUME AutopilotInv, NEW w \in Workers, Decide(w)
    PROVE  RunsInv' /\ Batch' /\ Recorded' /\ AppliedWhole'
<1>0. /\ TypeOK /\ OneActiveRun /\ Ownership /\ NotBegun /\ Decided /\ Batch /\ Recorded /\ AppliedWhole
      /\ RunTypes /\ WorkTypes /\ ListTypes /\ wpc[w] = "deciding" /\ run' = run /\ late' = late
  BY TypeParts DEF AutopilotInv, Decide, boundVars
<1>1. PICK p \in todo[w], verdict \in {"accept", "escalate"} :
        /\ log' = Append(log, [run |-> wrun[w], person |-> p, decision |-> verdict,
                               status |-> "proposed", overridden |-> FALSE, created |-> FALSE])
        /\ Work(w, "deciding", wrun[w], todo[w] \ {p})
  BY DEF Decide
<1> DEFINE r == wrun[w]
           n == Len(log) + 1
           d == [run |-> wrun[w], person |-> p, decision |-> verdict,
                 status |-> "proposed", overridden |-> FALSE, created |-> FALSE]
<1>2. r \in Runs /\ r # None /\ p \in People
  BY <1>0, AutopilotAssumption DEF WorkTypes, Runs
<1>3. d \in Decisions /\ d.run = r /\ d.person = p /\ d.status = "proposed"
  BY <1>2 DEF Decisions
<1>4. log \in Seq(Decisions) /\ log' = Append(log, d)
  BY <1>0, <1>1 DEF RunTypes
<1> HIDE DEF d
<1>5. /\ Len(log) \in Nat /\ Len(log') = n
      /\ \A i \in 1..Len(log) : log'[i] = log[i]
      /\ log'[n].run = r /\ log'[n].person = p /\ log'[n].status = "proposed"
  BY <1>3, <1>4, AppendRow
<1>6. \A i \in 1..n : i # n => i \in 1..Len(log)
  BY <1>5
<1>7. /\ wrun' = wrun
      /\ \A v \in Workers : wpc'[v] = wpc[v]
      /\ \A v \in Workers : v # w => todo'[v] = todo[v]
      /\ todo'[w] = todo[w] \ {p}
  BY <1>0, <1>1 DEF Work, WorkTypes
<1>8. run[r] \in {"running", "failed"}
  BY <1>0, <1>2 DEF Ownership
<1>9. OneActiveRun' /\ Ownership'
  BY <1>0, <1>7 DEF OneActiveRun, Ownership
<1>10. NotBegun'
  <2>1. ASSUME NEW v \in Workers, wpc[v] = "claimed" PROVE wrun[v] # r
    BY <1>0, <1>2, <2>1 DEF Ownership
  <2>2. \A v \in Workers, i \in 1..n : wpc'[v] = "claimed" => log'[i].run # wrun'[v]
    BY <1>0, <1>5, <1>6, <1>7, <2>1 DEF NotBegun
  <2>3. \A i \in 1..n : run'[log'[i].run] \notin {"none", "queued"}
    BY <1>0, <1>5, <1>6, <1>8 DEF NotBegun
  <2>4. QED
    BY <1>5, <2>2, <2>3 DEF NotBegun
<1>11. tpc' = tpc /\ truns' = truns /\ list' = list /\ at' = at
  BY DEF Decide, tapVars
<1>12. r \notin truns /\ list \subseteq 1..Len(log)
  BY <1>0, <1>8 DEF Batch, ListTypes
<1>13. Batch'
  <2>1. \A i \in 1..n : log'[i].status # "proposed" => run'[log'[i].run] \in Finished
    BY <1>0, <1>5, <1>6 DEF Batch
  <2>2. \A i \in list' : log'[i].run \in truns'
    BY <1>0, <1>5, <1>11, <1>12 DEF Batch
  <2>3. QED
    BY <1>0, <1>5, <1>11, <2>1, <2>2 DEF Batch
<1>14. Recorded'
  BY <1>0, <1>5, <1>6, <1>11, <1>12 DEF Recorded
<1>15. AppliedWhole'
  BY <1>0, <1>5, <1>6, <1>8 DEF AppliedWhole
<1>16. ASSUME late' = {} PROVE Decided'
  <2>1. \A i \in 1..Len(log) : log[i].person \in todo[w] => Open(i) /\ log[i].run # r
    BY <1>0, <1>16 DEF Decided
  <2>2. /\ \A s \in Runs : run[s] = "running" => s = r
        /\ \A v \in Workers : v # w => wpc[v] = "idle"
    BY <1>0, <1>2, <1>16, OneDecider
  <2>3. \A i \in 1..Len(log) : Open(i) => Open(i)'
    BY <1>0, <1>5 DEF Open
  <2>4. \A i \in 1..Len(log) : log[i].run \in Runs
    BY <1>0, RowTypes
  <2>5. \A v \in Workers, i \in 1..n :
          wpc'[v] = "deciding" /\ log'[i].person \in todo'[v] => Open(i)' /\ log'[i].run # wrun'[v]
    BY <1>0, <1>5, <1>6, <1>7, <2>1, <2>2, <2>3
  <2>6. \A i, j \in 1..n :
          run'[log'[i].run] = "running" /\ log'[i].person = log'[j].person => j <= i
    <3> SUFFICES ASSUME NEW i \in 1..n, NEW j \in 1..n, run'[log'[i].run] = "running",
                        log'[i].person = log'[j].person
                 PROVE  j <= i
      OBVIOUS
    <3>1. CASE i = n
      BY <1>5, <3>1
    <3>2. CASE i # n /\ j = n
      BY <1>0, <1>5, <1>6, <2>1, <2>2, <2>4, <3>2
    <3>3. CASE i # n /\ j # n
      BY <1>0, <1>5, <1>6, <1>16, <3>3 DEF Decided
    <3>4. QED
      BY <3>1, <3>2, <3>3
  <2>7. \A i, j \in 1..n : i < j /\ log'[i].person = log'[j].person => Open(i)'
    <3> SUFFICES ASSUME NEW i \in 1..n, NEW j \in 1..n, i < j, log'[i].person = log'[j].person
                 PROVE  Open(i)'
      OBVIOUS
    <3>1. i \in 1..Len(log)
      BY <1>5
    <3>2. CASE j = n
      BY <1>5, <2>1, <2>3, <3>1, <3>2
    <3>3. CASE j # n
      BY <1>0, <1>5, <1>6, <1>16, <2>3, <3>1, <3>3 DEF Decided
    <3>4. QED
      BY <3>2, <3>3
  <2>8. QED
    BY <1>5, <2>5, <2>6, <2>7 DEF Decided
<1>17. QED
  BY <1>9, <1>10, <1>13, <1>14, <1>15, <1>16 DEF RunsInv, Decided

-----------------------------------------------------------------------------
(* The tap.                                                                *)

\* The apply loop's steps that leave runs and log alone.
LEMMA TapKeeps ==
    ASSUME AutopilotInv, NEW r, NEW i, NEW p,
           \/ r \in Runs /\ ApplyReviewed(r)
           \/ i \in list /\ AcceptDecision(i)
           \/ p \in People /\ AcceptCard(p)
           \/ LoadRun \/ Accept \/ Resolve \/ CrashTap
    PROVE  RunsInv' /\ AppliedWhole' /\ Batch' /\ Recorded'
<1>0. TypeOK /\ Batch /\ Recorded /\ ListTypes
  BY TypeParts DEF AutopilotInv
<1>1. UNCHANGED <<runVars, workVars, late>>
  BY Zenon DEF ApplyReviewed, LoadRun, AcceptDecision, AcceptCard, Accept, Resolve, CrashTap, boundVars
<1>2. run' = run /\ log' = log
  BY <1>1 DEF runVars
<1>3. RunsInv' /\ AppliedWhole'
  BY <1>1, RunsFrame DEF AutopilotInv, RunsInv
<1>4. tpc = "idle" => truns = {} /\ list = {} /\ at = 0
  BY <1>0 DEF Batch
<1>5. \A k \in 1..Len(log) : log[k].status # "proposed" => run[log[k].run] \in Finished
  BY <1>0 DEF Batch
<1>6. CASE r \in Runs /\ ApplyReviewed(r)
  <2>1. /\ tpc = "idle" /\ tpc' = "load" /\ list' = {} /\ at' = 0
        /\ \A s \in truns' : run[s] = "reviewed"
    BY <1>4, <1>6 DEF ApplyReviewed, Goto
  <2>2. QED
    BY <1>2, <1>3, <1>5, <2>1 DEF Batch, Recorded
<1>7. CASE LoadRun
  <2>1. PICK q \in truns :
          /\ \A s \in truns : q <= s
          /\ list' = {k \in 1..Len(log) : log[k].run = q /\ log[k].decision = "accept"
                                           /\ log[k].status = "proposed"}
    BY <1>7 DEF LoadRun
  <2>2. tpc' = "loop" /\ truns' = truns /\ at' = 0
    BY <1>0, <1>7 DEF LoadRun, Goto, Batch
  <2>3. truns \subseteq Int
    BY <1>0 DEF TypeOK, Runs
  <2>4. Batch'
    BY <1>0, <1>2, <1>5, <2>1, <2>2 DEF Batch
  <2>5. Recorded'
    <3> SUFFICES ASSUME NEW s \in truns, NEW k \in 1..Len(log), \A t \in truns : s <= t,
                        log[k].run = s, log[k].decision = "accept", log[k].status = "proposed"
                 PROVE  k \in list'
      BY <1>2, <2>2 DEF Recorded
    <3>1. s = q
      BY <2>1, <2>3
    <3>2. QED
      BY <2>1, <3>1
  <2>6. QED
    BY <1>3, <2>4, <2>5
<1>8. CASE i \in list /\ AcceptDecision(i)
  <2>1. /\ tpc = "loop" /\ tpc' = "accept" /\ at' = i
        /\ truns' = truns /\ list' = list
    BY <1>8 DEF AcceptDecision, BeginAccept, Goto
  <2>2. Batch'
    BY <1>0, <1>2, <1>8, <2>1 DEF Batch
  <2>3. Recorded'
    BY <1>0, <1>2, <2>1 DEF Recorded
  <2>4. QED
    BY <1>3, <2>2, <2>3
<1>9. CASE p \in People /\ AcceptCard(p)
  <2>1. tpc' = "accept" /\ at' = 0 /\ truns' = {} /\ list' = {}
    BY <1>4, <1>9 DEF AcceptCard, BeginAccept, Goto
  <2>2. QED
    BY <1>2, <1>3, <1>5, <2>1 DEF Batch, Recorded
<1>10. CASE Accept
  <2>1. tpc = "accept" /\ tpc' = "resolve" /\ at' = at /\ truns' = truns /\ list' = list
    BY <1>10 DEF Accept, Goto
  <2>2. Batch'
    BY <1>0, <1>2, <2>1 DEF Batch
  <2>3. Recorded'
    BY <1>0, <1>2, <2>1 DEF Recorded
  <2>4. QED
    BY <1>3, <2>2, <2>3
<1>11. CASE Resolve /\ at # 0
  <2>1. tpc = "resolve" /\ tpc' = "save" /\ at' = at /\ truns' = truns /\ list' = list
    BY <1>11 DEF Resolve, Goto
  <2>2. Batch'
    BY <1>0, <1>2, <1>11, <2>1 DEF Batch
  <2>3. Recorded'
    BY <1>0, <1>2, <2>1 DEF Recorded
  <2>4. QED
    BY <1>3, <2>2, <2>3
<1>12. CASE CrashTap \/ (Resolve /\ at = 0)
  <2>1. tpc' = "idle" /\ at' = 0 /\ truns' = {} /\ list' = {}
    BY <1>12 DEF CrashTap, Resolve, Idle
  <2>2. QED
    BY <1>2, <1>3, <1>5, <2>1 DEF Batch, Recorded
<1>13. QED
  BY <1>6, <1>7, <1>8, <1>9, <1>10, <1>11, <1>12

\* The oldest run of the batch is marked.
LEMMA ApplyRunKeeps ==
    ASSUME AutopilotInv, ApplyRun
    PROVE  RunsInv' /\ AppliedWhole' /\ Batch' /\ Recorded'
<1>0. /\ TypeOK /\ OneActiveRun /\ Ownership /\ NotBegun /\ Decided /\ Batch /\ Recorded /\ AppliedWhole
      /\ RunTypes /\ WorkTypes
  BY TypeParts DEF AutopilotInv
<1>1. PICK r \in truns :
        /\ \A s \in truns : r <= s
        /\ run' = [run EXCEPT ![r] = "applied"]
        /\ truns' = truns \ {r}
        /\ IF truns' = {} THEN Goto("idle") ELSE Goto("load")
  BY DEF ApplyRun
<1>2. /\ tpc = "loop" /\ list = {} /\ list' = list /\ at' = at
      /\ log' = log /\ wpc' = wpc /\ wrun' = wrun /\ todo' = todo /\ late' = late
  BY DEF ApplyRun, workVars, boundVars
<1>3. r \in Runs /\ run[r] = "reviewed"
  BY <1>0, <1>1 DEF TypeOK, Batch
<1>4. run'[r] = "applied" /\ \A s \in Runs : s # r => run'[s] = run[s]
  BY <1>0, <1>1, <1>3 DEF RunTypes
<1>5. \A i \in 1..Len(log) : log[i].run \in Runs
  BY <1>0, RowTypes
<1>6. OneActiveRun'
  BY <1>0, <1>4 DEF OneActiveRun, ACTIVE_STATUSES
<1>7. \A w \in Workers : wrun[w] # None => wrun[w] \in Runs /\ wrun[w] # r
  BY <1>0, <1>3 DEF Ownership, WorkTypes
<1>8. Ownership'
  BY <1>0, <1>2, <1>4, <1>7 DEF Ownership
<1>9. NotBegun'
  BY <1>0, <1>2, <1>4, <1>5 DEF NotBegun
<1>10. Decided'
  <2>1. \A i \in 1..Len(log) : Open(i) => Open(i)'
    BY <1>2, <1>3, <1>4, <1>5 DEF Open, Finished
  <2>2. \A i \in 1..Len(log) : run'[log[i].run] = "running" => run[log[i].run] = "running"
    BY <1>4, <1>5
  <2>3. QED
    BY <1>0, <1>2, <2>1, <2>2 DEF Decided
<1>11. AppliedWhole'
  <2>1. \A i \in 1..Len(log) :
          log[i].run = r /\ log[i].decision = "accept" /\ log[i].status = "proposed"
          => log[i].overridden
    BY <1>0, <1>1, <1>2 DEF Recorded
  <2>2. QED
    BY <1>0, <1>2, <1>4, <1>5, <2>1 DEF AppliedWhole
<1>12. tpc' \in {"idle", "load"} /\ (tpc' = "idle" => truns' = {})
  BY <1>1 DEF Goto
<1>13. Batch'
  <2>1. at = 0
    BY <1>0, <1>2 DEF Batch
  <2>2. \A s \in truns' : run'[s] = "reviewed"
    BY <1>0, <1>1, <1>4 DEF Batch, TypeOK
  <2>3. \A i \in 1..Len(log) : log[i].status # "proposed" => run'[log[i].run] \in Finished
    BY <1>0, <1>4, <1>5 DEF Batch, Finished
  <2>4. QED
    BY <1>2, <1>12, <2>1, <2>2, <2>3 DEF Batch
<1>14. Recorded'
  BY <1>12 DEF Recorded
<1>15. QED
  BY <1>6, <1>8, <1>9, <1>10, <1>11, <1>13, <1>14 DEF RunsInv

\* Saving one decision of the batch, or its undo.
LEMMA SaveKeeps ==
    ASSUME AutopilotInv, NEW i \in 1..Len(log),
           (i \in list /\ SkipResolved(i)) \/ SaveDecision \/ UndoDecision(i)
    PROVE  RunsInv' /\ AppliedWhole' /\ Batch' /\ Recorded'
<1>0. /\ TypeOK /\ OneActiveRun /\ Ownership /\ NotBegun /\ Decided /\ Batch /\ Recorded /\ AppliedWhole
      /\ TapTypes /\ ListTypes
  BY TypeParts DEF AutopilotInv
<1>1. run' = run /\ UNCHANGED workVars /\ late' = late
  BY DEF SkipResolved, SaveDecision, UndoDecision, boundVars
<1>2. \A k \in list : k \in 1..Len(log) /\ log[k].status = "proposed" /\ run[log[k].run] \in Finished
  BY <1>0 DEF Batch, ListTypes, Finished
<1>3. CASE i \in list /\ SkipResolved(i)
  <2>1. PICK status \in Statuses, overridden \in BOOLEAN :
          /\ Amend(i, status, overridden, log[i].created)
          /\ status = "superseded" \/ (status = "proposed" /\ overridden = TRUE)
    BY <1>0, <1>2, <1>3, RowTypes DEF SkipResolved, Statuses
  <2>2. log[i].created \in BOOLEAN
    BY <1>0, RowTypes
  <2>3. RunsInv' /\ AppliedWhole'
    BY <1>0, <1>1, <1>2, <1>3, <2>1, <2>2, AmendFrame DEF RunsInv
  <2>4. /\ Len(log') = Len(log)
        /\ \A k \in 1..Len(log) : k # i => log'[k] = log[k]
        /\ \A k \in 1..Len(log) : log'[k].run = log[k].run /\ log'[k].decision = log[k].decision
        /\ log'[i].status = status /\ log'[i].overridden = overridden
    BY <1>0, <2>1, <2>2, AmendRow
  <2>5. tpc = "loop" /\ tpc' = tpc /\ truns' = truns /\ list' = list \ {i} /\ at' = at
    BY <1>3 DEF SkipResolved
  <2>6. at = 0
    BY <1>0, <2>5 DEF Batch
  <2>7. \A k \in 1..Len(log) : log'[k].status # "proposed" => run[log[k].run] \in Finished
    BY <1>0, <1>2, <1>3, <2>4 DEF Batch
  <2>8. Batch'
    BY <1>0, <1>1, <1>2, <2>4, <2>5, <2>6, <2>7 DEF Batch
  <2>9. Recorded'
    BY <1>0, <2>1, <2>4, <2>5 DEF Recorded
  <2>10. QED
    BY <2>3, <2>8, <2>9
<1>4. CASE SaveDecision
  <2>1. tpc = "save" /\ at \in list /\ at \in 1..Len(log)
    BY <1>0, <1>2, <1>4 DEF SaveDecision, Batch
  <2>2. /\ log[at].created \in BOOLEAN /\ log[at].overridden \in BOOLEAN /\ made \in BOOLEAN
    BY <1>0, <2>1, RowTypes DEF TapTypes
  <2>3. PICK status \in Statuses, overridden \in BOOLEAN, created \in BOOLEAN :
          /\ Amend(at, status, overridden, created)
          /\ status = "applied" \/ (status = "proposed" /\ overridden = TRUE)
    BY <1>2, <1>4, <2>1, <2>2 DEF SaveDecision, Statuses
  <2>4. RunsInv' /\ AppliedWhole'
    BY <1>0, <1>1, <1>2, <2>1, <2>3, AmendFrame DEF RunsInv
  <2>5. /\ Len(log') = Len(log)
        /\ \A k \in 1..Len(log) : k # at => log'[k] = log[k]
        /\ \A k \in 1..Len(log) : log'[k].run = log[k].run /\ log'[k].decision = log[k].decision
        /\ log'[at].status = status /\ log'[at].overridden = overridden
    BY <1>0, <2>1, <2>3, AmendRow
  <2>6. tpc' = "loop" /\ truns' = truns /\ list' = list \ {at} /\ at' = 0
    BY <1>4 DEF SaveDecision, Goto
  <2>7. \A k \in 1..Len(log) : log'[k].status # "proposed" => run[log[k].run] \in Finished
    BY <1>0, <1>2, <2>1, <2>5 DEF Batch
  <2>8. Batch'
    BY <1>0, <1>1, <1>2, <2>5, <2>6, <2>7 DEF Batch
  <2>9. Recorded'
    BY <1>0, <2>1, <2>3, <2>5, <2>6 DEF Recorded
  <2>10. QED
    BY <2>4, <2>8, <2>9
<1>5. CASE UndoDecision(i)
  <2>1. Amend(i, "undone", TRUE, log[i].created) /\ tpc = "idle" /\ log[i].status = "applied"
    BY <1>5 DEF UndoDecision
  <2>2. log[i].created \in BOOLEAN /\ run[log[i].run] \in Finished
    BY <1>0, <2>1, RowTypes DEF Batch
  <2>3. RunsInv' /\ AppliedWhole'
    BY <1>0, <1>1, <2>1, <2>2, AmendFrame DEF RunsInv, Statuses
  <2>4. /\ Len(log') = Len(log)
        /\ \A k \in 1..Len(log) : k # i => log'[k] = log[k]
        /\ \A k \in 1..Len(log) : log'[k].run = log[k].run
    BY <1>0, <2>1, <2>2, AmendRow DEF Statuses
  <2>5. /\ tpc' = "idle" /\ truns' = {} /\ list' = {} /\ at' = 0
    BY <1>0, <1>5, <2>1 DEF UndoDecision, tapVars, Batch
  <2>6. \A k \in 1..Len(log) : log'[k].status # "proposed" => run[log[k].run] \in Finished
    BY <1>0, <2>2, <2>4 DEF Batch
  <2>7. QED
    BY <1>1, <2>3, <2>4, <2>5, <2>6 DEF Batch, Recorded
<1>6. QED
  BY <1>3, <1>4, <1>5

\* Only accept makes a contact, and it looks before.
LEMMA NoDuplicateStep ==
    ASSUME TypeOK, NoDuplicate, [Next]_vars
    PROVE  NoDuplicate'
<1>1. contacts \in [People -> Nat] /\ who \in People
  BY DEF TypeOK
<1>2. \A i \in 1..Len(log) : log[i].person \in People
  BY RowTypes
<1>3. CASE Accept
  BY <1>1, <1>3 DEF Accept, NoDuplicate
<1>4. ASSUME NEW i \in 1..Len(log), UndoDecision(i) PROVE NoDuplicate'
  <2>1. PICK gone \in {0, 1} : contacts' = [contacts EXCEPT ![log[i].person] = @ - gone]
    BY <1>4 DEF UndoDecision
  <2>2. QED
    BY <1>1, <1>2, <2>1 DEF NoDuplicate
<1>5. contacts' = contacts \/ Accept \/ \E i \in 1..Len(log) : UndoDecision(i)
  BY Zenon DEF Next, WorkerStep, UserStep, ApplyStep, vars, cardVars,
     ClaimRun, ReadCards, Decide, FinishRun, KillWorker, ReapStaleRun, ApplyReviewed,
     AcceptCard, DismissCard, RestoreCard, Archive, UndoFact, DismissFact, Withdraw, WriteFact,
     KillSync, StartRun, SkipResolved, AcceptDecision, LoadRun, ApplyRun, Resolve, SaveDecision, CrashTap
<1>6. QED
  BY <1>3, <1>4, <1>5 DEF NoDuplicate

-----------------------------------------------------------------------------
(* The invariant.                                                          *)

\* It holds at first.
LEMMA AutopilotInit == Init => AutopilotInv
<1> SUFFICES ASSUME Init PROVE AutopilotInv
  OBVIOUS
<1>1. log = <<>> /\ Len(log) = 0
  BY DEF Init
<1>2. \A i \in 1..Len(log) : FALSE
  BY <1>1
<1>3. RunTypes /\ CardTypes /\ WorkTypes
  BY <1>1, AutopilotAssumption DEF Init, RunTypes, CardTypes, CardStatuses, WorkTypes
<1>4. TapTypes /\ ListTypes /\ BoundTypes
  <2>1. TapTypes
    BY DEF Init, TapTypes, CardStatuses
  <2>2. ListTypes
    BY <1>1 DEF Init, ListTypes
  <2>3. BoundTypes
    BY DEF Init, BoundTypes
  <2>4. QED
    BY <2>1, <2>2, <2>3
<1>5. TypeOK
  BY <1>3, <1>4, TypeParts
<1>6. OneActiveRun /\ Ownership
  BY DEF Init, OneActiveRun, Ownership, ACTIVE_STATUSES
<1>7. NotBegun /\ Batch /\ Recorded
  BY <1>2 DEF Init, NotBegun, Batch, Recorded
<1>8. AppliedWhole /\ NoDuplicate
  BY <1>2 DEF Init, AppliedWhole, NoDuplicate
<1>9. Decided
  BY <1>2 DEF Decided
<1>10. QED
  BY <1>5, <1>6, <1>7, <1>8, <1>9 DEF AutopilotInv

\* The steps that leave the log and every offered run alone.
LEMMA OfferedKeep ==
    ASSUME AutopilotInv, NEW w, NEW r,
           \/ StartRun
           \/ r \in Runs /\ ReapStaleRun(r)
           \/ w \in Workers /\ r \in Runs /\ ClaimRun(w, r)
           \/ w \in Workers /\ (ReadCards(w) \/ FinishRun(w) \/ KillWorker(w))
    PROVE  RunsInv' /\ Batch' /\ Recorded' /\ AppliedWhole'
<1>0. TypeOK /\ Ownership /\ Batch /\ Recorded /\ AppliedWhole /\ RunTypes /\ WorkTypes
  BY TypeParts DEF AutopilotInv
<1>1. log' = log /\ UNCHANGED tapVars
  BY DEF StartRun, ClaimRun, ReadCards, FinishRun, KillWorker, ReapStaleRun, runVars
<1>2. run' = run \/ \E q \in Runs, label \in {"queued", "running", "reviewed", "failed"} :
        run[q] \in {"none", "queued", "running", "failed"} /\ run' = [run EXCEPT ![q] = label]
  <2>1. w \in Workers /\ wrun[w] # None => wrun[w] \in Runs /\ run[wrun[w]] \in {"running", "failed"}
    BY <1>0 DEF Ownership, WorkTypes
  <2>2. w \in Workers /\ wpc[w] # "idle" => wrun[w] # None
    BY <1>0 DEF WorkTypes
  <2>3. CASE StartRun
    BY <2>3 DEF StartRun
  <2>4. CASE w \in Workers /\ r \in Runs /\ ClaimRun(w, r)
    BY <2>4 DEF ClaimRun
  <2>5. CASE w \in Workers /\ ReadCards(w)
    BY <2>1, <2>2, <2>5 DEF ReadCards
  <2>6. CASE w \in Workers /\ FinishRun(w)
    BY <2>1, <2>2, <2>6 DEF FinishRun
  <2>7. CASE w \in Workers /\ KillWorker(w)
    BY <2>7 DEF KillWorker, runVars
  <2>8. CASE r \in Runs /\ ReapStaleRun(r)
    BY <2>8 DEF ReapStaleRun
  <2>9. QED
    BY <2>3, <2>4, <2>5, <2>6, <2>7, <2>8
<1>3. \A s \in Runs : (run[s] \in Finished => run'[s] = run[s]) /\ (run'[s] = "applied" => run[s] = "applied")
  BY <1>0, <1>2 DEF RunTypes, Finished
<1>4. Batch' /\ Recorded' /\ AppliedWhole'
  BY <1>0, <1>1, <1>3, BatchFrame
<1>5. RunsInv'
  BY QueueRuns, ReadRuns, FinishRuns, StopRuns
<1>6. QED
  BY <1>4, <1>5

\* The steps on cards and facts.
LEMMA CardsKeep ==
    ASSUME AutopilotInv, NEW p \in People,
           \/ DismissCard(p) \/ RestoreCard(p) \/ Archive(p) \/ Withdraw(p) \/ WriteFact(p)
           \/ KillSync(p) \/ UndoFact(p) \/ DismissFact(p)
    PROVE  RunsInv' /\ Batch' /\ Recorded' /\ AppliedWhole'
<1>1. UNCHANGED <<runVars, workVars, tapVars, late>>
  BY Zenon DEF DismissCard, RestoreCard, Archive, Withdraw, WriteFact, KillSync, UndoFact,
               DismissFact, boundVars
<1>2. log' = log /\ run' = run
  BY <1>1 DEF runVars
<1>3. RunsInv' /\ AppliedWhole'
  BY <1>1, RunsFrame DEF AutopilotInv, RunsInv
<1>4. Batch' /\ Recorded'
  BY <1>1, <1>2, BatchFrame DEF AutopilotInv
<1>5. QED
  BY <1>3, <1>4

\* Every step keeps the invariant.
LEMMA AutopilotStep == AutopilotInv /\ [Next]_vars => AutopilotInv'
<1> SUFFICES ASSUME AutopilotInv, [Next]_vars PROVE AutopilotInv'
  OBVIOUS
<1>0. TypeOK /\ Batch /\ NoDuplicate
  BY DEF AutopilotInv
<1>1. NoDuplicate'
  BY <1>0, NoDuplicateStep
<1>2. SUFFICES TypeOK' /\ RunsInv' /\ Batch' /\ Recorded' /\ AppliedWhole'
  BY <1>1 DEF AutopilotInv, RunsInv
<1> DEFINE Kept == TypeOK' /\ RunsInv' /\ Batch' /\ Recorded' /\ AppliedWhole'
<1>3. ASSUME NEW w \in Workers, (\E r \in Runs : ClaimRun(w, r)) \/ KillWorker(w) PROVE Kept
  <2>1. PICK r : (r \in Runs /\ ClaimRun(w, r)) \/ KillWorker(w)
    BY <1>3
  <2>2. TypeOK'
    BY <1>0, <2>1, WorkTypesStep
  <2>3. QED
    BY <2>1, <2>2, OfferedKeep
<1>4. ASSUME NEW w \in Workers, WorkerStep(w) PROVE Kept
  <2>1. TypeOK'
    BY <1>0, <1>4, WorkTypesStep DEF WorkerStep
  <2>2. CASE Decide(w)
    BY <2>1, <2>2, DecideKeeps
  <2>3. CASE ReadCards(w) \/ FinishRun(w)
    BY <2>1, <2>3, OfferedKeep
  <2>4. QED
    BY <1>4, <2>2, <2>3 DEF WorkerStep
<1>5. ASSUME StartRun \/ \E r \in Runs : ReapStaleRun(r) PROVE Kept
  <2>1. PICK r : StartRun \/ (r \in Runs /\ ReapStaleRun(r))
    BY <1>5
  <2>2. TypeOK'
    BY <1>0, <2>1, WorkTypesStep
  <2>3. QED
    BY <2>1, <2>2, OfferedKeep
<1>6. ASSUME NEW r \in Runs, ApplyReviewed(r) PROVE Kept
  <2>1. TypeOK'
    BY <1>0, <1>6, TapTypesStep
  <2>2. QED
    BY <1>6, <2>1, TapKeeps
<1>7. ASSUME NEW p \in People, UserStep(p) \/ Withdraw(p) \/ WriteFact(p) \/ KillSync(p) PROVE Kept
  <2>1. CASE AcceptCard(p)
    <3>1. TypeOK'
      BY <1>0, <2>1, TapTypesStep
    <3>2. QED
      BY <2>1, <3>1, TapKeeps
  <2>2. CASE \/ DismissCard(p) \/ RestoreCard(p) \/ Archive(p) \/ Withdraw(p) \/ WriteFact(p)
             \/ KillSync(p) \/ UndoFact(p) \/ DismissFact(p)
    <3>1. TypeOK'
      BY <1>0, <2>2, CardTypesStep
    <3>2. QED
      BY <2>2, <3>1, CardsKeep
  <2>3. QED
    BY <1>7, <2>1, <2>2 DEF UserStep
<1>8. ASSUME NEW i \in 1..Len(log), (i \in list /\ SkipResolved(i)) \/ SaveDecision \/ UndoDecision(i)
      PROVE  Kept
  <2>1. TypeOK'
    BY <1>0, <1>8, SaveTypesStep
  <2>2. QED
    BY <1>8, <2>1, SaveKeeps
<1>9. ASSUME \/ \E i \in list : AcceptDecision(i)
             \/ LoadRun \/ Accept \/ Resolve \/ CrashTap
      PROVE  Kept
  <2>1. PICK i : \/ i \in list /\ AcceptDecision(i)
                 \/ LoadRun \/ Accept \/ Resolve \/ CrashTap
    BY <1>9
  <2>2. TypeOK'
    BY <1>0, <2>1, TapTypesStep
  <2>3. QED
    BY <2>1, <2>2, TapKeeps
<1>10. ASSUME ApplyRun PROVE Kept
  <2>1. TypeOK'
    BY <1>0, <1>10, TapTypesStep
  <2>2. QED
    BY <1>10, <2>1, ApplyRunKeeps
<1>11. ASSUME SaveDecision PROVE Kept
  <2>1. at \in 1..Len(log)
    BY <1>0, <1>11 DEF SaveDecision, Batch, TypeOK
  <2>2. QED
    BY <1>8, <1>11, <2>1
<1>12. ASSUME NEW i \in list, SkipResolved(i) PROVE Kept
  <2>1. i \in 1..Len(log)
    BY <1>0 DEF TypeOK
  <2>2. QED
    BY <1>8, <1>12, <2>1
<1>13. ASSUME UNCHANGED vars PROVE Kept
  <2>1. UNCHANGED <<runVars, cardVars, workVars, tapVars, boundVars>>
    BY <1>13 DEF vars
  <2>2. RunTypes' /\ CardTypes' /\ WorkTypes' /\ TapTypes' /\ ListTypes' /\ BoundTypes'
    BY <1>0, <2>1, TypeParts DEF runVars, cardVars, workVars, tapVars, boundVars,
       RunTypes, CardTypes, WorkTypes, TapTypes, ListTypes, BoundTypes
  <2>3. TypeOK'
    BY <2>2, TypePartsNext
  <2>4. RunsInv' /\ AppliedWhole'
    BY <2>1, RunsFrame DEF boundVars, AutopilotInv, RunsInv
  <2>5. Batch' /\ Recorded'
    BY <2>1, BatchFrame DEF runVars, AutopilotInv
  <2>6. QED
    BY <2>3, <2>4, <2>5
<1> HIDE DEF Kept
<1>14. Kept
  BY <1>3, <1>4, <1>5, <1>6, <1>7, <1>8, <1>9, <1>10, <1>11, <1>12, <1>13 DEF Next, ApplyStep
<1>15. QED
  BY <1>14 DEF Kept

\* The invariant is one of the specification.
LEMMA AutopilotInvariant == Safety => []AutopilotInv
  BY AutopilotInit, AutopilotStep, PTL DEF Safety

\* Every reachable state is well typed; a decision that waits in a batch is
\* proposed, and a busy worker has a run.
THEOREM TypeCorrect == Safety => []TypeOK
<1>1. AutopilotInv => TypeOK
  BY DEF AutopilotInv
<1>2. QED
  BY <1>1, AutopilotInvariant, PTL

\* At most one run of the user is queued or being decided.
THEOREM OneActiveRunHolds == Safety => []OneActiveRun
<1>1. AutopilotInv => OneActiveRun
  BY DEF AutopilotInv
<1>2. QED
  BY <1>1, AutopilotInvariant, PTL

\* A run marked applied has every accepted decision recorded, whatever was
\* killed on the way.
THEOREM AppliedWholeHolds == Safety => []AppliedWhole
<1>1. AutopilotInv => AppliedWhole
  BY DEF AutopilotInv
<1>2. QED
  BY <1>1, AutopilotInvariant, PTL

\* No repeated tap makes a second contact of a person.
THEOREM NoDuplicateHolds == Safety => []NoDuplicate
<1>1. AutopilotInv => NoDuplicate
  BY DEF AutopilotInv
<1>2. QED
  BY <1>1, AutopilotInvariant, PTL

\* Of two decisions about a person in finished runs, the older is superseded.
THEOREM DecidedOnceHolds == Safety => []DecidedOnce
<1>1. AutopilotInv => DecidedOnce
  BY DEF AutopilotInv, Decided, DecidedOnce, Open
<1>2. QED
  BY <1>1, AutopilotInvariant, PTL

\* Nobody decides about a person whose decision the user has overridden.
THEOREM OverrideIsFinalHolds == Safety => OverrideIsFinal
<1> DEFINE Final == late' = {} /\ Len(log') > Len(log) =>
                      \A i \in Of(log'[Len(log')].person) : ~ log[i].overridden
<1>1. AutopilotInv /\ [Next]_vars => Final
  <2> SUFFICES ASSUME AutopilotInv, [Next]_vars, late' = {}, Len(log') > Len(log),
                      NEW i \in Of(log'[Len(log')].person)
               PROVE  ~ log[i].overridden
    OBVIOUS
  <2>0. TypeOK /\ Decided /\ log \in Seq(Decisions)
    BY DEF AutopilotInv, TypeOK
  <2>1. Len(log) \in Nat
    BY <2>0
  <2>2. \/ log' = log
        \/ \E w \in Workers : Decide(w)
        \/ \E k \in list : SkipResolved(k)
        \/ \E k \in 1..Len(log) : UndoDecision(k)
        \/ SaveDecision
    BY Zenon DEF Next, WorkerStep, UserStep, ApplyStep, vars, runVars,
       ClaimRun, ReadCards, FinishRun, KillWorker, ReapStaleRun, ApplyReviewed,
       AcceptCard, DismissCard, RestoreCard, Archive, UndoFact, DismissFact, Withdraw, WriteFact,
       KillSync, StartRun, AcceptDecision, LoadRun, ApplyRun, Accept, Resolve, CrashTap
  <2>3. ASSUME NEW k \in 1..Len(log), NEW status \in Statuses, NEW overridden \in BOOLEAN,
               NEW created \in BOOLEAN, Amend(k, status, overridden, created)
        PROVE  FALSE
    BY <2>0, <2>1, <2>3, AmendRow
  <2>4. \A k \in 1..Len(log) :
          /\ log[k].status \in Statuses /\ log[k].overridden \in BOOLEAN
          /\ log[k].created \in BOOLEAN
    BY <2>0, RowTypes
  <2>5. list \subseteq 1..Len(log) /\ made \in BOOLEAN
    BY <2>0 DEF TypeOK
  <2>6. ~ \E k \in list : SkipResolved(k)
    BY <2>3, <2>4, <2>5 DEF SkipResolved, Statuses
  <2>7. ~ \E k \in 1..Len(log) : UndoDecision(k)
    BY <2>3, <2>4 DEF UndoDecision, Statuses
  <2>8. ~ SaveDecision
    <3>1. SaveDecision => at \in 1..Len(log)
      BY <2>5 DEF SaveDecision, AutopilotInv, Batch
    <3>2. QED
      BY <2>3, <2>4, <2>5, <3>1 DEF SaveDecision, Statuses
  <2>9. PICK w \in Workers : Decide(w)
    BY <2>1, <2>2, <2>6, <2>7, <2>8
  <2>10. PICK p \in todo[w], verdict \in {"accept", "escalate"} :
           log' = Append(log, [run |-> wrun[w], person |-> p, decision |-> verdict,
                               status |-> "proposed", overridden |-> FALSE, created |-> FALSE])
    BY <2>9 DEF Decide
  <2>11. log'[Len(log')].person = p
    BY <2>0, <2>1, <2>10
  <2>12. i \in 1..Len(log) /\ log[i].person \in todo[w]
    BY <2>11 DEF Of
  <2>13. late = {} /\ wpc[w] = "deciding"
    BY <2>9 DEF Decide, boundVars
  <2>14. QED
    BY <2>0, <2>12, <2>13 DEF Decided, Open
<1>2. QED
  BY <1>1, AutopilotInvariant, PTL DEF Safety, OverrideIsFinal
=============================================================================
