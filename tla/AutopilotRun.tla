---------------------------- MODULE AutopilotRun ----------------------------
(***************************************************************************)
(* Autopilot over one user's contact proposals (capture/autopilot.py and    *)
(* discovery.accept): the tap that queues a run, the cron worker that       *)
(* claims it and decides the pending cards one model call at a time, the    *)
(* reaper, the tap that applies what was decided, undo -- and the user's    *)
(* own taps on the same cards.  Nothing here is one transaction: every save *)
(* commits by itself, so the worker and the apply loop are split at each.   *)
(***************************************************************************)
EXTENDS Integers, Sequences, FiniteSets

CONSTANTS
    People,         \* each with one proposal
    MaxRuns,        \* bound: runs ever queued
    Workers,        \* worker ticks that may overlap
    None,           \* no run
    MaxKills,       \* bound: workers and syncs killed
    MaxCrashes,     \* bound: requests killed
    MaxLate         \* bound: runs reaped while their worker was alive

ASSUME AutopilotAssumption ==
    /\ IsFiniteSet(People)
    /\ {MaxRuns, MaxKills, MaxCrashes, MaxLate} \subseteq Nat
    /\ None \notin Int

Runs == 1..MaxRuns

VARIABLES
    run,        \* AutopilotRun.status, "none" before the row exists
    log,        \* the AutopilotDecision rows, in the order they were created
    card,       \* ContactProposal.status
    fact,       \* the mail fact that withdrew the card: "due" until its row is written
    contacts,   \* how many contacts the person is
    archived,   \* people whose contact the user has archived
    own,        \* people about whom the user has acted by hand
    wpc, wrun,  \* each worker and the run it has claimed
    todo,       \* the cards it still has to decide
    tpc,        \* where the user's request is
    truns,      \* the reviewed runs it is to apply
    list, seen, \* the decisions it loaded, and their cards' statuses then
    at,         \* the decision it is at, 0 for a tap on a card
    who, made,  \* the person, and whether accept created the contact
    kills, crashes,
    late        \* runs reaped while their worker was alive

runVars == <<run, log>>
cardVars == <<card, fact, contacts, archived, own>>
workVars == <<wpc, wrun, todo>>
tapVars == <<tpc, truns, list, seen, at, who, made>>
boundVars == <<kills, crashes, late>>
vars == <<runVars, cardVars, workVars, tapVars, boundVars>>

ACTIVE_STATUSES == {"queued", "running"}
Finished == {"reviewed", "applied"}

Init ==
    /\ run = [r \in Runs |-> "none"]
    /\ log = <<>>
    /\ card = [p \in People |-> "pending"]
    /\ fact = [p \in People |-> "none"]
    /\ contacts = [p \in People |-> 0]
    /\ archived = {} /\ own = {}
    /\ wpc = [w \in Workers |-> "idle"]
    /\ wrun = [w \in Workers |-> None]
    /\ todo = [w \in Workers |-> {}]
    /\ tpc = "idle" /\ truns = {} /\ list = {} /\ at = 0
    /\ seen = [p \in People |-> "pending"]
    /\ who \in People /\ made = FALSE
    /\ kills = 0 /\ crashes = 0 /\ late = {}

-----------------------------------------------------------------------------
(* Deciding.                                                               *)

\* A save of a decision's row.
Amend(i, status, overridden, created) ==
    log' = [log EXCEPT ![i] = [run |-> @.run, person |-> @.person, decision |-> @.decision,
                status |-> status, overridden |-> overridden, created |-> created]]

Of(p) == {i \in 1..Len(log) : log[i].person = p}
IsLatest(i) == i \in Of(log[i].person) /\ \A j \in Of(log[i].person) : j <= i

\* Mutant of Candidates: only a run that waits for its tap keeps its rows.
CandidatesWaiting ==
    {p \in People : card[p] = "pending" /\ \A i \in Of(p) :
        IsLatest(i) => run[log[i].run] # "reviewed"}

\* The pending cards _skip_reason lets through: the latest decision is
\* neither overridden nor, unless superseded, one of a finished run.
Candidates ==
    {p \in People : card[p] = "pending" /\ \A i \in Of(p) :
        IsLatest(i) => /\ ~ log[i].overridden
                       /\ log[i].status = "superseded" \/ run[log[i].run] \notin Finished}

\* Mutant of StartRun: a run that is being decided does not count.
StartBesideRunning ==
    /\ tpc = "idle"
    /\ \A r \in Runs : run[r] # "queued"
    /\ Candidates # {}
    /\ \E r \in Runs :
        /\ run[r] = "none" /\ \A s \in Runs : s < r => run[s] # "none"
        /\ run' = [run EXCEPT ![r] = "queued"]
    /\ UNCHANGED <<log, cardVars, workVars, tapVars, boundVars>>

\* start_run: refused beside an active run, by the preview or by the unique
\* constraint, and when there is nothing to decide.  The reaping it begins with
\* commits by itself: a ReapStaleRun before this.
StartRun ==
    /\ tpc = "idle"
    /\ \A r \in Runs : run[r] \notin ACTIVE_STATUSES
    /\ Candidates # {}
    /\ \E r \in Runs :
        /\ run[r] = "none" /\ \A s \in Runs : s < r => run[s] # "none"
        /\ run' = [run EXCEPT ![r] = "queued"]
    /\ UNCHANGED <<log, cardVars, workVars, tapVars, boundVars>>

Work(w, label, r, cards) ==
    /\ wpc' = [wpc EXCEPT ![w] = label]
    /\ wrun' = [wrun EXCEPT ![w] = r]
    /\ todo' = [todo EXCEPT ![w] = cards]

\* claim_run: compare and set.
ClaimRun(w, r) ==
    /\ wpc[w] = "idle"
    /\ run[r] = "queued"
    /\ run' = [run EXCEPT ![r] = "running"]
    /\ Work(w, "claimed", r, {})
    /\ UNCHANGED <<log, cardVars, tapVars, boundVars>>

\* run_autopilot reads the cards and decisions once.  What the budget does
\* not cover is deferred; without a pending card the run ends at once.
ReadCards(w) ==
    /\ wpc[w] = "claimed"
    /\ IF \E p \in People : card[p] = "pending"
       THEN /\ \E cards \in SUBSET Candidates : Work(w, "deciding", wrun[w], cards)
            /\ UNCHANGED run
       ELSE /\ Work(w, "idle", None, {})
            /\ run' = IF run[wrun[w]] = "running" THEN [run EXCEPT ![wrun[w]] = "reviewed"] ELSE run
    /\ UNCHANGED <<log, cardVars, tapVars, boundVars>>

\* One model call and its row.  The card is not read again.
Decide(w) ==
    /\ wpc[w] = "deciding"
    /\ \E p \in todo[w], verdict \in {"accept", "escalate"} :
        /\ log' = Append(log, [run |-> wrun[w], person |-> p, decision |-> verdict,
                               status |-> "proposed", overridden |-> FALSE, created |-> FALSE])
        /\ Work(w, "deciding", wrun[w], todo[w] \ {p})
    /\ UNCHANGED <<run, cardVars, tapVars, boundVars>>

\* The run's last save, whatever its status has become since: reviewed when
\* every card is decided, failed when the model or the loop broke.
FinishRun(w) ==
    /\ wpc[w] = "deciding"
    /\ \/ todo[w] = {} /\ run' = [run EXCEPT ![wrun[w]] = "reviewed"]
       \/ run' = [run EXCEPT ![wrun[w]] = "failed"]
    /\ Work(w, "idle", None, {})
    /\ UNCHANGED <<log, cardVars, tapVars, boundVars>>

KillWorker(w) ==
    /\ wpc[w] # "idle"
    /\ kills < MaxKills /\ kills' = kills + 1
    /\ Work(w, "idle", None, {})
    /\ UNCHANGED <<runVars, cardVars, tapVars, crashes, late>>

Abandoned(r) == \A w \in Workers : wrun[w] # r

\* Mutant of ReapStaleRun: the wait in the queue is what goes stale.
ReapQueued(r) ==
    /\ run[r] = "queued"
    /\ Abandoned(r)
    /\ late' = late
    /\ run' = [run EXCEPT ![r] = "failed"]
    /\ UNCHANGED <<log, cardVars, workVars, tapVars, kills, crashes>>

\* reap_stale_runs: half an hour after the claim a run counts as abandoned.
ReapStaleRun(r) ==
    /\ run[r] = "running"
    /\ IF Abandoned(r) THEN late' = late
       ELSE Cardinality(late) < MaxLate /\ late' = late \union {r}
    /\ run' = [run EXCEPT ![r] = "failed"]
    /\ UNCHANGED <<log, cardVars, workVars, tapVars, kills, crashes>>

-----------------------------------------------------------------------------
(* The user's requests, one at a time.                                     *)

Goto(label) == tpc' = label
Idle == tpc' = "idle" /\ truns' = {} /\ list' = {} /\ at' = 0 /\ made' = FALSE
          /\ UNCHANGED <<seen, who>>

\* "Add all": apply_reviewed_through the newest run the strip disclosed.
ApplyReviewed(r) ==
    /\ tpc = "idle" /\ run[r] = "reviewed"
    /\ truns' = {s \in Runs : s <= r /\ run[s] = "reviewed"}
    /\ Goto("load")
    /\ UNCHANGED <<runVars, cardVars, workVars, list, seen, at, who, made, boundVars>>

\* Mutant of LoadRun: decisions already applied are taken again.
LoadRunWhole ==
    /\ tpc = "load"
    /\ \E r \in truns :
        /\ \A s \in truns : r <= s
        /\ list' = {i \in 1..Len(log) : log[i].run = r /\ log[i].decision = "accept"}
    /\ seen' = card
    /\ Goto("loop")
    /\ UNCHANGED <<runVars, cardVars, workVars, truns, at, who, made, boundVars>>

\* Oldest run first: its accepted, proposed decisions, with their cards.
LoadRun ==
    /\ tpc = "load"
    /\ \E r \in truns :
        /\ \A s \in truns : r <= s
        /\ list' = {i \in 1..Len(log) : log[i].run = r /\ log[i].decision = "accept"
                                          /\ log[i].status = "proposed"}
    /\ seen' = card
    /\ Goto("loop")
    /\ UNCHANGED <<runVars, cardVars, workVars, truns, at, who, made, boundVars>>

\* Mutant of ApplyRun: the run is marked while decisions are still to do.
ApplyRunEarly ==
    /\ tpc = "loop" /\ list # {}
    /\ \E r \in truns :
        /\ \A s \in truns : r <= s
        /\ run' = [run EXCEPT ![r] = "applied"]
        /\ truns' = truns \ {r}
        /\ IF truns' = {} THEN Goto("idle") ELSE Goto("load")
    /\ UNCHANGED <<log, cardVars, workVars, list, seen, at, who, made, boundVars>>

\* The batch is through: the run is applied; on to the next one.
ApplyRun ==
    /\ tpc = "loop" /\ list = {}
    /\ \E r \in truns :
        /\ \A s \in truns : r <= s
        /\ run' = [run EXCEPT ![r] = "applied"]
        /\ truns' = truns \ {r}
        /\ IF truns' = {} THEN Goto("idle") ELSE Goto("load")
    /\ UNCHANGED <<log, cardVars, workVars, list, seen, at, who, made, boundVars>>

\* A card that was resolved when the batch was loaded: superseded if a mail
\* fact withdrew it, else the user's word.
SkipResolved(i) ==
    /\ tpc = "loop" /\ i \in list
    /\ seen[log[i].person] # "pending"
    /\ IF seen[log[i].person] = "dismissed" /\ fact[log[i].person] = "applied"
       THEN Amend(i, "superseded", log[i].overridden, log[i].created)
       ELSE Amend(i, log[i].status, TRUE, log[i].created)
    /\ list' = list \ {i}
    /\ UNCHANGED <<run, cardVars, workVars, tpc, truns, seen, at, who, made, boundVars>>

\* The next decision of the batch, or the user's tap on a card.
BeginAccept(i, p) ==
    /\ at' = i /\ who' = p /\ made' = FALSE
    /\ Goto("accept")

AcceptDecision(i) ==
    /\ tpc = "loop" /\ i \in list
    /\ seen[log[i].person] = "pending"
    /\ BeginAccept(i, log[i].person)
    /\ UNCHANGED <<runVars, cardVars, workVars, truns, list, seen, boundVars>>

AcceptCard(p) ==
    /\ tpc = "idle" /\ card[p] = "pending"
    /\ own' = own \union {p}
    /\ BeginAccept(0, p)
    /\ UNCHANGED <<runVars, card, fact, contacts, archived, workVars, truns, list, seen, boundVars>>

\* Mutant of Accept: no match before the create.
AcceptUnmatched ==
    /\ tpc = "accept"
    /\ contacts' = [contacts EXCEPT ![who] = @ + 1]
    /\ made' = TRUE
    /\ Goto("resolve")
    /\ UNCHANGED <<runVars, card, fact, archived, own, workVars, truns, list, seen, at, who, boundVars>>

\* discovery.accept up to the contact: match before create.
Accept ==
    /\ tpc = "accept"
    /\ made' = (contacts[who] = 0)
    /\ contacts' = [contacts EXCEPT ![who] = IF @ = 0 THEN 1 ELSE @]
    /\ Goto("resolve")
    /\ UNCHANGED <<runVars, card, fact, archived, own, workVars, truns, list, seen, at, who, boundVars>>

\* _resolve: an archived match dismisses the card, whatever its status is by
\* now.
Resolve ==
    /\ tpc = "resolve"
    /\ card' = [card EXCEPT ![who] = IF who \in archived THEN "dismissed" ELSE "accepted"]
    /\ IF at = 0 THEN Idle
       ELSE Goto("save") /\ UNCHANGED <<truns, list, seen, at, who, made>>
    /\ UNCHANGED <<runVars, fact, contacts, archived, own, workVars, boundVars>>

\* apply_run records what accept did.
SaveDecision ==
    /\ tpc = "save"
    /\ IF who \in archived THEN Amend(at, log[at].status, TRUE, log[at].created)
       ELSE Amend(at, "applied", log[at].overridden, made)
    /\ list' = list \ {at}
    /\ at' = 0 /\ made' = FALSE
    /\ Goto("loop")
    /\ UNCHANGED <<run, cardVars, workVars, truns, seen, who, boundVars>>

\* The request is killed between two saves.
CrashTap ==
    /\ tpc # "idle"
    /\ crashes < MaxCrashes /\ crashes' = crashes + 1
    /\ Idle
    /\ UNCHANGED <<runVars, cardVars, workVars, kills, late>>

\* undo_decision, one transaction.  A contact it created goes too, unless the
\* user has built on it.
UndoDecision(i) ==
    /\ tpc = "idle" /\ i \in 1..Len(log)
    /\ log[i].status = "applied"
    /\ LET p == log[i].person IN
        /\ card' = [card EXCEPT ![p] = "pending"]
        /\ own' = own \union {p}
        /\ \E gone \in {0} \union (IF log[i].created /\ contacts[p] > 0 THEN {1} ELSE {}) :
            /\ contacts' = [contacts EXCEPT ![p] = @ - gone]
            /\ archived' = IF gone = 1 THEN archived \ {p} ELSE archived
    /\ Amend(i, "undone", TRUE, log[i].created)
    /\ UNCHANGED <<run, fact, workVars, tapVars, boundVars>>

\* Not for me.
DismissCard(p) ==
    /\ tpc = "idle" /\ card[p] = "pending"
    /\ card' = [card EXCEPT ![p] = "dismissed"]
    /\ own' = own \union {p}
    /\ UNCHANGED <<runVars, fact, contacts, archived, workVars, tapVars, boundVars>>

\* discovery.restore of a dismissed card.
Restored(p) ==
    IF p \in archived THEN "dismissed" ELSE IF contacts[p] > 0 THEN "accepted" ELSE "pending"

RestoreCard(p) ==
    /\ tpc = "idle" /\ card[p] = "dismissed"
    /\ card' = [card EXCEPT ![p] = Restored(p)]
    /\ UNCHANGED <<runVars, fact, contacts, archived, own, workVars, tapVars, boundVars>>

\* Archiving the person's contact, and taking it back.
Archive(p) ==
    /\ tpc = "idle" /\ contacts[p] > 0
    /\ archived' = IF p \in archived THEN archived \ {p} ELSE archived \union {p}
    /\ own' = own \union {p}
    /\ UNCHANGED <<runVars, card, fact, contacts, workVars, tapVars, boundVars>>

\* The sync reads that the person has left: _apply_departed withdraws a
\* pending card, once for ever, and then writes the fact that did it.
Withdraw(p) ==
    /\ fact[p] = "none" /\ card[p] = "pending"
    /\ card' = [card EXCEPT ![p] = "dismissed"]
    /\ fact' = [fact EXCEPT ![p] = "due"]
    /\ UNCHANGED <<runVars, contacts, archived, own, workVars, tapVars, boundVars>>

WriteFact(p) ==
    /\ fact[p] = "due"
    /\ fact' = [fact EXCEPT ![p] = "applied"]
    /\ UNCHANGED <<runVars, card, contacts, archived, own, workVars, tapVars, boundVars>>

\* The sync is killed in between; the next one finds no card to withdraw.
KillSync(p) ==
    /\ fact[p] = "due"
    /\ kills < MaxKills /\ kills' = kills + 1
    /\ fact' = [fact EXCEPT ![p] = "closed"]
    /\ UNCHANGED <<runVars, card, contacts, archived, own, workVars, tapVars, crashes, late>>

\* mailfacts.undo: the card comes back as far as restore lets it.
UndoFact(p) ==
    /\ tpc = "idle" /\ fact[p] = "applied"
    /\ fact' = [fact EXCEPT ![p] = "closed"]
    /\ card' = IF card[p] = "dismissed" THEN [card EXCEPT ![p] = Restored(p)] ELSE card
    /\ UNCHANGED <<runVars, contacts, archived, own, workVars, tapVars, boundVars>>

\* mailfacts.dismiss: the user has read it.
DismissFact(p) ==
    /\ tpc = "idle" /\ fact[p] = "applied"
    /\ fact' = [fact EXCEPT ![p] = "closed"]
    /\ UNCHANGED <<runVars, card, contacts, archived, own, workVars, tapVars, boundVars>>

-----------------------------------------------------------------------------
WorkerStep(w) == ReadCards(w) \/ Decide(w) \/ FinishRun(w)

UserStep(p) ==
    \/ AcceptCard(p) \/ DismissCard(p) \/ RestoreCard(p) \/ Archive(p)
    \/ UndoFact(p) \/ DismissFact(p)

ApplyStep ==
    \/ \E i \in list : SkipResolved(i) \/ AcceptDecision(i)
    \/ LoadRun \/ ApplyRun \/ Accept \/ Resolve \/ SaveDecision

Next ==
    \/ \E w \in Workers : (\E r \in Runs : ClaimRun(w, r)) \/ WorkerStep(w) \/ KillWorker(w)
    \/ \E r \in Runs : ReapStaleRun(r) \/ ApplyReviewed(r)
    \/ \E p \in People : UserStep(p) \/ Withdraw(p) \/ WriteFact(p) \/ KillSync(p)
    \/ \E i \in 1..Len(log) : UndoDecision(i)
    \/ StartRun \/ ApplyStep \/ CrashTap

\* A live worker goes on; the cron ticks every five minutes (render.yaml), so
\* a queued run is claimed and an abandoned one reaped.
Fairness ==
    /\ \A w \in Workers : WF_vars(WorkerStep(w))
    /\ \A r \in Runs : WF_vars(\E w \in Workers : ClaimRun(w, r))
                         /\ WF_vars(Abandoned(r) /\ ReapStaleRun(r))

Safety == Init /\ [][Next]_vars
Spec == Safety /\ Fairness

-----------------------------------------------------------------------------
Decisions == [run : Runs, person : People, decision : {"accept", "escalate"},
              status : {"proposed", "applied", "undone", "superseded"},
              overridden : BOOLEAN, created : BOOLEAN]
CardStatuses == {"pending", "accepted", "dismissed"}

TypeOK ==
    /\ run \in [Runs -> {"none"} \union ACTIVE_STATUSES \union Finished \union {"failed"}]
    /\ log \in Seq(Decisions)
    /\ card \in [People -> CardStatuses]
    /\ fact \in [People -> {"none", "due", "applied", "closed"}]
    /\ contacts \in [People -> Nat]
    /\ archived \subseteq People /\ own \subseteq People
    /\ wpc \in [Workers -> {"idle", "claimed", "deciding"}]
    /\ wrun \in [Workers -> Runs \union {None}]
    /\ todo \in [Workers -> SUBSET People]
    /\ \A w \in Workers : wpc[w] = "idle" <=> wrun[w] = None
    /\ tpc \in {"idle", "load", "loop", "accept", "resolve", "save"}
    /\ truns \subseteq Runs
    /\ list \subseteq {i \in 1..Len(log) : log[i].status = "proposed"}
    /\ seen \in [People -> CardStatuses]
    /\ at \in 0..Len(log) /\ who \in People /\ made \in BOOLEAN
    /\ kills \in Nat /\ crashes \in Nat /\ late \subseteq Runs

\* "Two taps, one run": at most one run is queued or being decided.
OneActiveRun ==
    \A r, s \in Runs : run[r] \in ACTIVE_STATUSES /\ run[s] \in ACTIVE_STATUSES => r = s

\* A row is decided once: of two decisions about one person in runs that
\* finished, the older was superseded -- unless a run came back that had been
\* given up.
DecidedOnce ==
    late = {} => \A i, j \in 1..Len(log) :
        /\ i < j /\ log[i].person = log[j].person
        /\ run[log[i].run] \in Finished /\ run[log[j].run] \in Finished
        => log[i].status = "superseded"

\* The override is permanent: nobody decides about a person whom the user has
\* taken out of Autopilot's hands (AutopilotDecision's docstring).
OverrideIsFinal ==
    [][ late' = {} /\ Len(log') > Len(log) =>
        \A i \in Of(log'[Len(log')].person) : ~ log[i].overridden ]_vars

\* A tap that was killed and repeated does not make a second contact
\* (apply_run's docstring).
NoDuplicate == \A p \in People : contacts[p] <= 1

\* A run is applied when every decision of its batch is recorded.
AppliedWhole ==
    \A i \in 1..Len(log) :
        run[log[i].run] = "applied" /\ log[i].decision = "accept" /\ log[i].status = "proposed"
        => log[i].overridden

\* A run is never left thinking: it ends, also when its worker is killed.
RunEnds == \A r \in Runs : run[r] \in ACTIVE_STATUSES ~> run[r] \notin ACTIVE_STATUSES

\* "The override is permanent -- and it is only ever the user's word"
\* (AutopilotDecision's docstring).
OnlyTheUsersWord == \A i \in 1..Len(log) : log[i].overridden => log[i].person \in own
=============================================================================
