----------------------------- MODULE GmailSync ------------------------------
(***************************************************************************)
(* Live capture of one student's mailbox: capture/gmail_live.py with the    *)
(* commands that call it (gmail_poll, gmail_pubsub_listen, gmail_backfill), *)
(* the mailbox lock (locks.py) and the connection's life (connect_gmail,    *)
(* google_revoke.py).  Message m is the m-th of the mailbox, its historyId  *)
(* and its time; all of them are one contact's.                             *)
(***************************************************************************)
EXTENDS Integers, FiniteSets

CONSTANTS
    Workers,        \* processes that sync or backfill: poller, listener, cron
    MaxMail,        \* bound: messages that arrive
    MaxGrants,      \* bound: consents given, each a refresh token of its own
    MaxFaults,      \* bound: crashes, failed calls and times the history has expired
    Overlap         \* BACKFILL_OVERLAP_DAYS, in messages

ASSUME SyncAssumption ==
    /\ MaxMail \in Nat /\ MaxGrants \in Nat /\ MaxFaults \in Nat /\ Overlap \in Nat
    /\ IsFiniteSet(Workers)

Messages == 1..MaxMail
Grants == 1..MaxGrants
Ids == 0..MaxGrants             \* primary keys; 0: no row

VARIABLES
    arrived,        \* messages in the mailbox: Google's current historyId
    honoured,       \* grants Google still accepts
    row,            \* the GmailConnection
    logged,         \* touches logged for each message
    locks,          \* who holds each row's mailbox lock
    work,           \* each worker's label and what it has loaded
    consent,        \* a connect_gmail under way
    parting,        \* a disconnect under way, of Gmail or of Calendar
    grants, ids, faults,        \* counters
    passed          \* history: messages passed over, by cause in the actions

vars == <<arrived, honoured, row, logged, locks, work, consent, parting,
          grants, ids, faults, passed>>

NoRow == [id |-> 0, grant |-> 0, status |-> "none", cursor |-> 0, backfill |-> "pending"]
Idle == [at |-> "idle", id |-> 0, grant |-> 0, cursor |-> 0, todo |-> {}, head |-> 0]
NoConsent == [at |-> "idle", grant |-> 0, head |-> 0, sticky |-> FALSE]
NoParting == [at |-> "idle", id |-> 0, grant |-> 0]

Seen == {m \in Messages : logged[m] > 0}
Unseen(h) == 1..h \ Seen

Init ==
    /\ arrived = 0 /\ honoured = {}
    /\ row = NoRow
    /\ logged = [m \in Messages |-> 0]
    /\ locks = {}
    /\ work = [w \in Workers |-> Idle]
    /\ consent = NoConsent /\ parting = NoParting
    /\ grants = 0 /\ ids = 0 /\ faults = 0
    /\ passed = {}

-----------------------------------------------------------------------------
(* The mailbox and Google.                                                 *)

Arrive ==
    /\ arrived < MaxMail
    /\ arrived' = arrived + 1
    /\ UNCHANGED <<honoured, row, logged, locks, work, consent, parting,
                   grants, ids, faults, passed>>

-----------------------------------------------------------------------------
(* connect_gmail: profile and the row's old state are read, then the upsert. *)

\* Only "done" is sticky.
GiveConsent ==
    /\ consent.at = "idle" /\ grants < MaxGrants
    /\ grants' = grants + 1
    /\ honoured' = honoured \cup {grants'}
    /\ consent' = [at |-> "read", grant |-> grants', head |-> arrived,
                   sticky |-> row.id # 0 /\ row.backfill = "done"]
    /\ UNCHANGED <<arrived, row, logged, locks, work, parting, ids, faults, passed>>

StoreConnection ==
    /\ consent.at = "read"
    /\ ids' = IF row.id = 0 THEN ids + 1 ELSE ids
    /\ row' = [id |-> IF row.id = 0 THEN ids' ELSE row.id, grant |-> consent.grant,
               status |-> "active", cursor |-> consent.head,
               backfill |-> IF consent.sticky THEN "done" ELSE "pending"]
    /\ passed' = IF consent.sticky THEN passed \cup Unseen(consent.head) ELSE passed
    /\ consent' = NoConsent
    /\ UNCHANGED <<arrived, honoured, logged, locks, work, parting, grants, faults>>

-----------------------------------------------------------------------------
(* Disconnecting one service; Google revokes the whole project.            *)

\* Gmail's own row, or the one Calendar's disconnect snapshots as its sibling.
StartParting(service) ==
    /\ parting.at = "idle"
    /\ row.id # 0 /\ row.status = "active"
    /\ parting' = [at |-> service, id |-> row.id, grant |-> row.grant]
    /\ UNCHANGED <<arrived, honoured, row, logged, locks, work, consent,
                   grants, ids, faults, passed>>

\* revoke_token: Google confirms, or never answers.
Revoke ==
    /\ \/ parting.at = "gmail" /\ parting' = [parting EXCEPT !.at = "delete"]
       \/ parting.at = "calendar" /\ parting' = [parting EXCEPT !.at = "clear"]
    /\ honoured' = {}
    /\ UNCHANGED <<arrived, row, logged, locks, work, consent,
                   grants, ids, faults, passed>>

Unconfirmed ==
    /\ \/ parting.at = "gmail" /\ parting' = [parting EXCEPT !.at = "delete"]
       \/ parting.at = "calendar" /\ parting' = NoParting
    /\ UNCHANGED <<arrived, honoured, row, logged, locks, work, consent,
                   grants, ids, faults, passed>>

\* Mutant of SameToken: the row is found by its key.
SameTokenNot == row.id = parting.id

\* The row still holds the token that was read.
SameToken == row.id = parting.id /\ row.grant = parting.grant

DeleteRow ==
    /\ parting.at = "delete"
    /\ row' = IF SameToken THEN NoRow ELSE row
    /\ parting' = NoParting
    /\ UNCHANGED <<arrived, honoured, logged, locks, work, consent,
                   grants, ids, faults, passed>>

ClearSibling ==
    /\ parting.at = "clear"
    /\ row' = IF SameToken /\ row.status = "active" THEN [row EXCEPT !.status = "revoked"] ELSE row
    /\ parting' = NoParting
    /\ UNCHANGED <<arrived, honoured, logged, locks, work, consent,
                   grants, ids, faults, passed>>

-----------------------------------------------------------------------------
(* Workers.  A row is loaded, then its lock is tried: skip when it is held. *)

Set(w, r) == work' = [work EXCEPT ![w] = r]

\* The worker goes on with what it loaded.
With(w, at, todo, head) ==
    [at |-> at, id |-> work[w].id, grant |-> work[w].grant, cursor |-> work[w].cursor,
     todo |-> todo, head |-> head]
Goto(w, at) == Set(w, With(w, at, work[w].todo, work[w].head))
Leave(w) == Set(w, Idle) /\ locks' = {l \in locks : l[2] # w}

\* _matching_grant, with the cursor it was loaded with for a sync.
OwnedGrant(w) == row.status = "active" /\ row.id = work[w].id /\ row.grant = work[w].grant
OwnedRow(w) == OwnedGrant(w) /\ row.cursor = work[w].cursor

outside == <<arrived, honoured, consent, parting, grants, ids>>

Load(w, job) ==
    /\ work[w].at = "idle"
    /\ row.status = "active"
    /\ job = "backfill" => row.backfill \in {"pending", "failed", "stale"}
    /\ Set(w, [at |-> job, id |-> row.id, grant |-> row.grant,
               cursor |-> IF job = "sync" THEN row.cursor ELSE 0, todo |-> {}, head |-> 0])
    /\ UNCHANGED <<outside, row, logged, locks, faults, passed>>

\* Mutant of Free: a busy mailbox is synced all the same.
FreeNot(w) == TRUE

Free(w) == \A l \in locks : l[1] # work[w].id
TryLock(w) ==
    /\ work[w].at \in {"sync", "backfill"}
    /\ Free(w)
    /\ locks' = locks \cup {<<work[w].id, w>>}
    /\ Goto(w, IF work[w].at = "sync" THEN "list" ELSE "begin")
    /\ UNCHANGED <<outside, row, logged, faults, passed>>

Skip(w) ==
    /\ work[w].at \in {"sync", "backfill"} /\ ~ Free(w)
    /\ Set(w, Idle)
    /\ UNCHANGED <<outside, row, logged, locks, faults, passed>>

\* An error or a killed process: the session's lock goes, the row stays as it is.
Crash(w) ==
    /\ work[w].at # "idle" /\ faults < MaxFaults
    /\ faults' = faults + 1
    /\ Leave(w)
    /\ UNCHANGED <<outside, row, logged, passed>>

-----------------------------------------------------------------------------
(* sync_connection.                                                        *)

\* A candidate that went stale before the lock was taken defers.
Defer(w) ==
    /\ work[w].at = "list" /\ ~ OwnedRow(w)
    /\ Leave(w)
    /\ UNCHANGED <<outside, row, logged, faults, passed>>

\* Google refuses the token: the row is marked if it still holds it.
Refused(w) ==
    /\ work[w].at \in {"list", "search"} /\ work[w].grant \notin honoured
    /\ work[w].at = "list" => OwnedRow(w)
    /\ row' = IF work[w].at = "list" /\ OwnedGrant(w) THEN [row EXCEPT !.status = "revoked"]
              ELSE IF work[w].at = "search" /\ row.id = work[w].id
                   THEN [row EXCEPT !.backfill = "failed"] ELSE row
    /\ Leave(w)
    /\ UNCHANGED <<outside, logged, faults, passed>>

List(w) ==
    /\ work[w].at = "list" /\ OwnedRow(w) /\ work[w].grant \in honoured
    /\ Set(w, With(w, "fetched", (work[w].cursor + 1)..arrived, arrived))
    /\ UNCHANGED <<outside, row, logged, locks, faults, passed>>

\* History is kept for about a week.
Expired(w) ==
    /\ work[w].at = "list" /\ OwnedRow(w) /\ work[w].grant \in honoured
    /\ faults < MaxFaults
    /\ faults' = faults + 1
    /\ Set(w, With(w, "expired", {}, arrived))
    /\ UNCHANGED <<outside, row, logged, locks, passed>>

\* Mutant of Requeued: a finished pass stays finished.
RequeuedNot(status) == status

\* pending, failed and running are queued already.
Requeued(status) == IF status = "done" THEN "pending" ELSE status

\* Cursor and queue in one transaction.
Reanchor(w) ==
    /\ work[w].at = "expired"
    /\ row' = IF OwnedRow(w)
              THEN [id |-> row.id, grant |-> row.grant, status |-> row.status,
                    cursor |-> work[w].head, backfill |-> Requeued(row.backfill)]
              ELSE row
    /\ Leave(w)
    /\ UNCHANGED <<outside, logged, faults, passed>>

\* Owned once more before anything is applied.
CheckOwned(w) ==
    /\ work[w].at = "fetched"
    /\ \/ OwnedRow(w) /\ Goto(w, "apply") /\ UNCHANGED locks
       \/ ~ OwnedRow(w) /\ Leave(w)
    /\ UNCHANGED <<outside, row, logged, faults, passed>>

\* Mutant of Checkpoint: the cursor moves before the findings are applied.
CheckpointEarly(w) ==
    /\ work[w].at = "apply"
    /\ row' = IF OwnedRow(w) THEN [row EXCEPT !.cursor = work[w].head] ELSE row
    /\ Leave(w)
    /\ UNCHANGED <<outside, logged, faults, passed>>

\* Compare and set, after the last finding.
Checkpoint(w) ==
    /\ work[w].at = "apply" /\ work[w].todo = {}
    /\ row' = IF OwnedRow(w) THEN [row EXCEPT !.cursor = work[w].head] ELSE row
    /\ Leave(w)
    /\ UNCHANGED <<outside, logged, faults, passed>>

-----------------------------------------------------------------------------
(* apply_findings: each finding asks what is logged, then logs, in          *)
(* transactions of its own on another connection.                           *)

Applying == {"apply", "replay"}
Logging(at) == IF at = "apply" THEN "log" ELSE "relog"
Next1(at) == IF at = "log" THEN "apply" ELSE "replay"
First(w) == CHOOSE m \in work[w].todo : \A n \in work[w].todo : m <= n

\* Mutant of Known: nothing is asked.
KnownNot(m) == FALSE

\* The thread's marker, or the same kind near the same time.
Known(m) == logged[m] > 0

AskLogged(w) ==
    /\ work[w].at \in Applying /\ work[w].todo # {}
    /\ Set(w, IF Known(First(w))
                THEN With(w, work[w].at, work[w].todo \ {First(w)}, work[w].head)
                ELSE With(w, Logging(work[w].at), work[w].todo, work[w].head))
    /\ UNCHANGED <<outside, row, logged, locks, faults, passed>>

LogTouch(w) ==
    /\ work[w].at \in {"log", "relog"}
    /\ logged' = [logged EXCEPT ![First(w)] = @ + 1]
    /\ Set(w, With(w, Next1(work[w].at), work[w].todo \ {First(w)}, work[w].head))
    /\ UNCHANGED <<outside, row, locks, faults, passed>>

-----------------------------------------------------------------------------
(* The historical pass: gmail_backfill and backfill_connection.            *)

\* save() by key: whatever the row has become; an error when it is gone.
BeginBackfill(w) ==
    /\ work[w].at = "begin"
    /\ \/ /\ row.id = work[w].id
          /\ row' = [row EXCEPT !.backfill = "running"]
          /\ Goto(w, "search")
          /\ UNCHANGED locks
       \/ row.id # work[w].id /\ Leave(w) /\ UNCHANGED row
    /\ UNCHANGED <<outside, logged, faults, passed>>

\* The contact's newest touch bounds how far back the pass reads.
WindowStart == IF Seen = {} THEN 0
               ELSE CHOOSE d \in -Overlap..MaxMail :
                        d + Overlap \in Seen /\ \A m \in Seen : m <= d + Overlap

Search(w) ==
    /\ work[w].at = "search" /\ work[w].grant \in honoured
    /\ Set(w, With(w, "replay", {m \in 1..arrived : m >= WindowStart}, work[w].head))
    /\ passed' = passed \cup {m \in Unseen(arrived) : m < WindowStart}
    /\ UNCHANGED <<outside, row, logged, locks, faults>>

\* "done" by key, also over the "pending" of a consent given meanwhile.
FinishBackfill(w) ==
    /\ work[w].at = "replay" /\ work[w].todo = {}
    /\ row' = IF row.id = work[w].id THEN [row EXCEPT !.backfill = "done"] ELSE row
    /\ passed' = IF row.id = work[w].id /\ row.grant # work[w].grant
                 THEN passed \cup Unseen(row.cursor) ELSE passed
    /\ Leave(w)
    /\ UNCHANGED <<outside, logged, faults>>

\* An exception is caught: "failed" is queued for the next tick.
FailBackfill(w) ==
    /\ work[w].at \in {"search", "replay"} /\ faults < MaxFaults
    /\ row.id = work[w].id
    /\ faults' = faults + 1
    /\ row' = [row EXCEPT !.backfill = "failed"]
    /\ Leave(w)
    /\ UNCHANGED <<outside, logged, passed>>

\* STALE_RUNNING_AFTER has gone by.
GoStale ==
    /\ row.backfill = "running"
    /\ row' = [row EXCEPT !.backfill = "stale"]
    /\ UNCHANGED <<outside, logged, locks, work, faults, passed>>

-----------------------------------------------------------------------------
Sync(w) == \/ Load(w, "sync") \/ Defer(w) \/ Refused(w) \/ List(w) \/ Expired(w) \/ Reanchor(w)
           \/ CheckOwned(w) \/ Checkpoint(w)

Backfill(w) == \/ Load(w, "backfill") \/ BeginBackfill(w) \/ Search(w) \/ FinishBackfill(w)
               \/ FailBackfill(w)

Apply(w) == AskLogged(w) \/ LogTouch(w)

Connection == \/ GiveConsent \/ StoreConnection
              \/ \E service \in {"gmail", "calendar"} : StartParting(service)
              \/ Revoke \/ Unconfirmed \/ DeleteRow \/ ClearSibling

Next ==
    \/ Arrive \/ GoStale \/ Connection
    \/ \E w \in Workers : Sync(w) \/ Backfill(w) \/ Apply(w) \/ TryLock(w) \/ Skip(w) \/ Crash(w)

Spec == Init /\ [][Next]_vars

-----------------------------------------------------------------------------
Held == {"list", "expired", "fetched", "begin", "search", "apply", "log", "replay", "relog"}

RowSet == [id : Ids, grant : 0..MaxGrants, status : {"none", "active", "revoked"},
           cursor : 0..MaxMail, backfill : {"pending", "running", "stale", "failed", "done"}]
WorkSet == [at : Held \cup {"idle", "sync", "backfill"}, id : Ids, grant : 0..MaxGrants,
            cursor : 0..MaxMail, todo : SUBSET Messages, head : 0..MaxMail]
ConsentSet == [at : {"idle", "read"}, grant : 0..MaxGrants, head : 0..MaxMail, sticky : BOOLEAN]
PartingSet == [at : {"idle", "gmail", "calendar", "delete", "clear"}, id : Ids,
               grant : 0..MaxGrants]

Holders == {w \in Workers : work[w].at \in Held}

(* Types; the locks are those of the workers whose work is under way, and   *)
(* no two of them are in one mailbox.                                       *)
TypeOK ==
    /\ arrived \in 0..MaxMail /\ grants \in 0..MaxGrants /\ ids \in Ids /\ faults \in 0..MaxFaults
    /\ honoured \subseteq Grants /\ passed \subseteq Messages
    /\ row \in RowSet
    /\ logged \in [Messages -> Nat]
    /\ work \in [Workers -> WorkSet]
    /\ consent \in ConsentSet
    /\ parting \in PartingSet
    /\ ids <= grants /\ (consent.at = "read" => ids < grants)
    /\ locks = {<<work[w].id, w>> : w \in Holders}
    /\ \A v, w \in Holders : work[v].id = work[w].id => v = w

Promise == INSTANCE Mailbox WITH
    sent <- arrived, seen <- Seen, upto <- row.cursor,
    owed <- row.backfill # "done", over <- passed, consents <- grants

(* Live capture keeps the promise of Mailbox.                               *)
MailboxSpec == Promise!Spec
NoGap == Promise!NoGap

(* A message is logged once while the mailbox keeps its row: the lock is    *)
(* the row's, and the question what is logged is asked under it.            *)
LoggedOnce == ids <= 1 => \A m \in Messages : logged[m] <= 1

(* With one consent nothing is passed over: a historical pass reads back to *)
(* what was missed (gmail_live.py: "A touched contact only needs back to    *)
(* last_touch (plus a week of overlap)").                                   *)
EveryMailSeen == grants <= 1 /\ row.backfill = "done" => 1..row.cursor \subseteq Seen

(* A connection is marked revoked only when Google no longer honours the    *)
(* token it holds, whatever was reconnected meanwhile (google_revoke.py:    *)
(* "Never let an old request clear a credential replaced").                 *)
OnlyDeadRevoked ==
    [][row.status = "active" /\ row'.id = row.id /\ row'.status = "revoked"
        => row.grant \notin honoured /\ row'.grant = row.grant]_vars
=============================================================================
