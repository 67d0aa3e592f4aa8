-------------------------- MODULE ContactPipeline ---------------------------
(***************************************************************************)
(* The writers of one contact (networkly_domain/pipeline.py through         *)
(* crm/services.py): apply_touch and set_state, each a transaction on a     *)
(* connection of its own, from every door -- the contact page, the Gmail    *)
(* backfill, park and un-park, the debrief's promotion.  A transaction is   *)
(* split where another may come between: the moment is taken, then the      *)
(* contact's row is locked, and the rest commits together.                  *)
(***************************************************************************)
EXTENDS ContactLog

CONSTANTS
    Calls,          \* requests and jobs that write the contact, one call each
    MaxTime         \* bound: the clock

ASSUME PipelineAssumption ==
    /\ MaxTime \in Nat
    /\ Times = 0..MaxTime
    /\ None \notin Calls

VARIABLES
    clock,
    lock,           \* the call that holds the contact's row, or None
    pc,             \* where each call is
    job,            \* the event it is to record
    door,           \* what it was called for
    stale,          \* the event-order guard's answer
    promoted        \* ChatDebrief.promoted, of the chat at moment 0

callVars == <<lock, pc, job, door, stale>>
vars == <<logVars, callVars, promoted, clock>>

Doors == {"log", "override", "unpark", "promote"}

Init ==
    /\ LogInit
    /\ clock = 0
    /\ \A i \in 1..Len(touches) : touches[i].ts = 0
    /\ lock = None
    /\ pc = [c \in Calls |-> "idle"]
    /\ job = [c \in Calls |-> Touch("outreach", 0)]
    /\ door = [c \in Calls |-> "log"]
    /\ stale = [c \in Calls |-> FALSE]
    /\ promoted = FALSE

Tick ==
    /\ clock < MaxTime
    /\ clock' = clock + 1
    /\ UNCHANGED <<logVars, callVars, promoted>>

-----------------------------------------------------------------------------
Goto(c, label) == pc' = [pc EXCEPT ![c] = label]

Begin(c, d, e, label) ==
    /\ pc[c] = "idle"
    /\ Goto(c, label)
    /\ job' = [job EXCEPT ![c] = e]
    /\ door' = [door EXCEPT ![c] = d]
    /\ UNCHANGED <<logVars, promoted, clock, lock, stale>>

\* A touch logged now, or one captured from mail that happened before.
LogTouch(c) == \E k \in TouchKinds, t \in 0..clock : Begin(c, "log", Touch(k, t), "lock")

\* Park, an assistant's or a repair command's override: always dated now.
SetContactState(c) == \E o \in Overrides : Begin(c, "override", Override(o, clock), "update")

\* BENCH_RESTORE_STATE.
RestoreState(warmth) ==
    IF warmth = "advocate" THEN "advocate" ELSE IF warmth = "chatted" THEN "chat_done"
    ELSE IF warmth = "replied" THEN "replied" ELSE "no_reply"

\* Un-park: the row was read, parked, in a request's own query.
Unpark(c) ==
    /\ row.state = "parked"
    /\ [warmth |-> None, state |-> RestoreState(row.warmth)] \in Overrides
    /\ Begin(c, "unpark", Override([warmth |-> None, state |-> RestoreState(row.warmth)], clock), "update")

\* debrief.promote: the offer taken, dated at the chat.
Promote(c) ==
    /\ touches # <<>> /\ touches[1].kind = "chat"
    /\ ~ promoted
    /\ Begin(c, "promote", Touch("referral", touches[1].ts), "lock")

-----------------------------------------------------------------------------
(* apply_touch.                                                            *)

\* Mutant of LockRow: nobody waits, as with a plain SELECT.
LockRowNot(c) ==
    /\ pc[c] = "lock"
    /\ Goto(c, "check")
    /\ UNCHANGED <<logVars, promoted, clock, lock, job, door, stale>>

\* SELECT ... FOR UPDATE: waits for whoever holds the row.
LockRow(c) ==
    /\ pc[c] = "lock"
    /\ lock = None
    /\ lock' = c
    /\ Goto(c, "check")
    /\ UNCHANGED <<logVars, promoted, clock, job, door, stale>>

\* The event-order guard.
CheckOrder(c) ==
    /\ pc[c] = "check"
    /\ stale' = [stale EXCEPT ![c] = Stale(touches, job[c])]
    /\ Goto(c, "write")
    /\ UNCHANGED <<logVars, promoted, clock, lock, job, door>>

\* The call's transaction commits and the row is free.
Release(c) ==
    /\ lock' = IF lock = c THEN None ELSE lock
    /\ touches' = Append(touches, job[c])

\* Mutants of WriteTouch: the UPDATE without the rank test; the guard's answer
\* left out of the UPDATE.
WriteTouchUnranked(c) ==
    /\ pc[c] = "write"
    /\ Release(c)
    /\ row' = IF stale[c] \/ ~ Orders(job[c]) THEN row
              ELSE [warmth |-> job[c].warmth, state |-> Ratchet(row, job[c]).state]
    /\ Goto(c, IF door[c] = "promote" THEN "save" ELSE "done")
    /\ UNCHANGED <<clock, job, door, stale, promoted>>
WriteTouchStale(c) ==
    /\ pc[c] = "write"
    /\ Release(c)
    /\ row' = Ratchet(row, job[c])
    /\ Goto(c, IF door[c] = "promote" THEN "save" ELSE "done")
    /\ UNCHANGED <<clock, job, door, stale, promoted>>

\* INSERT, UPDATE and COMMIT.
WriteTouch(c) ==
    /\ pc[c] = "write"
    /\ Release(c)
    /\ row' = IF stale[c] THEN row ELSE Ratchet(row, job[c])
    /\ Goto(c, IF door[c] = "promote" THEN "save" ELSE "done")
    /\ UNCHANGED <<clock, job, door, stale, promoted>>

\* promote's second transaction.
SavePromoted(c) ==
    /\ pc[c] = "save"
    /\ promoted' = TRUE
    /\ Goto(c, "done")
    /\ UNCHANGED <<logVars, clock, lock, job, door, stale>>

-----------------------------------------------------------------------------
(* set_state.                                                              *)

\* The UPDATE takes the row; no event order is asked for.
UpdateRow(c) ==
    /\ pc[c] = "update"
    /\ lock = None
    /\ lock' = c
    /\ Goto(c, "audit")
    /\ UNCHANGED <<logVars, promoted, clock, job, door, stale>>

\* The audit touch and COMMIT.
WriteOverride(c) ==
    /\ pc[c] = "audit"
    /\ Release(c)
    /\ row' = Overwrite(row, job[c])
    /\ Goto(c, "done")
    /\ UNCHANGED <<clock, job, door, stale, promoted>>

\* An error or a killed process: the connection closes, nothing is written.
Fail(c) ==
    /\ pc[c] \notin {"idle", "done"}
    /\ Goto(c, "done")
    /\ lock' = IF lock = c THEN None ELSE lock
    /\ UNCHANGED <<logVars, promoted, clock, job, door, stale>>

-----------------------------------------------------------------------------
Next ==
    \/ Tick
    \/ \E c \in Calls :
        \/ LogTouch(c) \/ SetContactState(c) \/ Unpark(c) \/ Promote(c)
        \/ LockRow(c) \/ CheckOrder(c) \/ WriteTouch(c) \/ SavePromoted(c)
        \/ UpdateRow(c) \/ WriteOverride(c) \/ Fail(c)

Spec == Init /\ [][Next]_vars

-----------------------------------------------------------------------------
TypeOK ==
    /\ row \in Rows
    /\ touches \in Seq(Recordable)
    /\ clock \in 0..MaxTime
    /\ lock \in Calls \union {None}
    /\ pc \in [Calls -> {"idle", "lock", "check", "write", "save", "update", "audit", "done"}]
    /\ job \in [Calls -> Recordable]
    /\ door \in [Calls -> Doors]
    /\ stale \in [Calls -> BOOLEAN]
    /\ promoted \in BOOLEAN
    /\ \A c \in Calls : lock = c <=> pc[c] \in {"check", "write", "audit"}
=============================================================================
