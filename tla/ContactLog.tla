----------------------------- MODULE ContactLog -----------------------------
(***************************************************************************)
(* What a contact's touch ledger promises                                  *)
(* (networkly_domain/pipeline.py): touches are recorded one at a time, each *)
(* with the moment it happened, which may be long ago; the contact's warmth *)
(* and thread state follow.  A touch older than one on file that moves      *)
(* state is recorded and moves nothing; a manual override always acts.      *)
(***************************************************************************)
EXTENDS Integers, Sequences

CONSTANTS
    Times,          \* the moments an event may carry
    Overrides,      \* what the doors that override state ask for
    None            \* a field an event says nothing of

Warmths == {"cold", "replied", "chatted", "advocate"}
ThreadStates == {"no_reply", "replied", "chat_scheduled", "chat_done", "advocate", "quiet", "parked"}

\* "outreach" stands for every kind that moves nothing (follow_up,
\* bulk_received and the rest).
TouchKinds == {"outreach", "reply_received", "chat_scheduled", "chat", "referral"}

ASSUME LogAssumption ==
    /\ Times \subseteq Nat
    /\ Overrides \subseteq [warmth : Warmths \union {None}, state : ThreadStates \union {None}]
    /\ \A o \in Overrides : o.warmth # None \/ o.state # None
    /\ None \notin Warmths /\ None \notin ThreadStates

Rows == [warmth : Warmths, state : ThreadStates]
Events == [ts : Times, kind : TouchKinds \union {"manual_override"},
           warmth : Warmths \union {None}, state : ThreadStates \union {None}]

VARIABLES row, touches

logVars == <<row, touches>>

-----------------------------------------------------------------------------
WARMTH_RANK == [w \in Warmths |->
    IF w = "cold" THEN 0 ELSE IF w = "replied" THEN 1 ELSE IF w = "chatted" THEN 2 ELSE 3]

\* TOUCH_TRANSITIONS.
NewWarmth(kind) ==
    IF kind \in {"reply_received", "chat_scheduled"} THEN "replied"
    ELSE IF kind = "chat" THEN "chatted" ELSE IF kind = "referral" THEN "advocate" ELSE None
NewState(kind) ==
    IF kind = "reply_received" THEN "replied" ELSE IF kind = "chat_scheduled" THEN "chat_scheduled"
    ELSE IF kind = "chat" THEN "chat_done" ELSE IF kind = "referral" THEN "advocate" ELSE None

Touch(kind, ts) == [ts |-> ts, kind |-> kind, warmth |-> NewWarmth(kind), state |-> NewState(kind)]

\* A manual override; one that says advocate of the warmth says it of the
\* thread too.
Override(o, ts) ==
    [ts |-> ts, kind |-> "manual_override", warmth |-> o.warmth,
     state |-> IF o.warmth = "advocate" /\ o.state = None THEN "advocate" ELSE o.state]

Recordable == {Touch(k, t) : k \in TouchKinds, t \in Times}
                \union {Override(o, t) : o \in Overrides, t \in Times}

\* _ORDERING_KINDS: the kinds that move state, and the override.
Orders(e) == e.warmth # None \/ e.state # None

\* The event-order guard's question.
Newer(log, ts) == \E i \in 1..Len(log) : Orders(log[i]) /\ log[i].ts > ts

\* The UPDATE of a touch: warmth only goes up, an advocate stays one.
Ratchet(r, e) ==
    [warmth |-> IF e.warmth # None /\ WARMTH_RANK[e.warmth] > WARMTH_RANK[r.warmth]
                THEN e.warmth ELSE r.warmth,
     state |-> IF e.state # None /\ r.state # "advocate" THEN e.state ELSE r.state]

\* The UPDATE of an override.
Overwrite(r, e) ==
    [warmth |-> IF e.warmth # None THEN e.warmth ELSE r.warmth,
     state |-> IF e.state # None THEN e.state ELSE r.state]

Stale(log, e) == Orders(e) /\ Newer(log, e.ts)

After(r, log, e) ==
    IF e.kind = "manual_override" THEN Overwrite(r, e)
    ELSE IF Stale(log, e) THEN r ELSE Ratchet(r, e)

-----------------------------------------------------------------------------
\* A contact nobody has written to, or one with a chat on file.
LogInit ==
    \/ /\ touches = <<>>
       /\ row = [warmth |-> "cold", state |-> "no_reply"]
    \/ /\ \E t \in Times : touches = <<Touch("chat", t)>>
       /\ row = [warmth |-> "chatted", state |-> "chat_done"]

Record(e) ==
    /\ touches' = Append(touches, e)
    /\ row' = After(row, touches, e)

LogNext == \E e \in Recordable : Record(e)

\* One touch at a time: the promise the writers of ContactPipeline keep.
LogSpec == LogInit /\ [][LogNext]_logVars

-----------------------------------------------------------------------------
\* The i-th touch is the newest event; of two at one moment the later row is.
IsNewest(log, i) ==
    /\ Orders(log[i])
    /\ \A j \in 1..Len(log) : Orders(log[j]) =>
          log[j].ts < log[i].ts \/ (log[j].ts = log[i].ts /\ j <= i)

\* The contact's state is what the event says, for a touch as far as the
\* ratchet lets it.
Agrees(r, e) ==
    IF e.kind = "manual_override"
    THEN (e.warmth # None => r.warmth = e.warmth) /\ (e.state # None => r.state = e.state)
    ELSE WARMTH_RANK[r.warmth] >= WARMTH_RANK[e.warmth] /\ r.state \in {e.state, "advocate"}

\* "The state is what the NEWEST event says, not what the last writer said"
\* (pipeline.py, the module's fourth change), as long as no override was
\* recorded after the newest event: a backdated touch never overturns a newer
\* decision, in whatever order the two are written.
NewestTouchWins ==
    \A i \in 1..Len(touches) :
        IsNewest(touches, i)
            /\ (\A j \in (i + 1)..Len(touches) : touches[j].kind # "manual_override")
        => Agrees(row, touches[i])

\* Warmth goes down, and an advocate's thread moves, only with an override
\* recorded in the same step (apply_touch's contract).
OnlyOverrideDemotes ==
    [][ \/ WARMTH_RANK[row'.warmth] < WARMTH_RANK[row.warmth]
        \/ row.state = "advocate" /\ row'.state # "advocate"
        => /\ Len(touches') = Len(touches) + 1
           /\ touches'[Len(touches')].kind = "manual_override" ]_logVars
=============================================================================
