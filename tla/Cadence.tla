------------------------------ MODULE Cadence ------------------------------
(***************************************************************************)
(* The cadence engine (networkly_domain/cadence.py, due_actions) over the   *)
(* life of one contact: what the Today page asks the student to do, day by  *)
(* day, while touches are logged, read from mail and followed, chats are    *)
(* booked, introductions promised, and the contact parked and brought back. *)
(* The ledger and the state it gives the contact are ContactLog's.  Time is *)
(* a day; of two touches of one day the one recorded later is the later     *)
(* one, and the page is looked at after both.                               *)
(***************************************************************************)
EXTENDS ContactLog, FiniteSets

CONSTANTS
    FirstDay, LastDay, MaxTouches,  \* bounds of a history
    Lag,                    \* how late mail is read, and how far ahead a chat is entered
    FollowupAfter,          \* followup_after_business_days
    FollowupExpires,        \* followup_expires_after_business_days
    ParkAfter,              \* park_after_business_days
    MaxCold,                \* max_cold_touches
    ChatQuiet, ReplyIdle,   \* 4 and 3 in the code
    ThankExpires,           \* thank_you_expires_after_days
    AdvocateDays,           \* advocate_touch_min_weeks * 7
    ChattedDays,            \* chatted_touch_min_weeks * 7
    PromisedDays,           \* promised_followup_after_days
    RepingDays              \* pre_deadline_reping_days

Cards == {"first_outreach", "follow_up", "thank_you", "reping", "maintain", "keep_warm",
          "promised_followup", "advance", "confirm_chat", "park"}

\* The ranges of TUNABLE_CADENCE_PARAMS.
ASSUME CadenceAssumption ==
    /\ {FirstDay, LastDay, MaxTouches, Lag, ChatQuiet, ThankExpires, PromisedDays} \subseteq Nat
    /\ {FollowupAfter, FollowupExpires, ParkAfter, ReplyIdle} \subseteq Nat \ {0}
    /\ {AdvocateDays, ChattedDays, RepingDays} \subseteq Nat \ {0}
    /\ MaxCold \in 1..2
    /\ Lag <= FirstDay /\ FirstDay <= LastDay
    /\ Times = (FirstDay - Lag)..(LastDay + Lag)
    /\ None \notin Cards

VARIABLES
    today,
    chatAt,     \* the booked chat's day (CalendarEvent), or None
    intros,     \* the chats whose debrief names a promised introduction
    closes,     \* the firm's confirmed close for the contact's region, or None
    handset     \* a state was once set by hand

vars == <<row, touches, today, chatAt, intros, closes, handset>>

Kinds == TouchKinds \union {"follow_up", "thank_you", "reping", "maintain", "bulk_received"}
MailKinds == {"outreach", "follow_up", "reply_received", "chat_scheduled", "chat", "bulk_received"}
OUTBOUND_KINDS == {"outreach", "follow_up"}
\* Mutant of PROMISE_CLOSING_KINDS: the card's own touch is not among them.
ClosingKindsNoFollowUp == {"outreach", "maintain", "reping"}
PROMISE_CLOSING_KINDS == {"outreach", "follow_up", "maintain", "reping"}
CLOCK_SILENT_KINDS == {"manual_override", "bulk_received"}
WARM == {"replied", "chatted", "advocate"}
QUEUE_SILENT_THREAD_STATES == {"parked", "quiet"}

-----------------------------------------------------------------------------
\* Mutant of BusinessDaysSince: the trailing days counted from the first.
BusinessDaysSinceInclusive(then, now) ==
    IF then >= now THEN 0
    ELSE LET weeks == (now - then) \div 7
             rest == (now - then) % 7
         IN  weeks * 5 + Cardinality({o \in 0..(rest - 1) : ((then % 7) + o) % 7 < 5})
\* Whole weeks hold five weekdays; at most six trailing days are looked at.
\* Day 0 is a Monday.
BusinessDaysSince(then, now) ==
    IF then >= now THEN 0
    ELSE LET weeks == (now - then) \div 7
             rest == (now - then) % 7
         IN  weeks * 5 + Cardinality({o \in 1..rest : ((then % 7) + o) % 7 < 5})

\* Touch i happened before touch j.
Before(i, j) == touches[i].ts < touches[j].ts \/ (touches[i].ts = touches[j].ts /\ i < j)

Of(kinds) == {i \in DOMAIN touches : touches[i].kind \in kinds}

\* The touches an idle clock reads; a clock has run for n when the latest of
\* them, hence each of them, is n back, or when there is none.
Real == Of(Kinds \ CLOCK_SILENT_KINDS)
Idle(d, n) == \A i \in Real : d - touches[i].ts >= n
BusinessIdle(d, n) == \A i \in Real : BusinessDaysSince(touches[i].ts, d) >= n

Outbound == Cardinality(Of(OUTBOUND_KINDS))

-----------------------------------------------------------------------------
\* Branch 1: the latest chat has happened, not long ago, and nothing thanks
\* for it.
ThanksOwed(d) ==
    /\ row.state = "chat_done"
    /\ \E chat \in Of({"chat"}) :
          /\ \A i \in Of({"chat"}) \ {chat} : Before(i, chat)
          /\ touches[chat].ts \in (d - ThankExpires)..d
          /\ ~ \E i \in Of({"thank_you"}) : Before(chat, i)

\* Branch 2: a chat that was being arranged has gone quiet.
ConfirmDue(d) ==
    /\ chatAt = None \/ chatAt <= d
    /\ BusinessIdle(d, ChatQuiet + 1)

\* Branch 3: the firm closes soon, and nobody re-pinged in that window.
RepingDue(d) ==
    /\ closes # None
    /\ closes \in d..(d + RepingDays)
    /\ row.warmth \in WARM
    /\ ~ \E i \in Of({"reping"}) : touches[i].ts >= closes - RepingDays

\* The chats with a promise nobody has chased since (_build_actions).
OpenPromises == {i \in intros : ~ \E j \in Of(PROMISE_CLOSING_KINDS) : Before(i, j)}
PromiseDue(d) == \A i \in OpenPromises : d - touches[i].ts >= PromisedDays

\* Mutant of ColdCard: the last day of the window lost.
ColdCardExpiresEarly(d) ==
    IF Outbound = 0 THEN "first_outreach"
    ELSE IF Outbound >= MaxCold THEN IF BusinessIdle(d, ParkAfter) THEN "park" ELSE None
    ELSE IF ~ BusinessIdle(d, FollowupAfter) THEN None
    ELSE IF BusinessIdle(d, FollowupExpires) THEN "park" ELSE "follow_up"
\* Branch 6.
ColdCard(d) ==
    IF Outbound = 0 THEN "first_outreach"
    ELSE IF Outbound >= MaxCold THEN IF BusinessIdle(d, ParkAfter) THEN "park" ELSE None
    ELSE IF ~ BusinessIdle(d, FollowupAfter) THEN None
    ELSE IF BusinessIdle(d, FollowupExpires + 1) THEN "park" ELSE "follow_up"

\* Branches 5a and 5b.
ChattedCard(d) ==
    IF OpenPromises # {}
    THEN IF PromiseDue(d) THEN "promised_followup" ELSE None
    ELSE IF Idle(d, ChattedDays) THEN "keep_warm" ELSE None

\* The decision tree, in its order.
Due(d) ==
    IF ThanksOwed(d) THEN "thank_you"
    ELSE IF row.state = "chat_scheduled" THEN IF ConfirmDue(d) THEN "confirm_chat" ELSE None
    ELSE IF RepingDue(d) THEN "reping"
    ELSE IF row.state \in QUEUE_SILENT_THREAD_STATES THEN None
    ELSE IF row.warmth = "advocate" THEN IF Idle(d, AdvocateDays) THEN "maintain" ELSE None
    ELSE IF row.warmth = "chatted" /\ row.state # "replied" THEN ChattedCard(d)
    ELSE IF row.warmth = "cold" /\ row.state = "no_reply" THEN ColdCard(d)
    ELSE IF row.state = "replied" /\ BusinessIdle(d, ReplyIdle) THEN "advance" ELSE None

-----------------------------------------------------------------------------
\* Mutant of BENCH_RESTORE_STATE: one value for everyone.
RestoreToNoReply == [w \in Warmths |-> "no_reply"]
BENCH_RESTORE_STATE == [w \in Warmths |->
    IF w = "cold" THEN "no_reply" ELSE IF w = "replied" THEN "replied"
    ELSE IF w = "chatted" THEN "chat_done" ELSE "advocate"]

\* What "Sent" on a card logs.
ACTION_TOUCH == [a \in Cards \ {"confirm_chat", "park"} |->
    IF a \in {"first_outreach", "advance"} THEN "outreach"
    ELSE IF a \in {"follow_up", "promised_followup"} THEN "follow_up"
    ELSE IF a \in {"maintain", "keep_warm"} THEN "maintain" ELSE a]

Log(kind, ts) == Len(touches) < MaxTouches /\ Record(Touch(kind, ts))
SetState(state) ==
    /\ Len(touches) < MaxTouches
    /\ Record(Override([warmth |-> None, state |-> state], today))

Entries == [ts : Times, kind : Kinds \union {"manual_override"},
            warmth : Warmths \union {None}, state : ThreadStates \union {None}]

TypeOK ==
    /\ row \in Rows
    /\ touches \in Seq(Entries)
    /\ today \in FirstDay..LastDay /\ chatAt \in Times \union {None}
    /\ intros \subseteq DOMAIN touches
    /\ closes \in Times \union {None}
    /\ handset \in BOOLEAN

\* A contact nobody has written to, or one imported with an earlier chat.
Init ==
    /\ LogInit /\ \A i \in DOMAIN touches : touches[i].ts < FirstDay
    /\ today = FirstDay /\ chatAt = None /\ intros = {} /\ handset = FALSE
    /\ closes \in {None, LastDay}

NextDay ==
    /\ today < LastDay /\ today' = today + 1
    /\ UNCHANGED <<row, touches, chatAt, intros, closes, handset>>

\* The contact page, a mail read some days late, a promotion dated at its
\* chat; a chat may be entered ahead of its day.
LogTouch(kind, ts) ==
    /\ \/ ts = today
       \/ ts = today - Lag /\ kind \in MailKinds
       \/ ts = today + Lag /\ kind = "chat"
       \/ ts < today /\ kind = "referral" /\ \E i \in Of({"chat"}) : touches[i].ts = ts
    /\ Log(kind, ts)
    /\ UNCHANGED <<today, chatAt, intros, closes, handset>>

\* "Sent" on the card that is up.
Sent ==
    /\ Due(today) \in DOMAIN ACTION_TOUCH
    /\ Log(ACTION_TOUCH[Due(today)], today)
    /\ UNCHANGED <<today, chatAt, intros, closes, handset>>

\* "It happened" on the confirm-chat card.
Happened ==
    /\ Due(today) = "confirm_chat"
    /\ Log("chat", today)
    /\ UNCHANGED <<today, chatAt, intros, closes, handset>>

\* An invitation with a time in it (_upsert_scheduled_chat), or "Reschedule"
\* (_reschedule_chat): the touch is of today, the event of the chat's day.
BookChat(day) ==
    /\ day \in {today, today + Lag}
    /\ Log("chat_scheduled", today)
    /\ chatAt' = day
    /\ UNCHANGED <<today, intros, closes, handset>>

CancelChat ==
    /\ chatAt # None /\ chatAt' = None
    /\ UNCHANGED <<row, touches, today, intros, closes, handset>>

\* The debrief of a chat names a promised introduction.
Debrief ==
    /\ \E i \in Of({"chat"}) \ intros : touches[i].ts <= today /\ intros' = intros \union {i}
    /\ UNCHANGED <<row, touches, today, chatAt, closes, handset>>

\* Today's park, the park strip, the board's bulk park.
Park ==
    /\ row.state # "parked"
    /\ SetState("parked")
    /\ UNCHANGED <<today, chatAt, intros, closes, handset>>

\* Every way back restores the state the contact's own warmth implies.
Unpark ==
    /\ row.state = "parked"
    /\ SetState(BENCH_RESTORE_STATE[row.warmth])
    /\ UNCHANGED <<today, chatAt, intros, closes, handset>>

\* The contact page and the assistant set warmth, thread state or both.
SetByHand(o) ==
    /\ Len(touches) < MaxTouches
    /\ Record(Override(o, today))
    /\ handset' = TRUE
    /\ UNCHANGED <<today, chatAt, intros, closes>>

Next ==
    \/ NextDay \/ Sent \/ Happened \/ CancelChat \/ Debrief \/ Park \/ Unpark
    \/ \E k \in Kinds, t \in Times : LogTouch(k, t)
    \/ \E d \in Times : BookChat(d)
    \/ \E o \in Overrides : SetByHand(o)

Spec == Init /\ [][Next]_vars

-----------------------------------------------------------------------------
\* A day by which every clock of the tree has run out.
Horizon == LastDay + Lag
    + 7 * (FollowupAfter + FollowupExpires + ParkAfter + ChatQuiet + ReplyIdle
             + AdvocateDays + ChattedDays + PromisedDays + 1)

\* Nobody falls out of the tree: whatever is logged, read late, parked and
\* brought back, a contact who is not parked and whose state was never set by
\* hand is asked about on some later day (the dead ends C1 to C3 of the
\* module's docstring, and BENCH_RESTORE_STATE's reason to be).
NoDeadEnd ==
    handset \/ row.state \in QUEUE_SILENT_THREAD_STATES
        \/ \E d \in today..Horizon : Due(d) # None

\* Doing what a card asks takes it off the same day's list, even when the
\* ledger holds newer events and the touch moves no state.
AnswerClears ==
    [][Sent \/ Happened \/ (Due(today) = "park" /\ Park)
        => Due(today)' # Due(today)]_vars

\* One note and one follow-up: once the follow-up is sent no day asks for
\* another while nothing else happens (max_cold_touches).
OneFollowUp ==
    [][Due(today) = "follow_up" /\ Sent
        => \A d \in today..Horizon : Due(d)' # "follow_up"]_vars

\* A note is given up for unanswered only after a day on which the follow-up
\* was offered: no run of weekends or holes in the clock skips its window.
\* It needs settings in their documented order, which nothing enforces.
FollowUpFirst ==
    FollowupAfter <= FollowupExpires /\ Due(today) = "park" /\ Outbound < MaxCold
        => \E d \in 0..today : Due(d) = "follow_up"

\* The closed form counts the weekdays strictly after one day, up to and
\* including the other (business_days_since).
DaysCounted ==
    \A then \in Times, week \in 0..2 :
        LET now == today + 7 * week
        IN  BusinessDaysSince(then, now) = Cardinality({d \in (then + 1)..now : d % 7 < 5})
=============================================================================
