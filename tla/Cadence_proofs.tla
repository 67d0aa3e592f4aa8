--------------------------- MODULE Cadence_proofs ---------------------------
(***************************************************************************)
(* Theorems about Cadence, for any calendar, any settings in their ranges,  *)
(* any set of overrides and a ledger of any length: types, no dead end, an  *)
(* answered card goes away, one follow-up, offered before the contact is    *)
(* given up, and weekdays counted right.                                    *)
(***************************************************************************)
EXTENDS Cadence, FiniteSetTheorems, WellFoundedInduction, TLAPS

-----------------------------------------------------------------------------
(* What one record does to the ledger and to the contact.                   *)

\* The days are numbers.
LEMMA Days ==
    /\ Times \subseteq Int /\ FirstDay \in Nat /\ LastDay \in Nat /\ Lag \in Nat
    /\ FirstDay <= LastDay
    /\ \A t \in Times : t <= LastDay + Lag
BY CadenceAssumption, LogAssumption

\* A touch is an entry of the ledger, and no override.
LEMMA TouchEntry ==
    \A k \in Kinds, t \in Times :
        Touch(k, t) \in Entries /\ Touch(k, t).kind = k /\ k # "manual_override"
BY DEF Touch, Entries, Kinds, TouchKinds, NewWarmth, NewState, Warmths, ThreadStates

\* So is an override of one or both columns.
LEMMA OverrideEntry ==
    \A t \in Times, o \in [warmth : Warmths \union {None}, state : ThreadStates \union {None}] :
        /\ Override(o, t) \in Entries
        /\ Override(o, t).kind = "manual_override"
BY DEF Override, Entries, Warmths, ThreadStates

\* Whatever is recorded, a contact's row stays a row.
LEMMA AfterRow == \A log : \A r \in Rows, e \in Entries : After(r, log, e) \in Rows
BY DEF Rows, Entries, After, Ratchet, Overwrite

\* Today is one of the moments an event may carry.
LEMMA TodayIsATime == TypeOK => today \in Times /\ today \in Int
<1>1. FirstDay \in Nat /\ LastDay \in Nat /\ Lag \in Nat
  BY Days
<1>2. FirstDay..LastDay \subseteq (FirstDay - Lag)..(LastDay + Lag)
  BY <1>1
<1>3. QED
  BY <1>1, <1>2, CadenceAssumption DEF TypeOK

\* A record appends its entry and leaves the others.
LEMMA RecordAppends ==
    ASSUME TypeOK, NEW e \in Entries, Record(e)
    PROVE  /\ touches' \in Seq(Entries)
           /\ row' \in Rows
           /\ Len(touches) \in Nat
           /\ Len(touches') = Len(touches) + 1
           /\ touches'[Len(touches) + 1] = e
           /\ \A i \in 1..Len(touches) : touches'[i] = touches[i]
           /\ DOMAIN touches = 1..Len(touches)
           /\ DOMAIN touches' = 1..(Len(touches) + 1)
<1>1. touches \in Seq(Entries) /\ row \in Rows
  BY DEF TypeOK
<1>2. touches' = Append(touches, e) /\ row' = After(row, touches, e)
  BY DEF Record
<1>3. row' \in Rows
  BY <1>1, <1>2, AfterRow
<1>4. QED
  BY <1>1, <1>2, <1>3

\* The three doors: a touch, the override of the thread, the override by hand.
LEMMA LogRecords ==
    ASSUME NEW k \in Kinds, NEW t \in Times, Log(k, t)
    PROVE  Touch(k, t) \in Entries /\ Record(Touch(k, t))
BY TouchEntry DEF Log

\* As LogRecords, for the override of the thread.
LEMMA SetStateRecords ==
    ASSUME TypeOK, NEW s \in ThreadStates, SetState(s)
    PROVE  \E e \in Entries :
              /\ Record(e)
              /\ e.kind = "manual_override" /\ e.warmth = None /\ e.state = s
<1>1. [warmth |-> None, state |-> s] \in [warmth : Warmths \union {None}, state : ThreadStates \union {None}]
  OBVIOUS
<1>2. today \in Times
  BY TodayIsATime
<1>3. Override([warmth |-> None, state |-> s], today) \in Entries
  BY <1>1, <1>2, OverrideEntry
<1>4. None \notin ThreadStates
  BY LogAssumption
<1>5. /\ Override([warmth |-> None, state |-> s], today).kind = "manual_override"
      /\ Override([warmth |-> None, state |-> s], today).warmth = None
      /\ Override([warmth |-> None, state |-> s], today).state = s
  BY <1>4 DEF Override
<1>6. QED
  BY <1>3, <1>5 DEF SetState

\* As LogRecords, for the override by hand.
LEMMA HandRecords ==
    ASSUME TypeOK, NEW o \in Overrides, SetByHand(o)
    PROVE  \E e \in Entries : Record(e)
BY OverrideEntry, TodayIsATime, LogAssumption DEF SetByHand

\* The restored state is a state.
LEMMA RestoreState == \A w \in Warmths : BENCH_RESTORE_STATE[w] \in ThreadStates
BY DEF BENCH_RESTORE_STATE, Warmths, ThreadStates

\* What a card's button logs is a kind of touch.
LEMMA ActionKind == \A a \in DOMAIN ACTION_TOUCH : ACTION_TOUCH[a] \in Kinds
BY DEF ACTION_TOUCH, Cards, Kinds, TouchKinds

-----------------------------------------------------------------------------
(* The invariant: types, and what the clocks and the branches rest on.      *)

\* A debrief is of a chat that has taken place.
IntrosPast == \A i \in intros : touches[i].ts <= today /\ touches[i].kind = "chat"

\* The pairs of warmth and state a contact comes to rest in when neither
\* column is written by hand.
Resting ==
    \/ handset
    \/ row.state \in QUEUE_SILENT_THREAD_STATES
    \/ row.warmth = "cold" /\ row.state = "no_reply"
    \/ row.warmth # "cold" /\ row.state \in {"replied", "chat_scheduled"}
    \/ row.warmth \in {"chatted", "advocate"} /\ row.state = "chat_done"
    \/ row.warmth = "advocate" /\ row.state = "advocate"

CadenceInv == TypeOK /\ IntrosPast /\ Resting

\* The actions, by what they do to the ledger.
Logs == \E k \in Kinds, t \in Times : Log(k, t) /\ UNCHANGED <<intros, handset>>
Decides ==
    \/ SetState("parked") /\ UNCHANGED <<intros, handset>>
    \/ SetState(BENCH_RESTORE_STATE[row.warmth]) /\ UNCHANGED <<intros, handset>>
    \/ (\E o \in Overrides : SetByHand(o)) /\ UNCHANGED intros /\ handset'
Keeps == UNCHANGED <<row, touches, handset>> /\ (UNCHANGED intros \/ Debrief)

\* Every step is one of the three, and moves the small variables in their
\* types.
LEMMA StepKinds ==
    ASSUME TypeOK, Next
    PROVE  /\ Logs \/ Decides \/ Keeps
           /\ today' \in FirstDay..LastDay /\ today <= today'
           /\ chatAt' \in Times \union {None} /\ closes' \in Times \union {None}
           /\ Debrief => today' = today
<1> USE DEF TypeOK
<1>0. today \in Times /\ today \in Int /\ FirstDay \in Int /\ LastDay \in Int
  BY TodayIsATime, Days
<1>1. CASE NextDay
  BY <1>0, <1>1 DEF NextDay, Keeps, Debrief
<1>2. CASE Sent
  <2>1. ACTION_TOUCH[Due(today)] \in Kinds /\ Log(ACTION_TOUCH[Due(today)], today)
    BY <1>2, ActionKind DEF Sent
  <2>2. Logs
    BY <2>1, <1>0, <1>2 DEF Logs, Sent
  <2>3. QED
    BY <2>2, <1>0, <1>2 DEF Sent, Debrief
<1>3. CASE Happened
  <2>1. "chat" \in Kinds
    BY DEF Kinds, TouchKinds
  <2>2. Logs
    BY <2>1, <1>0, <1>3 DEF Logs, Happened
  <2>3. QED
    BY <2>2, <1>0, <1>3 DEF Happened, Debrief
<1>4. CASE CancelChat
  BY <1>0, <1>4 DEF CancelChat, Keeps, Debrief
<1>5. CASE Debrief
  BY <1>0, <1>5 DEF Debrief, Keeps
<1>6. CASE Park
  BY <1>0, <1>6 DEF Park, Decides, Debrief
<1>7. CASE Unpark
  BY <1>0, <1>7 DEF Unpark, Decides, Debrief
<1>8. ASSUME NEW k \in Kinds, NEW t \in Times, LogTouch(k, t)
      PROVE  Logs /\ UNCHANGED <<today, chatAt, closes>>
  BY <1>8 DEF LogTouch, Logs
<1>9. ASSUME NEW d \in Times, BookChat(d)
      PROVE  Logs /\ UNCHANGED <<today, closes>> /\ chatAt' \in Times
  <2>1. "chat_scheduled" \in Kinds
    BY DEF Kinds, TouchKinds
  <2>2. QED
    BY <1>0, <1>9, <2>1 DEF BookChat, Logs
<1>10. ASSUME NEW o \in Overrides, SetByHand(o)
       PROVE  Decides /\ UNCHANGED <<today, chatAt, closes>>
  BY <1>10 DEF SetByHand, Decides
<1>11. Debrief => today' = today
  BY DEF Debrief
<1>12. QED
  BY <1>0, <1>1, <1>2, <1>3, <1>4, <1>5, <1>6, <1>7, <1>8, <1>9, <1>10, <1>11 DEF Next

\* The start.
LEMMA InvInit == Init => CadenceInv
<1> SUFFICES ASSUME Init PROVE CadenceInv
  OBVIOUS
<1>1. row \in Rows /\ Resting
  BY DEF Init, LogInit, Rows, Warmths, ThreadStates, Resting
<1>2. touches \in Seq(Entries)
  <2>1. CASE touches = <<>>
    BY <2>1
  <2>2. CASE \E t \in Times : touches = <<Touch("chat", t)>>
    <3>1. "chat" \in Kinds
      BY DEF Kinds, TouchKinds
    <3>2. QED
      BY <2>2, <3>1, TouchEntry
  <2>3. QED
    BY <2>1, <2>2 DEF Init, LogInit
<1>3. today = FirstDay /\ FirstDay \in FirstDay..LastDay
  BY Days DEF Init
<1>4. LastDay \in Times
  <2>1. LastDay \in (FirstDay - Lag)..(LastDay + Lag)
    BY Days
  <2>2. QED
    BY <2>1, CadenceAssumption
<1>5. TypeOK
  BY <1>1, <1>2, <1>3, <1>4 DEF Init, TypeOK
<1>6. IntrosPast
  BY DEF Init, IntrosPast
<1>7. QED
  BY <1>1, <1>5, <1>6 DEF CadenceInv

\* Whatever a step records, the debriefs stay debriefs of past chats.
LEMMA RecordKeepsIntros ==
    ASSUME TypeOK, IntrosPast, NEW e \in Entries, Record(e), UNCHANGED intros,
           today \in Int, today' \in Int, today <= today'
    PROVE  IntrosPast' /\ intros' \subseteq DOMAIN touches'
<1>1. /\ DOMAIN touches = 1..Len(touches) /\ DOMAIN touches' = 1..(Len(touches) + 1)
      /\ \A i \in 1..Len(touches) : touches'[i] = touches[i]
      /\ Len(touches) \in Nat /\ touches \in Seq(Entries)
  BY RecordAppends DEF TypeOK
<1>2. intros \subseteq 1..Len(touches)
  BY <1>1 DEF TypeOK
<1>3. ASSUME NEW i \in intros
      PROVE  touches'[i].ts <= today' /\ touches'[i].kind = "chat"
  <2>1. i \in 1..Len(touches) /\ touches'[i] = touches[i]
    BY <1>1, <1>2
  <2>2. touches[i] \in Entries
    BY <1>1, <2>1
  <2>3. touches[i].ts \in Int
    BY <2>2, Days DEF Entries
  <2>4. touches[i].ts <= today /\ touches[i].kind = "chat"
    BY DEF IntrosPast
  <2>5. QED
    BY <2>1, <2>3, <2>4
<1>4. intros' = intros
  OBVIOUS
<1>5. intros' \subseteq DOMAIN touches'
  BY <1>1, <1>2, <1>4
<1>6. IntrosPast'
  BY <1>3, <1>4 DEF IntrosPast
<1>7. QED
  BY <1>5, <1>6

\* A touch leaves a resting contact at rest: the kinds that move the thread
\* move warmth along.
LEMMA TouchRests ==
    ASSUME TypeOK, Resting, NEW k \in Kinds, NEW t \in Times, Record(Touch(k, t)), UNCHANGED handset
    PROVE  Resting'
<1> DEFINE e == Touch(k, t)
<1>1. row \in Rows
  BY DEF TypeOK
<1>2. row' = row \/ row' = Ratchet(row, e)
  BY TouchEntry DEF Record, After
<1>3. CASE row' = row
  BY <1>3 DEF Resting
<1>4. CASE row' = Ratchet(row, e)
  <2>1. None \notin Warmths /\ None \notin ThreadStates
    BY LogAssumption
  <2>2. \/ e.warmth = None /\ e.state = None
        \/ e.warmth = "replied" /\ e.state \in {"replied", "chat_scheduled"}
        \/ e.warmth = "chatted" /\ e.state = "chat_done"
        \/ e.warmth = "advocate" /\ e.state = "advocate"
    BY DEF Touch, NewWarmth, NewState
  <2>3. row'.warmth = IF e.warmth # None /\ WARMTH_RANK[e.warmth] > WARMTH_RANK[row.warmth]
                      THEN e.warmth ELSE row.warmth
    BY <1>4 DEF Ratchet
  <2>4. row'.state = IF e.state # None /\ row.state # "advocate" THEN e.state ELSE row.state
    BY <1>4 DEF Ratchet
  <2>5. /\ WARMTH_RANK["cold"] = 0 /\ WARMTH_RANK["replied"] = 1
        /\ WARMTH_RANK["chatted"] = 2 /\ WARMTH_RANK["advocate"] = 3
    BY DEF WARMTH_RANK, Warmths
  <2>6. row.warmth \in Warmths /\ row.state \in ThreadStates
    BY <1>1 DEF Rows
  <2> HIDE DEF e
  <2>7. CASE e.warmth = None /\ e.state = None
    BY <2>7, <2>3, <2>4 DEF Resting
  <2>8. CASE handset \/ row.state = "advocate"
    BY <2>8, <2>1, <2>2, <2>3, <2>4, <2>5, <2>6 DEF Resting, Warmths, ThreadStates, QUEUE_SILENT_THREAD_STATES
  <2>9. CASE e.warmth = "replied" /\ e.state \in {"replied", "chat_scheduled"} /\ row.state # "advocate"
    <3>1. row'.state \in {"replied", "chat_scheduled"}
      BY <2>9, <2>4, <2>1 DEF ThreadStates
    <3>2. row'.warmth # "cold"
      BY <2>9, <2>3, <2>1, <2>5, <2>6 DEF Warmths
    <3>3. QED
      BY <3>1, <3>2 DEF Resting
  <2>10. CASE e.warmth = "chatted" /\ e.state = "chat_done" /\ row.state # "advocate"
    <3>1. row'.state = "chat_done"
      BY <2>10, <2>4, <2>1 DEF ThreadStates
    <3>2. row'.warmth \in {"chatted", "advocate"}
      BY <2>10, <2>3, <2>1, <2>5, <2>6 DEF Warmths
    <3>3. QED
      BY <3>1, <3>2 DEF Resting
  <2>11. CASE e.warmth = "advocate" /\ e.state = "advocate" /\ row.state # "advocate"
    <3>1. row'.state = "advocate"
      BY <2>11, <2>4, <2>1 DEF ThreadStates
    <3>2. row'.warmth = "advocate"
      BY <2>11, <2>3, <2>1, <2>5, <2>6 DEF Warmths
    <3>3. QED
      BY <3>1, <3>2 DEF Resting
  <2>12. QED
    BY <2>2, <2>7, <2>8, <2>9, <2>10, <2>11
<1>5. QED
  BY <1>2, <1>3, <1>4

\* A park does, and so does what an un-park restores.
LEMMA SetStateRests ==
    ASSUME TypeOK, NEW s \in ThreadStates, SetState(s),
           s = "parked" \/ s = BENCH_RESTORE_STATE[row.warmth]
    PROVE  Resting'
<1>1. PICK e \in Entries : Record(e) /\ e.kind = "manual_override" /\ e.warmth = None /\ e.state = s
  BY SetStateRecords
<1>2. None \notin ThreadStates
  BY LogAssumption
<1>3. row' = [warmth |-> row.warmth, state |-> s]
  BY <1>1, <1>2 DEF Record, After, Overwrite
<1>4. row.warmth \in Warmths
  BY DEF TypeOK, Rows
<1>5. CASE s = "parked"
  BY <1>3, <1>5 DEF Resting, QUEUE_SILENT_THREAD_STATES
<1>6. CASE s = BENCH_RESTORE_STATE[row.warmth]
  <2>1. \/ row.warmth = "cold" /\ s = "no_reply"
        \/ row.warmth = "replied" /\ s = "replied"
        \/ row.warmth = "chatted" /\ s = "chat_done"
        \/ row.warmth = "advocate" /\ s = "advocate"
    BY <1>4, <1>6 DEF BENCH_RESTORE_STATE, Warmths
  <2>2. QED
    BY <1>3, <2>1 DEF Resting
<1>7. QED
  BY <1>5, <1>6

\* One step.
LEMMA InvStep == CadenceInv /\ [Next]_vars => CadenceInv'
<1> SUFFICES ASSUME CadenceInv, [Next]_vars PROVE CadenceInv'
  OBVIOUS
<1>0. TypeOK /\ IntrosPast /\ Resting /\ today \in Int
  BY TodayIsATime DEF CadenceInv
<1>1. CASE UNCHANGED vars
  BY <1>1 DEF vars, CadenceInv, TypeOK, IntrosPast, Resting
<1>2. CASE Next
  <2>1. /\ Logs \/ Decides \/ Keeps
        /\ today' \in FirstDay..LastDay /\ today <= today'
        /\ chatAt' \in Times \union {None} /\ closes' \in Times \union {None}
        /\ Debrief => today' = today
    BY <1>0, <1>2, StepKinds
  <2>2. today' \in Int
    BY <2>1, Days
  <2>3. ASSUME NEW e \in Entries, Record(e), UNCHANGED intros, handset' \in BOOLEAN, Resting'
        PROVE  CadenceInv'
    <3>1. touches' \in Seq(Entries) /\ row' \in Rows
      BY <1>0, <2>3, RecordAppends
    <3>2. IntrosPast' /\ intros' \subseteq DOMAIN touches'
      BY <1>0, <2>1, <2>2, <2>3, RecordKeepsIntros
    <3>3. TypeOK'
      BY <2>1, <2>3, <3>1, <3>2 DEF TypeOK
    <3>4. QED
      BY <2>3, <3>2, <3>3 DEF CadenceInv
  <2>4. CASE Logs
    <3>1. PICK k \in Kinds, t \in Times : Log(k, t) /\ UNCHANGED <<intros, handset>>
      BY <2>4 DEF Logs
    <3>2. Touch(k, t) \in Entries /\ Record(Touch(k, t))
      BY <3>1, LogRecords
    <3>3. Resting'
      BY <1>0, <3>1, <3>2, TouchRests
    <3>4. handset' \in BOOLEAN
      BY <1>0, <3>1 DEF TypeOK
    <3>5. QED
      BY <2>3, <3>1, <3>2, <3>3, <3>4
  <2>5. CASE Decides
    <3>1. ASSUME NEW s \in ThreadStates, SetState(s), UNCHANGED <<intros, handset>>,
                 s = "parked" \/ s = BENCH_RESTORE_STATE[row.warmth]
          PROVE  CadenceInv'
      <4>1. PICK e \in Entries : Record(e)
        BY <1>0, <3>1, SetStateRecords
      <4>2. Resting' /\ handset' \in BOOLEAN
        BY <1>0, <3>1, SetStateRests DEF TypeOK
      <4>3. QED
        BY <2>3, <3>1, <4>1, <4>2
    <3>2. ASSUME NEW o \in Overrides, SetByHand(o), UNCHANGED intros, handset'
          PROVE  CadenceInv'
      <4>1. PICK e \in Entries : Record(e)
        BY <1>0, <3>2, HandRecords
      <4>2. handset' = TRUE
        BY <3>2 DEF SetByHand
      <4>3. Resting'
        BY <4>2 DEF Resting
      <4>4. QED
        BY <2>3, <3>2, <4>1, <4>2, <4>3
    <3>3. "parked" \in ThreadStates /\ BENCH_RESTORE_STATE[row.warmth] \in ThreadStates
      BY <1>0, RestoreState DEF TypeOK, Rows, ThreadStates
    <3>4. QED
      BY <2>5, <3>1, <3>2, <3>3 DEF Decides
  <2>6. CASE Keeps
    <3>1. UNCHANGED <<row, touches, handset>>
      BY <2>6 DEF Keeps
    <3>2. Resting'
      BY <1>0, <3>1 DEF Resting
    <3>3. intros' \subseteq DOMAIN touches /\ IntrosPast'
      <4>1. CASE UNCHANGED intros
        <5>1. ASSUME NEW i \in intros PROVE touches[i].ts <= today' /\ touches[i].kind = "chat"
          <6>1. touches[i] \in Entries
            BY <1>0 DEF TypeOK
          <6>2. touches[i].ts \in Int
            BY <6>1, Days DEF Entries
          <6>3. touches[i].ts <= today /\ touches[i].kind = "chat"
            BY <1>0 DEF IntrosPast
          <6>4. QED
            BY <1>0, <2>1, <2>2, <6>2, <6>3
        <5>2. QED
          BY <4>1, <5>1, <3>1, <1>0 DEF IntrosPast, TypeOK
      <4>2. CASE Debrief
        <5>1. PICK i \in Of({"chat"}) : touches[i].ts <= today /\ intros' = intros \union {i}
          BY <4>2 DEF Debrief
        <5>2. i \in DOMAIN touches /\ touches[i].kind = "chat"
          BY <5>1 DEF Of
        <5>3. today' = today
          BY <2>1, <4>2
        <5>4. QED
          BY <1>0, <3>1, <5>1, <5>2, <5>3 DEF IntrosPast, TypeOK
      <4>3. QED
        BY <2>6, <4>1, <4>2 DEF Keeps
    <3>4. TypeOK'
      BY <1>0, <2>1, <3>1, <3>3 DEF TypeOK
    <3>5. QED
      BY <3>2, <3>3, <3>4 DEF CadenceInv
  <2>7. QED
    BY <2>1, <2>4, <2>5, <2>6
<1>3. QED
  BY <1>1, <1>2

\* Every reachable state satisfies the invariant.
THEOREM InvHolds == Spec => []CadenceInv
<1>1. Init => CadenceInv
  BY InvInit
<1>2. CadenceInv /\ [Next]_vars => CadenceInv'
  BY InvStep
<1>3. QED
  BY <1>1, <1>2, PTL DEF Spec

\* Every reachable state is well typed.
THEOREM TypeCorrect == Spec => []TypeOK
<1>1. CadenceInv => TypeOK
  BY DEF CadenceInv
<1>2. QED
  BY <1>1, InvHolds, PTL

-----------------------------------------------------------------------------
(* A card that is answered goes away.                                       *)

\* What the card that is up says of the contact after a step.
LEMMA NextCard ==
    /\ Due(today)' = "first_outreach" => Outbound' = 0
    /\ Due(today)' = "follow_up" => BusinessIdle(today, FollowupAfter)'
    /\ Due(today)' = "thank_you" => ThanksOwed(today)'
    /\ Due(today)' = "reping" => RepingDue(today)'
    /\ Due(today)' = "maintain" => Idle(today, AdvocateDays)'
    /\ Due(today)' = "keep_warm" => Idle(today, ChattedDays)'
    /\ Due(today)' = "promised_followup" => OpenPromises' # {}
    /\ Due(today)' = "advance" => BusinessIdle(today, ReplyIdle)'
    /\ Due(today)' = "confirm_chat" => ConfirmDue(today)'
    /\ Due(today)' = "park" => row'.state # "parked"
<1>1. None \notin Cards
  BY CadenceAssumption
<1>2. /\ None # "first_outreach" /\ None # "follow_up" /\ None # "thank_you" /\ None # "reping"
      /\ None # "maintain" /\ None # "keep_warm" /\ None # "promised_followup"
      /\ None # "advance" /\ None # "confirm_chat" /\ None # "park"
  BY <1>1 DEF Cards
<1>3. QED
  BY <1>2 DEF Due, ColdCard, ChattedCard, QUEUE_SILENT_THREAD_STATES

\* A touch logged today is the last of the ledger, and no clock has run since.
LEMMA LoggedToday ==
    ASSUME TypeOK, NEW k \in Kinds, Log(k, today), today' = today
    PROVE  /\ Len(touches) \in Nat
           /\ DOMAIN touches' = 1..(Len(touches) + 1)
           /\ touches'[Len(touches) + 1].ts = today
           /\ touches'[Len(touches) + 1].kind = k
           /\ \A i \in 1..Len(touches) : touches'[i] = touches[i]
<1>1. today \in Times
  BY TodayIsATime
<1>2. Touch(k, today) \in Entries /\ Record(Touch(k, today))
  BY <1>1, LogRecords
<1>3. Touch(k, today).ts = today /\ Touch(k, today).kind = k
  BY DEF Touch
<1>4. QED
  BY <1>2, <1>3, RecordAppends

\* No business day lies between a day and itself.
LEMMA SameDay == \A d \in Int : BusinessDaysSince(d, d) = 0
BY DEF BusinessDaysSince

\* As LoggedToday, of the idle clocks.
LEMMA ClocksRestart ==
    ASSUME TypeOK, NEW k \in Kinds \ CLOCK_SILENT_KINDS, Log(k, today), today' = today,
           NEW n \in Nat \ {0}
    PROVE  ~ Idle(today, n)' /\ ~ BusinessIdle(today, n)'
<1> DEFINE last == Len(touches) + 1
<1>1. last \in DOMAIN touches' /\ touches'[last].ts = today /\ touches'[last].kind = k
  BY LoggedToday
<1>2. last \in Real'
  BY <1>1 DEF Real, Of
<1>3. today \in Int
  BY TodayIsATime
<1>4. today' - touches'[last].ts = 0 /\ BusinessDaysSince(touches'[last].ts, today') = 0
  BY <1>1, <1>3, SameDay
<1> HIDE DEF last
<1>5. ~ Idle(today, n)'
  BY <1>2, <1>4 DEF Idle
<1>6. ~ BusinessIdle(today, n)'
  BY <1>2, <1>4 DEF BusinessIdle
<1>7. QED
  BY <1>5, <1>6

\* "Sent" takes its card off the list.
LEMMA SentClears ==
    ASSUME CadenceInv, Sent
    PROVE  Due(today)' # Due(today)
<1> DEFINE card == Due(today)
<1>1. TypeOK /\ IntrosPast /\ today \in Int
  BY TodayIsATime DEF CadenceInv
<1>2. card \in DOMAIN ACTION_TOUCH /\ Log(ACTION_TOUCH[card], today)
      /\ UNCHANGED <<today, chatAt, intros, closes, handset>>
  BY DEF Sent
<1>3. ACTION_TOUCH[card] \in Kinds
  BY <1>2, ActionKind
<1>6. /\ DOMAIN touches = 1..Len(touches) /\ touches' \in Seq(Entries)
      /\ Len(touches') = Len(touches) + 1 /\ Len(touches) \in Nat
  <2>1. today \in Times /\ Record(Touch(ACTION_TOUCH[card], today)) /\ Touch(ACTION_TOUCH[card], today) \in Entries
    BY <1>1, <1>2, <1>3, TodayIsATime, LogRecords
  <2>2. QED
    BY <1>1, <2>1, RecordAppends
<1>0. PICK last \in Nat : last = Len(touches) + 1
  BY <1>6
<1>4. /\ Len(touches) \in Nat
      /\ DOMAIN touches' = 1..last
      /\ touches'[last].ts = today
      /\ touches'[last].kind = ACTION_TOUCH[card]
      /\ \A i \in 1..Len(touches) : touches'[i] = touches[i]
  BY <1>0, <1>1, <1>2, <1>3, LoggedToday
<1>5. last \in DOMAIN touches'
  BY <1>0, <1>4, <1>6
<1>7. CASE card \in {"follow_up", "maintain", "keep_warm", "advance"}
  <2>1. ACTION_TOUCH[card] \in Kinds \ CLOCK_SILENT_KINDS
    BY <1>3, <1>7 DEF ACTION_TOUCH, Cards, CLOCK_SILENT_KINDS
  <2>2. /\ FollowupAfter \in Nat \ {0} /\ AdvocateDays \in Nat \ {0}
        /\ ChattedDays \in Nat \ {0} /\ ReplyIdle \in Nat \ {0}
    BY CadenceAssumption
  <2>3. /\ ~ BusinessIdle(today, FollowupAfter)' /\ ~ Idle(today, AdvocateDays)'
        /\ ~ Idle(today, ChattedDays)' /\ ~ BusinessIdle(today, ReplyIdle)'
    BY <1>1, <1>2, <2>1, <2>2, ClocksRestart
  <2>4. QED
    BY <1>7, <2>3, NextCard
<1>8. CASE card = "first_outreach"
  <2>1. last \in Of(OUTBOUND_KINDS)'
    BY <1>4, <1>5, <1>8 DEF Of, ACTION_TOUCH, Cards, OUTBOUND_KINDS
  <2>2. IsFiniteSet(Of(OUTBOUND_KINDS)')
    <3>1. IsFiniteSet(1..last)
      BY <1>0, FS_Interval
    <3>2. Of(OUTBOUND_KINDS)' \subseteq 1..last
      BY <1>4 DEF Of
    <3>3. QED
      BY <3>1, <3>2, FS_Subset
  <2>3. Outbound' # 0
    BY <2>1, <2>2, FS_EmptySet DEF Outbound
  <2>4. QED
    BY <1>8, <2>3, NextCard
<1>9. CASE card = "thank_you"
  <2>1. touches'[last].kind = "thank_you"
    BY <1>4, <1>9 DEF ACTION_TOUCH, Cards
  <2>2. last \in Of({"thank_you"})'
    BY <1>5, <2>1 DEF Of
  <2>3. ASSUME ThanksOwed(today)' PROVE FALSE
    <3>1. PICK chat \in Of({"chat"})' :
            /\ touches'[chat].ts <= today'
            /\ ~ \E i \in Of({"thank_you"})' : Before(chat, i)'
      BY <2>3 DEF ThanksOwed
    <3>2. chat \in 1..last /\ chat # last
      BY <1>4, <2>1, <3>1 DEF Of
    <3>3. chat < last
      BY <1>0, <1>4, <3>2
    <3>4. touches'[chat].ts \in Int
      <4>1. touches'[chat] \in Entries
        BY <1>0, <1>4, <1>6, <3>2
      <4>2. QED
        BY <4>1, Days DEF Entries
    <3>5. Before(chat, last)'
      BY <1>1, <1>2, <1>4, <3>1, <3>3, <3>4 DEF Before
    <3>6. QED
      BY <2>2, <3>1, <3>5
  <2>4. QED
    BY <1>9, <2>3, NextCard
<1>10. CASE card = "reping"
  <2>1. last \in Of({"reping"})'
    BY <1>4, <1>5, <1>10 DEF Of, ACTION_TOUCH, Cards
  <2>2. ASSUME RepingDue(today)' PROVE FALSE
    <3>1. /\ closes' # None /\ closes' \in today'..(today' + RepingDays)
          /\ ~ \E i \in Of({"reping"})' : touches'[i].ts >= closes' - RepingDays
      BY <2>2 DEF RepingDue
    <3>2. RepingDays \in Nat
      BY CadenceAssumption
    <3>3. touches'[last].ts >= closes' - RepingDays
      BY <1>1, <1>2, <1>4, <3>1, <3>2
    <3>4. QED
      BY <2>1, <3>1, <3>3
  <2>3. QED
    BY <1>10, <2>2, NextCard
<1>11. CASE card = "promised_followup"
  <2>1. last \in Of(PROMISE_CLOSING_KINDS)'
    BY <1>4, <1>5, <1>11 DEF Of, ACTION_TOUCH, Cards, PROMISE_CLOSING_KINDS
  <2>2. ASSUME NEW i \in intros' PROVE Before(i, last)'
    <3>1. i \in intros /\ i \in 1..Len(touches)
      BY <1>1, <1>2, <1>6 DEF TypeOK
    <3>2. touches'[i].ts <= today
      BY <1>1, <1>4, <3>1 DEF IntrosPast
    <3>3. i < last
      BY <1>0, <1>4, <3>1
    <3>4. touches'[i].ts \in Int
      <4>1. touches'[i] \in Entries
        BY <1>1, <1>4, <3>1 DEF TypeOK
      <4>2. QED
        BY <4>1, Days DEF Entries
    <3>5. QED
      BY <1>1, <1>4, <3>2, <3>3, <3>4 DEF Before
  <2>3. OpenPromises' = {}
    BY <2>1, <2>2 DEF OpenPromises
  <2>4. QED
    BY <1>11, <2>3, NextCard
<1>12. card \in {"follow_up", "maintain", "keep_warm", "advance", "first_outreach",
                 "thank_you", "reping", "promised_followup"}
  BY <1>2 DEF ACTION_TOUCH, Cards
<1>13. QED
  BY <1>7, <1>8, <1>9, <1>10, <1>11, <1>12

\* So does "It happened" ...
LEMMA HappenedClears ==
    ASSUME CadenceInv, Happened
    PROVE  Due(today)' # Due(today)
<1>1. TypeOK
  BY DEF CadenceInv
<1>2. "chat" \in Kinds \ CLOCK_SILENT_KINDS
  BY DEF Kinds, TouchKinds, CLOCK_SILENT_KINDS
<1>3. ChatQuiet + 1 \in Nat \ {0}
  BY CadenceAssumption
<1>4. ~ BusinessIdle(today, ChatQuiet + 1)'
  BY <1>1, <1>2, <1>3, ClocksRestart DEF Happened
<1>5. QED
  BY <1>4, NextCard DEF Happened, ConfirmDue

\* ... and a park.
LEMMA ParkClears ==
    ASSUME CadenceInv, Due(today) = "park", Park
    PROVE  Due(today)' # Due(today)
<1>1. TypeOK /\ "parked" \in ThreadStates
  BY DEF CadenceInv, ThreadStates
<1>2. PICK e \in Entries : Record(e) /\ e.kind = "manual_override" /\ e.state = "parked"
  BY <1>1, SetStateRecords DEF Park
<1>3. None \notin ThreadStates
  BY LogAssumption
<1>4. row'.state = "parked"
  BY <1>1, <1>2, <1>3 DEF Record, After, Overwrite
<1>5. QED
  BY <1>4, NextCard

\* Doing what a card asks takes it off the same day's list.
THEOREM AnswerClearsHolds == Spec => AnswerClears
<1>1. CadenceInv /\ [Next]_vars
        => [Sent \/ Happened \/ (Due(today) = "park" /\ Park)
              => Due(today)' # Due(today)]_vars
  BY SentClears, HappenedClears, ParkClears
<1>2. QED
  BY <1>1, InvHolds, PTL DEF Spec, AnswerClears

-----------------------------------------------------------------------------
(* One follow-up.                                                           *)

\* Only branch 6 asks for a follow-up, after a note and below the maximum.
LEMMA FollowUpNeeds ==
    ASSUME NEW d
    PROVE  /\ Due(d) = "follow_up" => Outbound # 0
           /\ Due(d)' = "follow_up" => ~ (Outbound' >= MaxCold)
<1>1. None \notin Cards
  BY CadenceAssumption
<1>2. None # "follow_up"
  BY <1>1 DEF Cards
<1>3. QED
  BY <1>2 DEF Due, ColdCard, ChattedCard

\* One more outbound touch counts as one more.
LEMMA FollowUpCounts ==
    ASSUME TypeOK, Log("follow_up", today)
    PROVE  Outbound \in Nat /\ Outbound' = Outbound + 1
<1>1. "follow_up" \in Kinds /\ "follow_up" \in OUTBOUND_KINDS
  BY DEF Kinds, OUTBOUND_KINDS
<1>2. today \in Times
  BY TodayIsATime
<1>3. Touch("follow_up", today) \in Entries /\ Record(Touch("follow_up", today))
      /\ Touch("follow_up", today).kind = "follow_up"
  BY <1>1, <1>2, LogRecords, TouchEntry
<1>4. PICK last \in Nat : last = Len(touches) + 1
  BY <1>3, RecordAppends
<1>5. /\ DOMAIN touches = 1..Len(touches) /\ DOMAIN touches' = 1..last /\ Len(touches) \in Nat
      /\ touches'[last].kind = "follow_up"
      /\ \A i \in 1..Len(touches) : touches'[i] = touches[i]
  BY <1>3, <1>4, RecordAppends
<1>6. 1..last = (1..Len(touches)) \union {last} /\ last \notin 1..Len(touches)
  BY <1>4, <1>5
<1>7. Of(OUTBOUND_KINDS)' = Of(OUTBOUND_KINDS) \union {last}
  BY <1>1, <1>5, <1>6 DEF Of, OUTBOUND_KINDS
<1>8. last \notin Of(OUTBOUND_KINDS)
  BY <1>5, <1>6 DEF Of
<1>9. IsFiniteSet(Of(OUTBOUND_KINDS))
  <2>1. IsFiniteSet(1..Len(touches))
    BY <1>5, FS_Interval
  <2>2. Of(OUTBOUND_KINDS) \subseteq 1..Len(touches)
    BY <1>5 DEF Of
  <2>3. QED
    BY <2>1, <2>2, FS_Subset
<1>10. Cardinality(Of(OUTBOUND_KINDS) \union {last}) = Cardinality(Of(OUTBOUND_KINDS)) + 1
  BY <1>8, <1>9, FS_AddElement
<1>11. Cardinality(Of(OUTBOUND_KINDS)) \in Nat
  BY <1>9, FS_CardinalityType
<1>12. Outbound = Cardinality(Of(OUTBOUND_KINDS))
  BY DEF Outbound
<1>13. Outbound' = Cardinality(Of(OUTBOUND_KINDS)')
  BY DEF Outbound
<1>14. QED
  BY <1>7, <1>10, <1>11, <1>12, <1>13

\* The follow-up that is sent is the last one asked for.
LEMMA FollowUpOnce ==
    ASSUME CadenceInv, Due(today) = "follow_up", Sent
    PROVE  \A d \in today..Horizon : Due(d)' # "follow_up"
<1>1. TypeOK
  BY DEF CadenceInv
<1>2. Log("follow_up", today)
  BY DEF Sent, ACTION_TOUCH, Cards
<1>3. Outbound \in Nat /\ Outbound' = Outbound + 1
  BY <1>1, <1>2, FollowUpCounts
<1>4. Outbound # 0
  BY FollowUpNeeds
<1>5. MaxCold \in 1..2
  BY CadenceAssumption
<1>6. Outbound' >= MaxCold
  BY <1>3, <1>4, <1>5
<1>7. ASSUME NEW d \in today..Horizon PROVE Due(d)' # "follow_up"
  BY <1>6, FollowUpNeeds
<1>8. QED
  BY <1>7

\* Once the follow-up is sent no day asks for another.
THEOREM OneFollowUpHolds == Spec => OneFollowUp
<1>1. CadenceInv /\ [Next]_vars
        => [Due(today) = "follow_up" /\ Sent
              => \A d \in today..Horizon : Due(d)' # "follow_up"]_vars
  BY FollowUpOnce
<1>2. QED
  BY <1>1, InvHolds, PTL DEF Spec, OneFollowUp

-----------------------------------------------------------------------------
(* Nobody falls out of the tree.                                            *)

\* A week holds at least one business day.
LEMMA WeeksAreEnough ==
    ASSUME NEW n \in Nat, NEW t \in Int, NEW d \in Int, d - t >= 7 * n, t < d
    PROVE  BusinessDaysSince(t, d) >= n
<1> DEFINE weeks == (d - t) \div 7
           rest == (d - t) % 7
           trailing == {o \in 1..rest : ((t % 7) + o) % 7 < 5}
<1>1. weeks \in Int /\ rest \in 0..6 /\ d - t = 7 * weeks + rest
  OBVIOUS
<1>2. weeks >= n
  BY <1>1
<1>3. Cardinality(trailing) \in Nat
  <2>1. IsFiniteSet(1..rest)
    BY <1>1, FS_Interval
  <2>2. trailing \subseteq 1..rest
    OBVIOUS
  <2>3. IsFiniteSet(trailing)
    BY <2>1, <2>2, FS_Subset
  <2>4. QED
    BY <2>3, FS_CardinalityType
<1>4. BusinessDaysSince(t, d) = weeks * 5 + Cardinality(trailing)
  BY DEF BusinessDaysSince
<1> HIDE DEF weeks, trailing
<1>5. QED
  BY <1>1, <1>2, <1>3, <1>4

\* On the horizon every clock has run out.
LEMMA ClocksRunOut ==
    ASSUME TypeOK, NEW n \in Nat \ {0}, Horizon \in Int, LastDay + Lag + 7 * n <= Horizon
    PROVE  Idle(Horizon, n) /\ BusinessIdle(Horizon, n)
<1>1. ASSUME NEW i \in Real
      PROVE  Horizon - touches[i].ts >= n /\ BusinessDaysSince(touches[i].ts, Horizon) >= n
  <2>1. i \in DOMAIN touches
    BY DEF Real, Of
  <2>2. touches[i] \in Entries
    BY <2>1 DEF TypeOK
  <2>3. touches[i].ts \in Int /\ touches[i].ts <= LastDay + Lag
    BY <2>2, Days DEF Entries
  <2>4. Horizon - touches[i].ts >= 7 * n /\ touches[i].ts < Horizon
    BY <2>3, Days
  <2>5. BusinessDaysSince(touches[i].ts, Horizon) >= n
    BY <2>3, <2>4, WeeksAreEnough
  <2>6. QED
    BY <2>3, <2>4, <2>5
<1>2. QED
  BY <1>1 DEF Idle, BusinessIdle

\* A contact at rest, not parked and not set by hand, has a card that day.
LEMMA RestingIsAsked ==
    ASSUME TypeOK, IntrosPast, Resting, ~ handset, row.state \notin QUEUE_SILENT_THREAD_STATES
    PROVE  Horizon \in today..Horizon /\ Due(Horizon) # None
<1>1. /\ FollowupAfter \in Nat \ {0} /\ FollowupExpires \in Nat \ {0} /\ ParkAfter \in Nat \ {0}
      /\ ChatQuiet \in Nat /\ ReplyIdle \in Nat \ {0} /\ AdvocateDays \in Nat \ {0}
      /\ ChattedDays \in Nat \ {0} /\ PromisedDays \in Nat
      /\ LastDay \in Nat /\ Lag \in Nat /\ FirstDay \in Nat
  BY CadenceAssumption
<1>2. Horizon \in Int /\ Horizon >= LastDay + Lag + 7
  BY <1>1 DEF Horizon
<1>3. today \in FirstDay..LastDay
  BY DEF TypeOK
<1>4. Horizon \in today..Horizon
  BY <1>1, <1>2, <1>3
<1>5. /\ BusinessIdle(Horizon, ChatQuiet + 1) /\ BusinessIdle(Horizon, ReplyIdle)
      /\ BusinessIdle(Horizon, FollowupAfter) /\ BusinessIdle(Horizon, ParkAfter)
      /\ Idle(Horizon, AdvocateDays) /\ Idle(Horizon, ChattedDays)
  <2>1. /\ LastDay + Lag + 7 * (ChatQuiet + 1) <= Horizon
        /\ LastDay + Lag + 7 * ReplyIdle <= Horizon
        /\ LastDay + Lag + 7 * FollowupAfter <= Horizon
        /\ LastDay + Lag + 7 * ParkAfter <= Horizon
        /\ LastDay + Lag + 7 * AdvocateDays <= Horizon
        /\ LastDay + Lag + 7 * ChattedDays <= Horizon
    BY <1>1 DEF Horizon
  <2>2. ChatQuiet + 1 \in Nat \ {0}
    BY <1>1
  <2>3. QED
    BY <1>1, <1>2, <2>1, <2>2, ClocksRunOut
<1>6. ConfirmDue(Horizon)
  <2>1. chatAt = None \/ chatAt <= Horizon
    BY <1>1, <1>2, Days DEF TypeOK
  <2>2. QED
    BY <1>5, <2>1 DEF ConfirmDue
<1>7. PromiseDue(Horizon)
  <2>1. ASSUME NEW i \in OpenPromises PROVE Horizon - touches[i].ts >= PromisedDays
    <3>1. i \in intros
      BY DEF OpenPromises
    <3>2. touches[i] \in Entries
      BY <3>1 DEF TypeOK
    <3>3. touches[i].ts \in Int /\ touches[i].ts <= LastDay + Lag
      BY <3>2, Days DEF Entries
    <3>4. LastDay + Lag + PromisedDays <= Horizon
      BY <1>1 DEF Horizon
    <3>5. QED
      BY <1>1, <1>2, <3>3, <3>4
  <2>2. QED
    BY <2>1 DEF PromiseDue
<1>8. None \notin Cards
  BY CadenceAssumption
<1>9. /\ None # "first_outreach" /\ None # "follow_up" /\ None # "thank_you" /\ None # "reping"
      /\ None # "maintain" /\ None # "keep_warm" /\ None # "promised_followup"
      /\ None # "advance" /\ None # "confirm_chat" /\ None # "park"
  BY <1>8 DEF Cards
<1>10. ChattedCard(Horizon) # None
  BY <1>5, <1>7, <1>9 DEF ChattedCard
<1>11. ColdCard(Horizon) # None
  BY <1>5, <1>9 DEF ColdCard
<1>12. row.warmth \in Warmths
  BY DEF TypeOK, Rows
<1>13. Due(Horizon) # None
  BY <1>5, <1>6, <1>9, <1>10, <1>11, <1>12 DEF Due, Resting, Warmths, QUEUE_SILENT_THREAD_STATES
<1>14. QED
  BY <1>4, <1>13

\* A contact who is not parked and was never set by hand is asked about again.
THEOREM NoDeadEndHolds == Spec => []NoDeadEnd
<1>1. CadenceInv => NoDeadEnd
  <2> SUFFICES ASSUME CadenceInv, ~ handset, row.state \notin QUEUE_SILENT_THREAD_STATES
               PROVE  \E d \in today..Horizon : Due(d) # None
    BY DEF NoDeadEnd
  <2>1. Horizon \in today..Horizon /\ Due(Horizon) # None
    BY RestingIsAsked DEF CadenceInv
  <2>2. QED
    BY <2>1
<1>2. QED
  BY <1>1, InvHolds, PTL

-----------------------------------------------------------------------------
(* Counting weekdays.                                                       *)

\* A set of numbers that is not empty has a least one.
LEMMA LeastExists ==
    ASSUME NEW S, S \subseteq Nat, S # {}
    PROVE  \E n \in S : \A k \in S : n <= k
<1> DEFINE Less == OpToRel(<, Nat)
<1>1. \E n \in S : \A k \in S : ~ (<<k, n>> \in Less)
  <2> HIDE DEF Less
  <2>1. QED
    BY NatLessThanWellFounded, WFMin DEF Less
<1>2. \A k, n \in Nat : k < n => <<k, n>> \in Less
  BY DEF OpToRel
<1>3. QED
  <2> HIDE DEF Less
  <2>1. PICK n \in S : \A k \in S : ~ (<<k, n>> \in Less)
    BY <1>1
  <2>2. \A k \in S : ~ (k < n)
    BY <1>2, <2>1
  <2>3. QED
    BY <2>2

\* One more weekday, or none.
Weekday(d) == IF d % 7 < 5 THEN 1 ELSE 0

\* A day counts as a number of days.
LEMMA WeekdayIsNat == \A d : Weekday(d) \in Nat
BY DEF Weekday

\* The weekdays from the day after b to r days after it, for b a day of the week.
Trailing(b, r) == Cardinality({o \in 1..r : (b + o) % 7 < 5})

\* One trailing day more counts when it is a weekday.
LEMMA TrailingGrows ==
    ASSUME NEW b \in 0..6, NEW r \in Nat
    PROVE  /\ Trailing(b, r) \in Nat
           /\ Trailing(b, 0) = 0
           /\ Trailing(b, r + 1) = Trailing(b, r) + Weekday(b + r + 1)
<1> DEFINE T(n) == {o \in 1..n : (b + o) % 7 < 5}
<1>1. T(0) = {}
  OBVIOUS
<1>2. IsFiniteSet(T(r))
  <2>1. IsFiniteSet(1..r) /\ T(r) \subseteq 1..r
    BY FS_Interval
  <2>2. QED
    BY <2>1, FS_Subset
<1>3. r + 1 \notin T(r)
  OBVIOUS
<1>4. T(r + 1) = IF (b + (r + 1)) % 7 < 5 THEN T(r) \union {r + 1} ELSE T(r)
  <2>1. 1..(r + 1) = (1..r) \union {r + 1}
    OBVIOUS
  <2>2. QED
    BY <2>1
<1>5. b + r + 1 = b + (r + 1)
  OBVIOUS
<1> HIDE DEF T
<1>6. Cardinality(T(r)) \in Nat /\ Cardinality(T(r) \union {r + 1}) = Cardinality(T(r)) + 1
  BY <1>2, <1>3, FS_AddElement, FS_CardinalityType
<1>7. Cardinality(T(0)) = 0
  BY <1>1, FS_EmptySet
<1>8. Trailing(b, r) = Cardinality(T(r)) /\ Trailing(b, r + 1) = Cardinality(T(r + 1))
      /\ Trailing(b, 0) = Cardinality(T(0))
  BY DEF Trailing, T
<1>9. Cardinality(T(r + 1)) = Cardinality(T(r)) + Weekday(b + (r + 1))
  BY <1>4, <1>6 DEF Weekday
<1>10. QED
  BY <1>5, <1>6, <1>7, <1>8, <1>9

\* Six days hold four weekdays after a weekday, five after a weekend day.
LEMMA SixDays ==
    ASSUME NEW b \in 0..6
    PROVE  Trailing(b, 6) + Weekday(b) = 5
<1>1. /\ Trailing(b, 0) = 0
      /\ Trailing(b, 1) = Trailing(b, 0) + Weekday(b + 1)
      /\ Trailing(b, 2) = Trailing(b, 1) + Weekday(b + 2)
      /\ Trailing(b, 3) = Trailing(b, 2) + Weekday(b + 3)
      /\ Trailing(b, 4) = Trailing(b, 3) + Weekday(b + 4)
      /\ Trailing(b, 5) = Trailing(b, 4) + Weekday(b + 5)
      /\ Trailing(b, 6) = Trailing(b, 5) + Weekday(b + 6)
  <2>1. \A r \in Nat : Trailing(b, r + 1) = Trailing(b, r) + Weekday(b + r + 1)
    BY TrailingGrows
  <2>2. Trailing(b, 0) = 0
    BY TrailingGrows
  <2>3. /\ Trailing(b, 0 + 1) = Trailing(b, 0) + Weekday(b + 0 + 1)
        /\ Trailing(b, 1 + 1) = Trailing(b, 1) + Weekday(b + 1 + 1)
        /\ Trailing(b, 2 + 1) = Trailing(b, 2) + Weekday(b + 2 + 1)
        /\ Trailing(b, 3 + 1) = Trailing(b, 3) + Weekday(b + 3 + 1)
        /\ Trailing(b, 4 + 1) = Trailing(b, 4) + Weekday(b + 4 + 1)
        /\ Trailing(b, 5 + 1) = Trailing(b, 5) + Weekday(b + 5 + 1)
    BY <2>1
  <2>4. /\ 0 + 1 = 1 /\ 1 + 1 = 2 /\ 2 + 1 = 3 /\ 3 + 1 = 4 /\ 4 + 1 = 5 /\ 5 + 1 = 6
        /\ b + 0 + 1 = b + 1 /\ b + 1 + 1 = b + 2 /\ b + 2 + 1 = b + 3
        /\ b + 3 + 1 = b + 4 /\ b + 4 + 1 = b + 5 /\ b + 5 + 1 = b + 6
    OBVIOUS
  <2>5. QED
    BY <2>2, <2>3, <2>4
<1>2. Weekday(b + 1) + Weekday(b + 2) + Weekday(b + 3) + Weekday(b + 4)
        + Weekday(b + 5) + Weekday(b + 6) + Weekday(b) = 5
  <2>1. \A n \in {0, 1, 2, 3, 4, 5, 6, 7, 8, 9, 10, 11, 12} :
           Weekday(n) = IF n \in {5, 6, 12} THEN 0 ELSE 1
    BY DEF Weekday
  <2>2. b \in {0, 1, 2, 3, 4, 5, 6}
    OBVIOUS
  <2>3. QED
    BY <2>1, <2>2
<1>3. /\ Weekday(b) \in Nat /\ Weekday(b + 1) \in Nat /\ Weekday(b + 2) \in Nat /\ Weekday(b + 3) \in Nat
      /\ Weekday(b + 4) \in Nat /\ Weekday(b + 5) \in Nat /\ Weekday(b + 6) \in Nat
  BY WeekdayIsNat
<1>4. QED
  BY <1>1, <1>2, <1>3

\* The closed form, from one day to the next.
LEMMA NextDayCounts ==
    ASSUME NEW then \in Nat, NEW now \in Nat, then <= now
    PROVE  /\ BusinessDaysSince(then, now) \in Nat
           /\ BusinessDaysSince(then, now + 1) = BusinessDaysSince(then, now) + Weekday(now + 1)
<1>0. PICK b \in 0..6 : b = then % 7
  OBVIOUS
<1> DEFINE Closed(n) == ((n - then) \div 7) * 5 + Trailing(b, (n - then) % 7)
<1>1. now + 1 \in Nat /\ now + 1 > then
  OBVIOUS
<1>2. \A n \in Nat : n >= then => BusinessDaysSince(then, n) = Closed(n)
  <2>1. Trailing(b, 0) = 0
    BY <1>1, TrailingGrows
  <2>2. ASSUME NEW n \in Nat, n = then PROVE BusinessDaysSince(then, n) = Closed(n)
    <3>1. (n - then) \div 7 = 0 /\ (n - then) % 7 = 0
      BY <2>2
    <3>2. Closed(n) = 0
      BY <2>1, <3>1
    <3>3. QED
      BY <2>2, <3>2 DEF BusinessDaysSince
  <2>3. ASSUME NEW n \in Nat, n > then PROVE BusinessDaysSince(then, n) = Closed(n)
    BY <1>0, <2>3 DEF BusinessDaysSince, Trailing
  <2>4. QED
    BY <2>2, <2>3
<1>3. PICK weeks \in Nat, rest \in 0..6 : now - then = 7 * weeks + rest
  <2>1. now - then = 7 * ((now - then) \div 7) + ((now - then) % 7)
        /\ (now - then) \div 7 \in Nat /\ (now - then) % 7 \in 0..6
    OBVIOUS
  <2>2. QED
    BY <2>1
<1>4. (now - then) \div 7 = weeks /\ (now - then) % 7 = rest
  BY <1>3
<1>5. Trailing(b, rest) \in Nat /\ Trailing(b, rest + 1) = Trailing(b, rest) + Weekday(b + rest + 1)
  <2>1. \A r \in Nat :
           Trailing(b, r) \in Nat /\ Trailing(b, r + 1) = Trailing(b, r) + Weekday(b + r + 1)
    BY TrailingGrows
  <2>2. rest \in Nat
    OBVIOUS
  <2>3. QED
    BY <2>1, <2>2
<1>6. Weekday(now + 1) \in Nat /\ Weekday(b) \in Nat /\ Weekday(b + rest + 1) \in Nat
  BY WeekdayIsNat
<1>7. Weekday(now + 1) = Weekday(b + rest + 1)
  <2>1. PICK q \in Int : then = 7 * q + b
    BY <1>0, then = 7 * (then \div 7) + (then % 7), then \div 7 \in Int
  <2>2. now + 1 = 7 * (weeks + q) + (b + rest + 1) /\ weeks + q \in Int
    BY <1>1, <1>3, <2>1
  <2>3. (now + 1) % 7 = (b + rest + 1) % 7
    BY <1>1, <1>3, <2>2
  <2>4. QED
    BY <2>3 DEF Weekday
<1>8. CASE rest < 6
  <2>1. ((now + 1) - then) \div 7 = weeks /\ ((now + 1) - then) % 7 = rest + 1
    BY <1>3, <1>8
  <2>2. BusinessDaysSince(then, now + 1) = weeks * 5 + Trailing(b, rest + 1)
    BY <1>1, <1>2, <2>1
  <2>3. BusinessDaysSince(then, now) = weeks * 5 + Trailing(b, rest)
    BY <1>2, <1>4
  <2>4. QED
    BY <1>3, <1>5, <1>6, <1>7, <2>2, <2>3
<1>9. CASE rest = 6
  <2>1. ((now + 1) - then) \div 7 = weeks + 1 /\ ((now + 1) - then) % 7 = 0
    BY <1>3, <1>9
  <2>2. Trailing(b, 0) = 0 /\ Trailing(b, 6) + Weekday(b) = 5
    BY <1>1, TrailingGrows, SixDays
  <2>3. BusinessDaysSince(then, now + 1) = (weeks + 1) * 5
    BY <1>1, <1>2, <1>3, <2>1, <2>2
  <2>4. BusinessDaysSince(then, now) = weeks * 5 + Trailing(b, 6)
    BY <1>2, <1>4, <1>9
  <2>5. Weekday(now + 1) = Weekday(b)
    <3>1. (b + 6 + 1) % 7 = b % 7
      BY <1>1
    <3>2. Weekday(b + 6 + 1) = Weekday(b)
      BY <3>1 DEF Weekday
    <3>3. QED
      BY <1>7, <1>9, <3>2
  <2>6. Trailing(b, 6) \in Nat
    BY <1>5, <1>9
  <2>7. QED
    BY <1>3, <1>6, <2>2, <2>3, <2>4, <2>5, <2>6
<1>10. QED
  BY <1>3, <1>8, <1>9
\* The closed form counts the weekdays: were there a first distance at which it
\* did not, the day before it would be a smaller one.
LEMMA CountsWeekdays ==
    ASSUME NEW then \in Nat, NEW k \in Nat
    PROVE  BusinessDaysSince(then, then + k)
             = Cardinality({d \in (then + 1)..(then + k) : d % 7 < 5})
<1> DEFINE C(n) == {d \in (then + 1)..(then + n) : d % 7 < 5}
           wrong == {n \in Nat : BusinessDaysSince(then, then + n) # Cardinality(C(n))}
<1>1. Cardinality(C(0)) = 0 /\ BusinessDaysSince(then, then + 0) = 0
  <2>1. C(0) = {}
    OBVIOUS
  <2>2. BusinessDaysSince(then, then + 0) = 0
    BY DEF BusinessDaysSince
  <2> HIDE DEF C
  <2>3. QED
    BY <2>1, <2>2, FS_EmptySet
<1>2. ASSUME NEW n \in Nat
      PROVE  Cardinality(C(n + 1)) = Cardinality(C(n)) + Weekday(then + n + 1)
  <2>1. IsFiniteSet(C(n))
    <3>1. IsFiniteSet((then + 1)..(then + n)) /\ C(n) \subseteq (then + 1)..(then + n)
      BY FS_Interval
    <3>2. QED
      BY <3>1, FS_Subset
  <2>2. then + n + 1 \notin C(n)
    OBVIOUS
  <2>3. C(n + 1) = IF (then + n + 1) % 7 < 5 THEN C(n) \union {then + n + 1} ELSE C(n)
    <3>1. (then + 1)..(then + (n + 1)) = ((then + 1)..(then + n)) \union {then + n + 1}
      OBVIOUS
    <3>2. QED
      BY <3>1
  <2> HIDE DEF C
  <2>4. Cardinality(C(n)) \in Nat
        /\ Cardinality(C(n) \union {then + n + 1}) = Cardinality(C(n)) + 1
    BY <2>1, <2>2, FS_AddElement, FS_CardinalityType
  <2>5. QED
    BY <2>3, <2>4 DEF Weekday
<1>3. wrong = {}
  <2> SUFFICES ASSUME wrong # {} PROVE FALSE
    OBVIOUS
  <2>1. PICK n \in wrong : \A m \in wrong : n <= m
    <3>1. wrong \subseteq Nat
      OBVIOUS
    <3> HIDE DEF wrong
    <3>2. QED
      BY <3>1, LeastExists
  <2>2. n \in Nat /\ BusinessDaysSince(then, then + n) # Cardinality(C(n))
    BY <2>1
  <2>3. n # 0
    BY <1>1, <2>2
  <2>4. PICK m \in Nat : n = m + 1
    BY <2>2, <2>3
  <2>5. m \notin wrong
    BY <2>1, <2>4
  <2>6. BusinessDaysSince(then, then + m) = Cardinality(C(m))
    BY <2>5
  <2>7. BusinessDaysSince(then, (then + m) + 1) = BusinessDaysSince(then, then + m) + Weekday((then + m) + 1)
    <3>1. then + m \in Nat /\ then <= then + m
      OBVIOUS
    <3>2. QED
      BY <3>1, NextDayCounts
  <2>8. Cardinality(C(m + 1)) = Cardinality(C(m)) + Weekday(then + m + 1)
    BY <1>2
  <2>9. then + n = (then + m) + 1 /\ then + m + 1 = (then + m) + 1
    BY <2>4
  <2> HIDE DEF C
  <2>10. QED
    BY <2>2, <2>4, <2>6, <2>7, <2>8, <2>9
<1>4. QED
  BY <1>3

\* The moments of an entry are days of the calendar.
LEMMA TimesAreDays == Times \subseteq Nat
<1>1. FirstDay \in Nat /\ LastDay \in Nat /\ Lag \in Nat /\ Lag <= FirstDay
  BY CadenceAssumption
<1>2. (FirstDay - Lag)..(LastDay + Lag) \subseteq Nat
  BY <1>1
<1>3. QED
  BY <1>2, CadenceAssumption

\* The closed form counts the weekdays between any two days.
THEOREM DaysCountedHolds == Spec => []DaysCounted
<1>1. TypeOK => DaysCounted
  <2> SUFFICES ASSUME TypeOK, NEW then \in Times, NEW week \in 0..2
               PROVE  BusinessDaysSince(then, today + 7 * week)
                        = Cardinality({d \in (then + 1)..(today + 7 * week) : d % 7 < 5})
    BY DEF DaysCounted
  <2>1. PICK now \in Int : now = today + 7 * week
    BY TodayIsATime
  <2>2. then \in Nat
    BY TimesAreDays
  <2>3. CASE then <= now
    <3>1. PICK k \in Nat : now = then + k
      BY <2>2, <2>3, now - then \in Nat
    <3>2. QED
      BY <2>1, <2>2, <3>1, CountsWeekdays
  <2>4. CASE then > now
    <3>1. {d \in (then + 1)..now : d % 7 < 5} = {}
      BY <2>2, <2>4
    <3>2. BusinessDaysSince(then, now) = 0
      BY <2>2, <2>4 DEF BusinessDaysSince
    <3>3. QED
      BY <2>1, <3>1, <3>2, FS_EmptySet
  <2>5. QED
    BY <2>2, <2>3, <2>4
<1>2. QED
  BY <1>1, TypeCorrect, PTL

-----------------------------------------------------------------------------
(* A follow-up is offered first.                                            *)

\* A cold contact below the maximum is parked only by the last branch of the
\* tree, and that branch decides on every other day too.
LEMMA ColdOnEveryDay ==
    ASSUME NEW day, Due(day) = "park", ~ (Outbound >= MaxCold)
    PROVE  /\ Outbound # 0
           /\ BusinessIdle(day, FollowupAfter)
           /\ \A d : /\ BusinessIdle(d, FollowupAfter)
                    /\ ~ BusinessIdle(d, FollowupExpires + 1)
                    => Due(d) = "follow_up"
<1>1. None # "park"
  BY CadenceAssumption DEF Cards
<1>2. row.warmth = "cold" /\ row.state = "no_reply" /\ ColdCard(day) = "park"
  BY <1>1 DEF Due, ChattedCard
<1>3. \A d : Due(d) = ColdCard(d)
  BY <1>2 DEF Due, ThanksOwed, RepingDue, WARM, QUEUE_SILENT_THREAD_STATES
<1>4. Outbound # 0 /\ BusinessIdle(day, FollowupAfter)
  BY <1>1, <1>2 DEF ColdCard
<1>5. QED
  BY <1>3, <1>4 DEF ColdCard

\* No clock has run on day 0, which none of the touches is before.
LEMMA DayZero ==
    ASSUME TypeOK, Outbound # 0
    PROVE  ~ BusinessIdle(0, FollowupAfter)
<1>1. Of(OUTBOUND_KINDS) # {}
  <2>1. Cardinality({}) = 0
    BY FS_EmptySet
  <2>2. QED
    BY <2>1 DEF Outbound
<1>2. PICK i \in DOMAIN touches : touches[i].kind \in OUTBOUND_KINDS
  BY <1>1 DEF Of
<1>3. i \in Real
  BY <1>2 DEF Real, Of, OUTBOUND_KINDS, Kinds, TouchKinds, CLOCK_SILENT_KINDS
<1>4. touches[i].ts \in Nat
  <2>1. touches[i] \in Entries
    BY <1>2 DEF TypeOK
  <2>2. QED
    BY <2>1, TimesAreDays DEF Entries
<1>5. BusinessDaysSince(touches[i].ts, 0) = 0
  BY <1>4 DEF BusinessDaysSince
<1>6. ~ (0 >= FollowupAfter)
  BY CadenceAssumption
<1>7. QED
  BY <1>3, <1>5, <1>6 DEF BusinessIdle

\* From one day to the next the business days since a touch grow by at most
\* one, so the clock of a cold note passes through the whole of its window.
LEMMA NoHole ==
    ASSUME TypeOK, NEW d \in Nat, ~ BusinessIdle(d, FollowupAfter),
           FollowupAfter <= FollowupExpires
    PROVE  ~ BusinessIdle(d + 1, FollowupExpires + 1)
<1>1. PICK i \in Real : ~ (BusinessDaysSince(touches[i].ts, d) >= FollowupAfter)
  BY DEF BusinessIdle
<1>2. PICK ts \in Nat : ts = touches[i].ts
  <2>1. touches[i] \in Entries
    BY DEF TypeOK, Real, Of
  <2>2. QED
    BY <2>1, TimesAreDays DEF Entries
<1>3. FollowupAfter \in Nat \ {0} /\ FollowupExpires \in Nat
  BY CadenceAssumption
<1>4. BusinessDaysSince(ts, d + 1) \in Int /\ BusinessDaysSince(ts, d + 1) <= FollowupAfter
  <2>1. CASE ts <= d
    <3>1. /\ BusinessDaysSince(ts, d) \in Nat
          /\ BusinessDaysSince(ts, d + 1) = BusinessDaysSince(ts, d) + Weekday(d + 1)
      BY <2>1, NextDayCounts
    <3>2. Weekday(d + 1) \in {0, 1}
      BY DEF Weekday
    <3>3. QED
      BY <1>1, <1>2, <1>3, <3>1, <3>2
  <2>2. CASE d < ts
    <3>1. BusinessDaysSince(ts, d + 1) = 0
      BY <2>2 DEF BusinessDaysSince
    <3>2. QED
      BY <1>3, <3>1
  <2>3. QED
    BY <2>1, <2>2
<1>5. ~ (BusinessDaysSince(ts, d + 1) >= FollowupExpires + 1)
  BY <1>3, <1>4
<1>6. QED
  BY <1>1, <1>2, <1>5 DEF BusinessIdle

\* The touches count.
LEMMA OutboundIsNat == TypeOK => Outbound \in Nat
<1> SUFFICES ASSUME TypeOK PROVE Outbound \in Nat
  OBVIOUS
<1>1. Len(touches) \in Nat /\ DOMAIN touches = 1..Len(touches)
  BY DEF TypeOK
<1>2. IsFiniteSet(1..Len(touches)) /\ Of(OUTBOUND_KINDS) \subseteq 1..Len(touches)
  BY <1>1, FS_Interval DEF Of
<1>3. QED
  BY <1>2, FS_Subset, FS_CardinalityType DEF Outbound

\* The first day the note was old enough was a day of its follow-up.
LEMMA FirstDayOfWindow ==
    ASSUME TypeOK, FollowupAfter <= FollowupExpires, Due(today) = "park", ~ (Outbound >= MaxCold)
    PROVE  \E d \in 0..today : Due(d) = "follow_up"
<1>1. /\ Outbound # 0
      /\ BusinessIdle(today, FollowupAfter)
      /\ \A d : /\ BusinessIdle(d, FollowupAfter)
               /\ ~ BusinessIdle(d, FollowupExpires + 1)
               => Due(d) = "follow_up"
  BY ColdOnEveryDay
<1>2. today \in Nat
  BY TodayIsATime, TimesAreDays
<1> DEFINE old == {d \in 0..today : BusinessIdle(d, FollowupAfter)}
<1>3. today \in old /\ old \subseteq Nat
  BY <1>1, <1>2
<1>4. PICK first \in old : \A d \in old : first <= d
  <2> HIDE DEF old
  <2>1. QED
    BY <1>3, LeastExists
<1>5. first \in 0..today /\ BusinessIdle(first, FollowupAfter)
  BY <1>4
<1>6. first # 0
  BY <1>1, <1>5, DayZero
<1>7. PICK before \in Nat : first = before + 1
  BY <1>2, <1>5, <1>6, first - 1 \in Nat
<1>8. ~ BusinessIdle(before, FollowupAfter)
  <2>1. before \in 0..today /\ ~ (first <= before)
    BY <1>2, <1>5, <1>7
  <2>2. before \notin old
    BY <1>4, <2>1
  <2>3. QED
    BY <2>1, <2>2
<1>9. ~ BusinessIdle(first, FollowupExpires + 1)
  BY <1>7, <1>8, NoHole
<1>10. QED
  BY <1>1, <1>5, <1>9

\* A note is given up for unanswered only after a day on which the follow-up
\* was offered.
THEOREM FollowUpFirstHolds == Spec => []FollowUpFirst
<1>1. TypeOK => FollowUpFirst
  <2> SUFFICES ASSUME TypeOK, FollowupAfter <= FollowupExpires, Due(today) = "park",
                      Outbound < MaxCold
               PROVE  \E d \in 0..today : Due(d) = "follow_up"
    BY DEF FollowUpFirst
  <2>1. ~ (Outbound >= MaxCold)
    BY OutboundIsNat, CadenceAssumption
  <2>2. QED
    BY <2>1, FirstDayOfWindow
<1>2. QED
  BY <1>1, TypeCorrect, PTL
=============================================================================
