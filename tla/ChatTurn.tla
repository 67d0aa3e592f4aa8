------------------------------ MODULE ChatTurn ------------------------------
(***************************************************************************)
(* Chat turns of one conversation (networkly_web/assistant: agent.py,      *)
(* metering.py, locks.py, recovery.py, views.py).                          *)
(*                                                                         *)
(* A turn is a web request that owns the conversation through an advisory  *)
(* lock on a dedicated database session, reserves its credits, asks the    *)
(* model round by round, runs the tools it asks for and saves the answer   *)
(* in the transaction that settles the reservation.  Turns may fail, be    *)
(* abandoned by the browser, be killed, or lose the session their lock     *)
(* lives in; a cron job refunds what dead turns left pending.              *)
(*                                                                         *)
(* Each database transaction is one action.  What the code reads before a  *)
(* write and acts on later (ensure_owned before a reply or a settlement,   *)
(* the recovery job's list of rows) is a step of its own.                  *)
(***************************************************************************)
EXTENDS Integers, Sequences, FiniteSets

CONSTANTS
    Turns,      \* the requests that post, stream or edit a message
    MaxRounds,  \* agent.MAX_ROUNDS
    Window,     \* agent.REPLAY_TURNS, rows sent back to the model
    MaxKills,   \* bound: processes killed
    MaxLosses,  \* bound: lock sessions lost under a living process
    Job,        \* the recovery cron job, as a lock owner
    Nobody      \* no lock owner

ASSUME TurnAssumption ==
    /\ MaxRounds \in Nat \ {0} /\ Window \in Nat \ {0}
    /\ MaxKills \in Nat /\ MaxLosses \in Nat
    /\ Job \notin Turns /\ Nobody \notin Turns /\ Job # Nobody

VARIABLES
    pc,         \* where each turn is
    round,      \* its provider calls so far
    reply,      \* what its last provider call returned
    sent,       \* whether the API accepts the messages of its last call
    session,    \* its lock session: "none", "open" or "lost"
    owner,      \* who holds the conversation's advisory lock
    res,        \* status of its ChatTurnReservation
    net,        \* sum of its ledger rows, in units of its cost
    answered,   \* turns whose final answer was saved
    thread,     \* the conversation's replayable ChatMessage rows
    exists,     \* the ChatConversation row is there
    account,    \* "active", "inactive" or "deleted"
    job,        \* the recovery job: the row it is at
    jobpc,
    kills, losses

turnVars   == <<pc, round, reply, sent, session>>
creditVars == <<res, net, answered>>
jobVars    == <<job, jobpc>>
boundVars  == <<kills, losses>>
vars == <<turnVars, owner, creditVars, thread, exists, account, jobVars, boundVars>>

Replies == {"tool_use", "answer", "empty"}
Rows == [kind : {"question", "tool_result"} \union Replies, turn : Turns, round : 0..MaxRounds]
Row(kind, t, r) == [kind |-> kind, turn |-> t, round |-> r]

-----------------------------------------------------------------------------
(* Replay: the messages sent to the model (_replayable, _api_messages,     *)
(* _repair_interrupted_tools).  A message carries the tool calls it makes  *)
(* and the tool calls it answers.                                          *)

Last(n, s) == SubSeq(s, IF Len(s) > n THEN Len(s) - n + 1 ELSE 1, Len(s))

\* The window opens on a genuine question.
FromQuestion(s) ==
    LET questions == {i \in DOMAIN s : s[i].kind = "question"}
    IN  IF questions = {} THEN <<>>
        ELSE SubSeq(s, CHOOSE i \in questions : \A j \in questions : i <= j, Len(s))

Message(row) ==
    [user    |-> row.kind \in {"question", "tool_result"},
     calls   |-> IF row.kind = "tool_use" THEN {<<row.turn, row.round>>} ELSE {},
     answers |-> IF row.kind = "tool_result" THEN {<<row.turn, row.round>>} ELSE {}]

\* The tool calls of message i that the message after it does not answer.
Unanswered(s, i) ==
    Message(s[i]).calls \ (IF i = Len(s) THEN {} ELSE Message(s[i + 1]).answers)

IsUser(s, i) == i <= Len(s) /\ Message(s[i]).user

\* Mutant of Repaired: the stored history as it is.
RepairedNot(s) ==
    [i \in DOMAIN s |-> [calls |-> Message(s[i]).calls,
                         answers |-> Message(s[i]).answers, added |-> {}]]

\* An error result for every such call: in the user's message that follows,
\* or (`added`) in a message of its own right after the call.
Repaired(s) ==
    [i \in DOMAIN s |->
        [calls   |-> Message(s[i]).calls,
         answers |-> Message(s[i]).answers \union
                        (IF i > 1 /\ IsUser(s, i) THEN Unanswered(s, i - 1) ELSE {}),
         added   |-> IF IsUser(s, i + 1) THEN {} ELSE Unanswered(s, i)]]

Replay == Repaired(FromQuestion(Last(Window, thread)))

\* The Messages API wants every tool call answered in the message right after
\* it, and takes an answer nowhere else.
Accepted(msgs) ==
    \A i \in DOMAIN msgs :
        /\ msgs[i].calls \subseteq
              msgs[i].added \union (IF i = Len(msgs) THEN {} ELSE msgs[i + 1].answers)
        /\ msgs[i].answers \subseteq
              (IF i = 1 \/ msgs[i - 1].added # {} THEN {} ELSE msgs[i - 1].calls)

-----------------------------------------------------------------------------
Init ==
    /\ pc = [t \in Turns |-> "new"]
    /\ round = [t \in Turns |-> 0]
    /\ reply = [t \in Turns |-> "empty"]
    /\ sent = [t \in Turns |-> TRUE]
    /\ session = [t \in Turns |-> "none"]
    /\ owner = Nobody
    /\ res = [t \in Turns |-> "absent"]
    /\ net = [t \in Turns |-> 0]
    /\ answered = {}
    /\ thread = <<>>
    /\ exists = TRUE
    /\ account = "active"
    /\ job = Nobody /\ jobpc = "idle"
    /\ kills = 0 /\ losses = 0

Goto(t, label) == pc' = [pc EXCEPT ![t] = label]

\* TurnCharge.ensure_owned: the session answers and the account is active.
Owned(t) == session[t] = "open" /\ account = "active"

\* charge_turn / charge_stream up to the lock: an inactive account, a missing
\* conversation or a busy one ends the request.
Enter(t) ==
    /\ pc[t] = "new"
    /\ IF account = "active" /\ exists /\ owner = Nobody
       THEN /\ owner' = t
            /\ session' = [session EXCEPT ![t] = "open"]
            /\ Goto(t, "open")
       ELSE /\ Goto(t, "done")
            /\ UNCHANGED <<owner, session>>
    /\ UNCHANGED <<round, reply, sent, creditVars, thread, exists, account, jobVars, boundVars>>

\* The conversation is checked again under the lock, then the question is
\* saved: appended, or (edit_message's prepare_turn) rewritten in place with
\* every later row deleted.
Question(t) ==
    /\ pc[t] = "open"
    /\ IF exists /\ account # "deleted"
       THEN /\ \/ thread' = Append(thread, Row("question", t, 0))
               \/ \E i \in DOMAIN thread :
                    /\ thread[i].kind = "question"
                    /\ thread' = Append(SubSeq(thread, 1, i - 1), Row("question", t, 0))
            /\ Goto(t, "reserve")
       ELSE /\ Goto(t, "unwind")
            /\ UNCHANGED thread
    /\ UNCHANGED <<round, reply, sent, session, owner, creditVars, exists, account,
                   jobVars, boundVars>>

\* TurnCharge.reserve: refused for lack of credits (or an unconfigured
\* model), or the debit and the pending row in one transaction.
Reserve(t) ==
    /\ pc[t] = "reserve"
    /\ \/ /\ Owned(t)
          /\ res' = [res EXCEPT ![t] = "pending"]
          /\ net' = [net EXCEPT ![t] = @ - 1]
          /\ Goto(t, "ask")
       \/ /\ Goto(t, "unwind")
          /\ UNCHANGED <<res, net>>
    /\ UNCHANGED <<round, reply, sent, session, owner, answered, thread, exists, account,
                   jobVars, boundVars>>

\* One provider call: ensure_owned, build the messages, ensure_owned, send.
Ask(t) ==
    /\ pc[t] = "ask"
    /\ IF Owned(t)
       THEN /\ sent' = [sent EXCEPT ![t] = Accepted(Replay)]
            /\ round' = [round EXCEPT ![t] = @ + 1]
            /\ Goto(t, "model")
       ELSE /\ Goto(t, "unwind")
            /\ UNCHANGED <<sent, round>>
    /\ UNCHANGED <<reply, session, owner, creditVars, thread, exists, account, jobVars, boundVars>>

\* The provider fails, or answers; ensure_owned again (after the call, and
\* at the top of _save_turn_reply).
Answer(t) ==
    /\ pc[t] = "model"
    /\ \/ /\ Owned(t) /\ sent[t]
          /\ \E r \in Replies : reply' = [reply EXCEPT ![t] = r]
          /\ Goto(t, "save")
       \/ /\ Goto(t, "unwind")
          /\ UNCHANGED reply
    /\ UNCHANGED <<round, sent, session, owner, creditVars, thread, exists, account,
                   jobVars, boundVars>>

\* Mutant of SaveReply: an empty reply settles the reservation.
SaveReplySettled(t) ==
    /\ pc[t] = "save" /\ reply[t] # "answer"
    /\ IF exists /\ account # "deleted"
       THEN /\ thread' = Append(thread, Row(reply[t], t, round[t]))
            /\ Goto(t, IF reply[t] = "tool_use" THEN "tools" ELSE "release")
            /\ res' = [res EXCEPT ![t] = IF reply[t] = "tool_use" THEN @ ELSE "settled"]
       ELSE /\ Goto(t, "unwind")
            /\ UNCHANGED <<thread, res>>
    /\ UNCHANGED <<round, reply, sent, session, owner, net, answered, exists, account,
                   jobVars, boundVars>>

\* _save_turn_reply when the reply is not an answer: a tool request goes on
\* to the tools, an empty reply to the refund.
SaveReply(t) ==
    /\ pc[t] = "save" /\ reply[t] # "answer"
    /\ IF exists /\ account # "deleted"
       THEN /\ thread' = Append(thread, Row(reply[t], t, round[t]))
            /\ Goto(t, IF reply[t] = "tool_use" THEN "tools" ELSE "unwind")
       ELSE /\ Goto(t, "unwind")
            /\ UNCHANGED thread
    /\ UNCHANGED <<round, reply, sent, session, owner, creditVars, exists, account,
                   jobVars, boundVars>>

\* TurnCharge.keep's own ensure_owned, inside the answer's transaction.
Keep(t) ==
    /\ pc[t] = "save" /\ reply[t] = "answer"
    /\ Goto(t, IF Owned(t) THEN "settle" ELSE "unwind")
    /\ UNCHANGED <<round, reply, sent, session, owner, creditVars, thread, exists,
                   account, jobVars, boundVars>>

\* Mutant of Finish: the status is not looked at again under the lock.
FinishAgain(t, status) ==
    IF account # "deleted" /\ res[t] # "absent"
    THEN /\ res' = [res EXCEPT ![t] = status]
         /\ net' = [net EXCEPT ![t] = @ + (IF status = "refunded" THEN 1 ELSE 0)]
    ELSE UNCHANGED <<res, net>>

\* finish_reservation under the user row lock: a row that is not pending any
\* more is left alone, and keep() does not ask whether it was.
Finish(t, status) ==
    IF account # "deleted" /\ res[t] = "pending"
    THEN /\ res' = [res EXCEPT ![t] = status]
         /\ net' = [net EXCEPT ![t] = @ + (IF status = "refunded" THEN 1 ELSE 0)]
    ELSE UNCHANGED <<res, net>>

\* The answer's transaction commits: the row and the settlement together, or
\* neither when the conversation or the account is gone.
Settle(t) ==
    /\ pc[t] = "settle"
    /\ IF exists /\ account # "deleted"
       THEN /\ Finish(t, "settled")
            /\ answered' = answered \union {t}
            /\ thread' = Append(thread, Row("answer", t, round[t]))
            /\ Goto(t, "release")
       ELSE /\ Goto(t, "unwind")
            /\ UNCHANGED <<creditVars, thread>>
    /\ UNCHANGED <<round, reply, sent, session, owner, exists, account, jobVars, boundVars>>

\* ensure_owned before each tool that runs; calls over the conversation's
\* tool limit are answered without running, or checking, anything.
Tools(t) ==
    /\ pc[t] = "tools"
    /\ \/ Goto(t, "results")
       \/ ~ Owned(t) /\ Goto(t, "unwind")
    /\ UNCHANGED <<round, reply, sent, session, owner, creditVars, thread, exists,
                   account, jobVars, boundVars>>

\* Mutant of SaveResults: no round budget.
SaveResultsUnbounded(t) ==
    /\ pc[t] = "results"
    /\ IF exists /\ account # "deleted"
       THEN /\ thread' = Append(thread, Row("tool_result", t, round[t]))
            /\ Goto(t, "ask")
       ELSE /\ Goto(t, "unwind")
            /\ UNCHANGED thread
    /\ UNCHANGED <<round, reply, sent, session, owner, creditVars, exists, account,
                   jobVars, boundVars>>

\* The tool results are saved without another ensure_owned; the round budget
\* may be used up.
SaveResults(t) ==
    /\ pc[t] = "results"
    /\ IF exists /\ account # "deleted"
       THEN /\ thread' = Append(thread, Row("tool_result", t, round[t]))
            /\ Goto(t, IF round[t] = MaxRounds THEN "unwind" ELSE "ask")
       ELSE /\ Goto(t, "unwind")
            /\ UNCHANGED thread
    /\ UNCHANGED <<round, reply, sent, session, owner, creditVars, exists, account,
                   jobVars, boundVars>>

\* Every ending without an answer: TurnCharge.refund, which needs no lock.
Refund(t) ==
    /\ pc[t] = "unwind"
    /\ Finish(t, "refunded")
    /\ Goto(t, "release")
    /\ UNCHANGED <<round, reply, sent, session, owner, answered, thread, exists, account,
                   jobVars, boundVars>>

\* ConversationLock.__exit__ closes the session, and with it the lock.
Unlock(t) == owner' = IF owner = t THEN Nobody ELSE owner

Release(t) ==
    /\ pc[t] = "release"
    /\ Unlock(t)
    /\ session' = [session EXCEPT ![t] = "none"]
    /\ Goto(t, "done")
    /\ UNCHANGED <<round, reply, sent, creditVars, thread, exists, account, jobVars, boundVars>>

\* The browser goes away while the reply streams: the generator is closed at
\* its next yield and unwinds.
Disconnect(t) ==
    /\ pc[t] \in {"model", "tools"}
    /\ Goto(t, "unwind")
    /\ UNCHANGED <<round, reply, sent, session, owner, creditVars, thread, exists,
                   account, jobVars, boundVars>>

\* A worker killed by the host.  PostgreSQL closes its session; a transaction
\* in flight is rolled back.
Kill(t) ==
    /\ pc[t] \notin {"new", "done", "dead"}
    /\ kills < MaxKills
    /\ kills' = kills + 1
    /\ Unlock(t)
    /\ session' = [session EXCEPT ![t] = "none"]
    /\ Goto(t, "dead")
    /\ UNCHANGED <<round, reply, sent, creditVars, thread, exists, account, jobVars, losses>>

\* The dedicated session drops under a living process (the server restarts,
\* the connection is cut): the lock is free and the process does not know.
LoseSession(t) ==
    /\ session[t] = "open"
    /\ losses < MaxLosses
    /\ losses' = losses + 1
    /\ Unlock(t)
    /\ session' = [session EXCEPT ![t] = "lost"]
    /\ UNCHANGED <<pc, round, reply, sent, creditVars, thread, exists, account, jobVars, kills>>

\* is_active is switched off, or back on, by an administrator.
SwitchAccount ==
    /\ account # "deleted"
    /\ account' = IF account = "active" THEN "inactive" ELSE "active"
    /\ UNCHANGED <<turnVars, owner, creditVars, thread, exists, jobVars, boundVars>>

\* delete_user_and_data: every row of the account in one transaction.
DeleteAccount ==
    /\ account # "deleted"
    /\ account' = "deleted"
    /\ res' = [t \in Turns |-> "erased"]
    /\ net' = [t \in Turns |-> 0]
    /\ thread' = <<>> /\ exists' = FALSE
    /\ UNCHANGED <<turnVars, owner, answered, jobVars, boundVars>>

\* delete_conversation, under the same lock.  Reservations keep their own
\* copy of the conversation's key.
DeleteConversation ==
    /\ account = "active" /\ exists /\ owner = Nobody
    /\ thread' = <<>> /\ exists' = FALSE
    /\ UNCHANGED <<turnVars, owner, creditVars, account, jobVars, boundVars>>

-----------------------------------------------------------------------------
(* The recovery job (recovery.reconcile_reservations).                     *)

\* Mutant of JobSelect: rows are found through their conversation.
JobSelectByConversation(t) ==
    /\ jobpc = "idle" /\ res[t] = "pending" /\ exists
    /\ job' = t /\ jobpc' = "listed"
    /\ UNCHANGED <<turnVars, owner, creditVars, thread, exists, account, boundVars>>

\* The query for old pending rows reaches t.
JobSelect(t) ==
    /\ jobpc = "idle" /\ res[t] = "pending"
    /\ job' = t /\ jobpc' = "listed"
    /\ UNCHANGED <<turnVars, owner, creditVars, thread, exists, account, boundVars>>

\* Mutant of JobLock: the age of the row proves its turn dead.
JobLockByAge ==
    /\ jobpc = "listed"
    /\ jobpc' = "locked"
    /\ UNCHANGED <<turnVars, owner, creditVars, thread, exists, account, job, boundVars>>

\* Try the lock of the row's conversation; skip the row when it is taken.
JobLock ==
    /\ jobpc = "listed"
    /\ IF owner = Nobody
       THEN owner' = Job /\ jobpc' = "locked" /\ UNCHANGED job
       ELSE job' = Nobody /\ jobpc' = "idle" /\ UNCHANGED owner
    /\ UNCHANGED <<turnVars, creditVars, thread, exists, account, boundVars>>

JobFinish ==
    /\ jobpc = "locked"
    /\ Finish(job, "refunded")
    /\ jobpc' = "finished"
    /\ UNCHANGED <<turnVars, owner, answered, thread, exists, account, job, boundVars>>

\* The session closes.
JobIdle ==
    /\ owner' = IF owner = Job THEN Nobody ELSE owner
    /\ job' = Nobody /\ jobpc' = "idle"
    /\ UNCHANGED <<turnVars, creditVars, thread, exists, account>>

JobRelease == jobpc = "finished" /\ JobIdle /\ UNCHANGED boundVars

JobKill ==
    /\ jobpc # "idle"
    /\ kills < MaxKills
    /\ kills' = kills + 1
    /\ JobIdle
    /\ UNCHANGED losses

-----------------------------------------------------------------------------
\* What a running turn does by itself.
Step(t) ==
    \/ Enter(t) \/ Question(t) \/ Reserve(t) \/ Ask(t) \/ Answer(t)
    \/ SaveReply(t) \/ Keep(t) \/ Settle(t) \/ Tools(t) \/ SaveResults(t)
    \/ Refund(t) \/ Release(t)

Next ==
    \/ \E t \in Turns : Step(t) \/ Disconnect(t) \/ Kill(t) \/ LoseSession(t) \/ JobSelect(t)
    \/ SwitchAccount \/ DeleteAccount \/ DeleteConversation
    \/ JobLock \/ JobFinish \/ JobRelease \/ JobKill

\* A process keeps running until it ends or is killed.  The job runs every
\* ten minutes (render.yaml) and its passes visit every old pending row.
Fairness ==
    /\ \A t \in Turns : WF_vars(Step(t))
    /\ \A t \in Turns : SF_vars(JobSelect(t))
    /\ WF_vars(JobLock) /\ WF_vars(JobFinish) /\ WF_vars(JobRelease)

Safety == Init /\ [][Next]_vars
Spec == Safety /\ Fairness

-----------------------------------------------------------------------------
PCs == {"new", "open", "reserve", "ask", "model", "save", "settle", "tools", "results",
        "unwind", "release", "done", "dead"}

TypeOK ==
    /\ pc \in [Turns -> PCs]
    /\ round \in [Turns -> 0..MaxRounds]
    /\ reply \in [Turns -> Replies]
    /\ sent \in [Turns -> BOOLEAN]
    /\ session \in [Turns -> {"none", "open", "lost"}]
    /\ owner \in Turns \union {Job, Nobody}
    /\ res \in [Turns -> {"absent", "pending", "settled", "refunded", "erased"}]
    /\ net \in [Turns -> {-1, 0}]
    /\ answered \subseteq Turns
    /\ thread \in Seq(Rows)
    /\ exists \in BOOLEAN
    /\ account \in {"active", "inactive", "deleted"}
    /\ job \in Turns \union {Nobody}
    /\ jobpc \in {"idle", "listed", "locked", "finished"}
    /\ kills \in 0..MaxKills /\ losses \in 0..MaxLosses

\* The ledger and the reservations agree in every state: a turn's credits are
\* spent exactly while its reservation is pending or settled (metering.py,
\* reserve and finish_reservation), whichever of the turn, its unwinding and
\* the recovery job gets to the row first, and however often.
LedgerMatches ==
    \A t \in Turns : net[t] = IF res[t] \in {"pending", "settled"} THEN -1 ELSE 0

\* A turn that was charged was answered (_ending_notice, finish_reservation):
\* no empty reply, exhausted budget, disconnect or crash keeps the credits.
ChargedForAnAnswer ==
    \A t \in Turns : res[t] = "settled" => t \in answered

\* A saved answer has settled its reservation: _save_turn_reply puts both in
\* one transaction so that recovery never refunds a delivered answer; as long as
\* lock sessions live as long as their process.
AnswerSettles ==
    losses = 0 => \A t \in answered : res[t] \in {"settled", "erased"}

\* Whatever turns were killed, abandoned or rewound before, the messages a
\* turn sends are ones the API accepts (_replayable, _api_messages,
\* _repair_interrupted_tools); as long as lock sessions live as long as their process.
ReplayAccepted == losses = 0 => \A t \in Turns : sent[t]

\* What finish_reservation's docstring and ChatTurnReservation promise.
Outcome == INSTANCE TurnOutcome
OutcomeSafety == Outcome!Safety

\* A pending reservation is resolved, by the turn or by the recovery job.
PendingResolved == \A t \in Turns : res[t] = "pending" ~> res[t] # "pending"
=============================================================================
