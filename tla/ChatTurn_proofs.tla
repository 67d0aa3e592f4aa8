-------------------------- MODULE ChatTurn_proofs ---------------------------
(* Theorems about ChatTurn, for every number of turns, rounds, kills and     *)
(* every replay window; AnswerSettles and ReplayAccepted speak of histories  *)
(* in which lock sessions live as long as their process.                     *)
EXTENDS ChatTurn, SequenceTheorems, WellFoundedInduction, TLAPS

-----------------------------------------------------------------------------
(* Types, and the agreement of the ledger with the reservations.           *)

\* Where a turn is says how many rounds it may still have and whether it can
\* have a reservation; only a deleted account's reservations are erased.
ControlInv ==
    /\ \A t \in Turns : pc[t] \in {"new", "open", "reserve", "ask"} => round[t] < MaxRounds
    /\ \A t \in Turns : pc[t] \in {"new", "open", "reserve"} => res[t] \in {"absent", "erased"}
    /\ \A t \in Turns : res[t] = "erased" => account = "deleted"
    /\ jobpc # "idle" => job \in Turns

TypeInv == TypeOK /\ LedgerMatches /\ ControlInv

\* Rows appended to, or cut from, a thread leave a thread.
LEMMA ThreadType ==
    ASSUME NEW s \in Seq(Rows), NEW row \in Rows
    PROVE  /\ Append(s, row) \in Seq(Rows)
           /\ \A i \in DOMAIN s : Append(SubSeq(s, 1, i - 1), row) \in Seq(Rows)
<1>1. Append(s, row) \in Seq(Rows)
  OBVIOUS
<1>2. ASSUME NEW i \in DOMAIN s
      PROVE  Append(SubSeq(s, 1, i - 1), row) \in Seq(Rows)
  <2>1. i \in 1..Len(s)
    OBVIOUS
  <2>2. SubSeq(s, 1, i - 1) \in Seq(Rows)
    <3>1. \A j \in 1..(i - 1) : s[j] \in Rows
      BY <2>1, ElementOfSeq
    <3>2. QED
      BY <2>1, <3>1, SubSeqProperties
  <2>3. QED
    BY <2>2
<1>3. QED
  BY <1>1, <1>2

\* The row a turn writes is a row.
LEMMA RowType ==
    ASSUME NEW t \in Turns, NEW k \in {"question", "tool_result"} \union Replies,
           NEW r \in 0..MaxRounds
    PROVE  Row(k, t, r) \in Rows
BY DEF Row, Rows

\* finish_reservation keeps the reservations and the ledger in agreement.
LEMMA FinishType ==
    ASSUME TypeInv, NEW t \in Turns, NEW status \in {"settled", "refunded"},
           Finish(t, status)
    PROVE  /\ res' \in [Turns -> {"absent", "pending", "settled", "refunded", "erased"}]
           /\ net' \in [Turns -> {-1, 0}]
           /\ LedgerMatches'
           /\ \A u \in Turns : res'[u] = "erased" => res[u] = "erased"
           /\ \A u \in Turns : res[u] \in {"absent", "erased"} => res'[u] = res[u]
<1>1. CASE account # "deleted" /\ res[t] = "pending"
  <2>1. /\ res' = [res EXCEPT ![t] = status]
        /\ net' = [net EXCEPT ![t] = @ + (IF status = "refunded" THEN 1 ELSE 0)]
    BY <1>1 DEF Finish
  <2>2. net[t] = -1
    BY <1>1 DEF TypeInv, LedgerMatches
  <2>3. net' = [net EXCEPT ![t] = IF status = "refunded" THEN 0 ELSE -1]
    BY <2>1, <2>2
  <2>4. QED
    BY <1>1, <2>1, <2>3 DEF TypeInv, TypeOK, LedgerMatches
<1>2. CASE ~(account # "deleted" /\ res[t] = "pending")
  <2>1. UNCHANGED <<res, net>>
    BY <1>2 DEF Finish
  <2>2. QED
    BY <2>1 DEF TypeInv, TypeOK, LedgerMatches
<1>3. QED
  BY <1>1, <1>2

\* The initial state is well typed.
LEMMA TypeInitial == Init => TypeInv
BY TurnAssumption DEF Init, TypeInv, TypeOK, LedgerMatches, ControlInv, PCs, Replies

\* Every step keeps it so.
LEMMA TypeStep == TypeInv /\ [Next]_vars => TypeInv'
<1> SUFFICES ASSUME TypeInv, [Next]_vars
             PROVE  TypeInv'
  OBVIOUS
<1> USE TurnAssumption DEF TypeInv, TypeOK, LedgerMatches, ControlInv, PCs, Replies,
        Goto, Unlock, Owned, turnVars, creditVars, jobVars, boundVars
<1>1. ASSUME NEW t \in Turns, Enter(t)
      PROVE  TypeInv'
  BY <1>1 DEF Enter
<1>2. ASSUME NEW t \in Turns, Question(t)
      PROVE  TypeInv'
  <2>1. thread' \in Seq(Rows)
    <3>1. Row("question", t, 0) \in Rows
      BY RowType
    <3>2. Append(thread, Row("question", t, 0)) \in Seq(Rows)
      BY <3>1, ThreadType
    <3>3. \A i \in DOMAIN thread :
             Append(SubSeq(thread, 1, i - 1), Row("question", t, 0)) \in Seq(Rows)
      BY <3>1, ThreadType
    <3>4. \/ thread' = thread
          \/ thread' = Append(thread, Row("question", t, 0))
          \/ \E i \in DOMAIN thread :
                thread' = Append(SubSeq(thread, 1, i - 1), Row("question", t, 0))
      BY <1>2, Zenon DEF Question
    <3>5. QED
      BY <3>2, <3>3, <3>4
  <2>2. /\ pc[t] = "open"
        /\ pc' \in {[pc EXCEPT ![t] = "reserve"], [pc EXCEPT ![t] = "unwind"]}
        /\ UNCHANGED <<round, reply, sent, session, owner, creditVars, exists, account,
                       jobVars, boundVars>>
    BY <1>2, Zenon DEF Question
  <2>3. QED
    BY <2>1, <2>2
<1>3. ASSUME NEW t \in Turns, Reserve(t)
      PROVE  TypeInv'
  <2>1. CASE /\ Owned(t)
             /\ res' = [res EXCEPT ![t] = "pending"]
             /\ net' = [net EXCEPT ![t] = @ - 1]
             /\ Goto(t, "ask")
    <3>1. net[t] = 0
      BY <1>3 DEF Reserve
    <3>2. net' = [net EXCEPT ![t] = -1]
      BY <2>1, <3>1
    <3>3. QED
      BY <1>3, <2>1, <3>2 DEF Reserve
  <2>2. CASE Goto(t, "unwind") /\ UNCHANGED <<res, net>>
    BY <1>3, <2>2 DEF Reserve
  <2>3. QED
    BY <1>3, <2>1, <2>2 DEF Reserve
<1>4. ASSUME NEW t \in Turns, Ask(t)
      PROVE  TypeInv'
  <2>1. sent' \in [Turns -> BOOLEAN]
    <3>1. Accepted(Replay) \in BOOLEAN
      BY DEF Accepted
    <3>2. sent' = sent \/ sent' = [sent EXCEPT ![t] = Accepted(Replay)]
      BY <1>4, Zenon DEF Ask
    <3>3. QED
      BY <3>1, <3>2, Zenon
  <2>2. /\ pc[t] = "ask"
        /\ \/ round' = [round EXCEPT ![t] = @ + 1] /\ pc' = [pc EXCEPT ![t] = "model"]
           \/ round' = round /\ pc' = [pc EXCEPT ![t] = "unwind"]
        /\ UNCHANGED <<reply, session, owner, creditVars, thread, exists, account,
                       jobVars, boundVars>>
    BY <1>4, Zenon DEF Ask
  <2>3. round[t] < MaxRounds
    BY <2>2
  <2>6. pc' \in [Turns -> PCs] /\ round' \in [Turns -> 0..MaxRounds]
    <3>1. round[t] + 1 \in 0..MaxRounds
      BY <2>3
    <3>2. CASE round' = [round EXCEPT ![t] = @ + 1] /\ pc' = [pc EXCEPT ![t] = "model"]
      BY <3>1, <3>2
    <3>3. CASE round' = round /\ pc' = [pc EXCEPT ![t] = "unwind"]
      BY <3>3
    <3>4. QED
      BY <2>2, <3>2, <3>3
  <2>7. TypeOK'
    BY <2>1, <2>2, <2>3, <2>6
  <2>8. LedgerMatches'
    BY <2>1, <2>2, <2>3
  <2>9. ControlInv'
    <3>1. \A u \in Turns : u # t => round'[u] = round[u] /\ pc'[u] = pc[u]
      BY <2>2
    <3>2. pc'[t] \in {"model", "unwind"}
      BY <2>2
    <3>3. QED
      BY <2>2, <3>1, <3>2
  <2>10. QED
    BY <2>7, <2>8, <2>9
<1>5. ASSUME NEW t \in Turns, Answer(t)
      PROVE  TypeInv'
  <2>1. reply' \in [Turns -> Replies]
    BY <1>5 DEF Answer
  <2>2. /\ pc[t] = "model"
        /\ pc' \in {[pc EXCEPT ![t] = "save"], [pc EXCEPT ![t] = "unwind"]}
        /\ UNCHANGED <<round, sent, session, owner, creditVars, thread, exists, account,
                       jobVars, boundVars>>
    BY <1>5, Zenon DEF Answer
  <2>6. pc' \in [Turns -> PCs] /\ round' \in [Turns -> 0..MaxRounds]
    BY <2>1, <2>2
  <2>7. TypeOK'
    BY <2>1, <2>2, <2>6
  <2>8. LedgerMatches'
    BY <2>1, <2>2
  <2>9. ControlInv'
    BY <2>1, <2>2, <2>6
  <2>10. QED
    BY <2>7, <2>8, <2>9
<1>6. ASSUME NEW t \in Turns, SaveReply(t)
      PROVE  TypeInv'
  <2>1. Row(reply[t], t, round[t]) \in Rows
    BY RowType
  <2>2. Append(thread, Row(reply[t], t, round[t])) \in Seq(Rows)
    BY <2>1, ThreadType
  <2>3. thread' \in Seq(Rows)
    BY <1>6, <2>2 DEF SaveReply
  <2>4. /\ pc[t] = "save"
        /\ pc' \in {[pc EXCEPT ![t] = "tools"], [pc EXCEPT ![t] = "unwind"]}
        /\ UNCHANGED <<round, reply, sent, session, owner, creditVars, exists, account,
                       jobVars, boundVars>>
    BY <1>6, Zenon DEF SaveReply
  <2>5. pc' \in [Turns -> PCs]
    <3>1. CASE pc' = [pc EXCEPT ![t] = "tools"]
      BY <3>1
    <3>2. CASE pc' = [pc EXCEPT ![t] = "unwind"]
      BY <3>2
    <3>3. QED
      BY <2>4, <3>1, <3>2
  <2>6. TypeOK'
    BY <2>3, <2>4, <2>5
  <2>7. LedgerMatches'
    BY <2>4
  <2>8. ControlInv'
    BY <2>4, <2>5
  <2>9. QED
    BY <2>6, <2>7, <2>8
<1>7. ASSUME NEW t \in Turns, Keep(t)
      PROVE  TypeInv'
  BY <1>7 DEF Keep
<1>8. ASSUME NEW t \in Turns, Settle(t)
      PROVE  TypeInv'
  <2>1. CASE exists /\ account # "deleted"
    <3>1. Append(thread, Row("answer", t, round[t])) \in Seq(Rows)
      BY RowType, ThreadType
    <3>2. Finish(t, "settled")
      BY <1>8, <2>1 DEF Settle
    <3>3. thread' \in Seq(Rows)
      BY <1>8, <2>1, <3>1 DEF Settle
    <3>4. /\ res' \in [Turns -> {"absent", "pending", "settled", "refunded", "erased"}]
          /\ net' \in [Turns -> {-1, 0}]
          /\ LedgerMatches'
          /\ \A u \in Turns : res'[u] = "erased" => res[u] = "erased"
          /\ \A u \in Turns : res[u] \in {"absent", "erased"} => res'[u] = res[u]
      BY <3>2, FinishType
    <3>5. /\ pc' = [pc EXCEPT ![t] = "release"]
          /\ answered' = answered \union {t}
          /\ UNCHANGED <<round, reply, sent, session, owner, exists, account, jobVars,
                         boundVars>>
      BY <1>8, <2>1 DEF Settle
    <3>6. QED
      BY <3>3, <3>4, <3>5
  <2>2. CASE ~(exists /\ account # "deleted")
    BY <1>8, <2>2 DEF Settle
  <2>3. QED
    BY <2>1, <2>2
<1>9. ASSUME NEW t \in Turns, Tools(t)
      PROVE  TypeInv'
  <2>1. /\ pc[t] = "tools"
        /\ pc' \in {[pc EXCEPT ![t] = "results"], [pc EXCEPT ![t] = "unwind"]}
        /\ UNCHANGED <<round, reply, sent, session, owner, creditVars, thread, exists, account,
                       jobVars, boundVars>>
    BY <1>9, Zenon DEF Tools
  <2>2. pc' \in [Turns -> PCs]
    <3>1. CASE pc' = [pc EXCEPT ![t] = "results"]
      BY <3>1
    <3>2. CASE pc' = [pc EXCEPT ![t] = "unwind"]
      BY <3>2
    <3>3. QED
      BY <2>1, <3>1, <3>2
  <2>3. TypeOK'
    BY <2>1, <2>2
  <2>4. LedgerMatches'
    BY <2>1
  <2>5. ControlInv'
    BY <2>1, <2>2
  <2>6. QED
    BY <2>3, <2>4, <2>5
<1>10. ASSUME NEW t \in Turns, SaveResults(t)
       PROVE  TypeInv'
  <2>1. Append(thread, Row("tool_result", t, round[t])) \in Seq(Rows)
    BY RowType, ThreadType
  <2>2. thread' \in Seq(Rows)
    BY <1>10, <2>1 DEF SaveResults
  <2>3. /\ pc[t] = "results"
        /\ \/ pc' = [pc EXCEPT ![t] = "unwind"]
           \/ pc' = [pc EXCEPT ![t] = "ask"] /\ round[t] # MaxRounds
        /\ UNCHANGED <<round, reply, sent, session, owner, creditVars, exists, account,
                       jobVars, boundVars>>
    BY <1>10, Zenon DEF SaveResults
  <2>6. pc' \in [Turns -> PCs] /\ round' \in [Turns -> 0..MaxRounds]
    BY <2>2, <2>3
  <2>7. TypeOK'
    BY <2>2, <2>3, <2>6
  <2>8. LedgerMatches'
    BY <2>2, <2>3
  <2>9. ControlInv'
    BY <2>2, <2>3, <2>6
  <2>10. QED
    BY <2>7, <2>8, <2>9
<1>11. ASSUME NEW t \in Turns, Refund(t)
       PROVE  TypeInv'
  BY <1>11, FinishType DEF Refund
<1>12. ASSUME NEW t \in Turns, Release(t)
       PROVE  TypeInv'
  BY <1>12 DEF Release
<1>13. ASSUME NEW t \in Turns, Kill(t)
       PROVE  TypeInv'
  BY <1>13 DEF Kill
<1>21. ASSUME NEW t \in Turns, Disconnect(t)
       PROVE  TypeInv'
  BY <1>21 DEF Disconnect
<1>22. ASSUME NEW t \in Turns, LoseSession(t)
       PROVE  TypeInv'
  BY <1>22 DEF LoseSession
<1>14. CASE SwitchAccount \/ DeleteConversation
  <2>1. <<>> \in Seq(Rows)
    OBVIOUS
  <2>2. /\ account' \in {"active", "inactive", "deleted"}
        /\ exists' \in BOOLEAN /\ thread' \in Seq(Rows)
        /\ UNCHANGED <<turnVars, owner, creditVars, jobVars, boundVars>>
    BY <1>14, <2>1 DEF SwitchAccount, DeleteConversation
  <2>3. TypeOK'
    BY <2>2
  <2>4. LedgerMatches'
    BY <2>2
  <2>5. ControlInv'
    BY <2>2, <1>14 DEF SwitchAccount, DeleteConversation
  <2>6. QED
    BY <2>3, <2>4, <2>5
<1>15. CASE DeleteAccount
  <2>1. <<>> \in Seq(Rows)
    OBVIOUS
  <2>2. QED
    BY <1>15, <2>1 DEF DeleteAccount
<1>16. ASSUME NEW t \in Turns, JobSelect(t)
       PROVE  TypeInv'
  BY <1>16 DEF JobSelect
<1>17. CASE JobFinish
  BY <1>17, FinishType DEF JobFinish
<1>18. CASE JobLock \/ JobRelease \/ JobKill
  BY <1>18 DEF JobLock, JobRelease, JobKill, JobIdle
<1>19. CASE UNCHANGED vars
  BY <1>19 DEF vars
<1>20. QED
  BY <1>1, <1>2, <1>3, <1>4, <1>5, <1>6, <1>7, <1>8, <1>9, <1>10, <1>11, <1>12, <1>13,
     <1>14, <1>15, <1>16, <1>17, <1>18, <1>19, <1>21, <1>22 DEF Next, Step

\* Both hold in every reachable state.
LEMMA TypeInvariant == Safety => []TypeInv
BY TypeInitial, TypeStep, PTL DEF Safety

\* Every reachable state is well typed.
THEOREM TypeCorrect == Safety => []TypeOK
<1>1. TypeInv => TypeOK
  BY DEF TypeInv
<1>2. QED
  BY <1>1, TypeInvariant, PTL

\* A turn's credits are spent exactly while its reservation is pending or
\* settled (reserve, finish_reservation), even when lock sessions are lost.
THEOREM LedgerMatchesHolds == Safety => []LedgerMatches
<1>1. TypeInv => LedgerMatches
  BY DEF TypeInv
<1>2. QED
  BY <1>1, TypeInvariant, PTL

-----------------------------------------------------------------------------
(* The reservations implement TurnOutcome.                                 *)

\* finish_reservation resolves the pending row, or does nothing.
LEMMA FinishRefines ==
    ASSUME TypeInv, NEW t \in Turns, NEW status \in {"settled", "refunded"},
           Finish(t, status)
    PROVE  Outcome!Resolve(t) \/ UNCHANGED <<res, net>>
<1>1. CASE account # "deleted" /\ res[t] = "pending"
  <2>1. /\ res' = [res EXCEPT ![t] = status]
        /\ net' = [net EXCEPT ![t] = @ + (IF status = "refunded" THEN 1 ELSE 0)]
    BY <1>1 DEF Finish
  <2>2. net[t] = -1 /\ net \in [Turns -> {-1, 0}]
    BY <1>1 DEF TypeInv, TypeOK, LedgerMatches
  <2>3. CASE status = "settled"
    <3>1. net' = net
      BY <2>1, <2>2, <2>3
    <3>2. QED
      BY <1>1, <2>1, <2>3, <3>1 DEF Outcome!Resolve, Outcome!Settle
  <2>4. CASE status = "refunded"
    <3>1. net' = [net EXCEPT ![t] = 0]
      BY <2>1, <2>2, <2>4
    <3>2. QED
      BY <1>1, <2>1, <2>4, <3>1 DEF Outcome!Resolve, Outcome!Refund
  <2>5. QED
    BY <2>3, <2>4
<1>2. CASE ~(account # "deleted" /\ res[t] = "pending")
  BY <1>2 DEF Finish
<1>3. QED
  BY <1>1, <1>2

\* Every step of the turns and of the recovery job is a step of TurnOutcome,
\* or changes neither a reservation nor the ledger.
LEMMA OutcomeStep == TypeInv /\ [Next]_vars => [Outcome!Next]_<<res, net>>
<1> SUFFICES ASSUME TypeInv, [Next]_vars
             PROVE  Outcome!Next \/ UNCHANGED <<res, net>>
  OBVIOUS
<1>1. ASSUME NEW t \in Turns, Reserve(t)
      PROVE  Outcome!Next \/ UNCHANGED <<res, net>>
  <2>1. CASE /\ Owned(t)
             /\ res' = [res EXCEPT ![t] = "pending"]
             /\ net' = [net EXCEPT ![t] = @ - 1]
    <3>1. res[t] = "absent"
      BY <1>1, <2>1 DEF Reserve, Owned, TypeInv, ControlInv
    <3>2. net[t] = 0 /\ net \in [Turns -> {-1, 0}]
      BY <3>1 DEF TypeInv, TypeOK, LedgerMatches
    <3>3. net' = [net EXCEPT ![t] = -1]
      BY <2>1, <3>2
    <3>4. Outcome!Reserve(t)
      BY <2>1, <3>1, <3>3 DEF Outcome!Reserve
    <3>5. QED
      BY <3>4 DEF Outcome!Next
  <2>2. CASE UNCHANGED <<res, net>>
    BY <2>2
  <2>3. QED
    BY <1>1, <2>1, <2>2 DEF Reserve
<1>2. ASSUME NEW t \in Turns, NEW status \in {"settled", "refunded"}, Finish(t, status)
      PROVE  Outcome!Next \/ UNCHANGED <<res, net>>
  BY <1>2, FinishRefines DEF Outcome!Next
<1>3. ASSUME NEW t \in Turns, Settle(t)
      PROVE  Outcome!Next \/ UNCHANGED <<res, net>>
  <2>1. Finish(t, "settled") \/ UNCHANGED <<res, net>>
    BY <1>3 DEF Settle, creditVars
  <2>2. QED
    BY <2>1, <1>2
<1>4. ASSUME NEW t \in Turns, Refund(t)
      PROVE  Outcome!Next \/ UNCHANGED <<res, net>>
  BY <1>4, <1>2 DEF Refund
<1>5. CASE JobFinish
  <2>1. job \in Turns /\ Finish(job, "refunded")
    BY <1>5 DEF JobFinish, TypeInv, ControlInv
  <2>2. QED
    BY <2>1, <1>2
<1>6. CASE DeleteAccount
  BY <1>6 DEF DeleteAccount, Outcome!Next, Outcome!Erase
<1>7. ASSUME NEW t \in Turns,
             \/ Enter(t) \/ Question(t) \/ Ask(t) \/ Answer(t) \/ SaveReply(t) \/ Keep(t)
             \/ Tools(t) \/ SaveResults(t) \/ Release(t) \/ Disconnect(t) \/ Kill(t)
             \/ LoseSession(t) \/ JobSelect(t)
      PROVE  UNCHANGED <<res, net>>
  BY <1>7 DEF Enter, Question, Ask, Answer, SaveReply, Keep, Tools, SaveResults, Release,
              Disconnect, Kill, LoseSession, JobSelect, creditVars
<1>8. CASE SwitchAccount \/ DeleteConversation \/ JobLock \/ JobRelease \/ JobKill
  BY <1>8 DEF SwitchAccount, DeleteConversation, JobLock, JobRelease, JobKill, JobIdle,
              creditVars
<1>9. CASE UNCHANGED vars
  BY <1>9 DEF vars, creditVars
<1>10. QED
  BY <1>1, <1>3, <1>4, <1>5, <1>6, <1>7, <1>8, <1>9, Zenon DEF Next, Step

\* The turns implement the abstract outcome of a reservation: one debit, one
\* settlement or one refund, whatever runs at once, dies or loses its lock.
THEOREM OutcomeSafetyHolds == Safety => OutcomeSafety
<1>1. Init => Outcome!Init
  BY DEF Init, Outcome!Init
<1>2. TypeInv /\ [Next]_vars => [Outcome!Next]_(Outcome!outcomeVars)
  BY OutcomeStep DEF Outcome!outcomeVars
<1>3. QED
  BY <1>1, <1>2, TypeInvariant, PTL DEF Safety, OutcomeSafety, Outcome!Safety

-----------------------------------------------------------------------------
(* What a settled reservation stands for.                                  *)

\* Only the transaction that saves an answer settles a reservation.
LEMMA ChargedStep == TypeInv /\ ChargedForAnAnswer /\ [Next]_vars => ChargedForAnAnswer'
<1> SUFFICES ASSUME TypeInv, ChargedForAnAnswer, [Next]_vars
             PROVE  ChargedForAnAnswer'
  OBVIOUS
<1>0. res \in [Turns -> {"absent", "pending", "settled", "refunded", "erased"}]
  BY DEF TypeInv, TypeOK
<1>1. ASSUME NEW t, Finish(t, "refunded"), UNCHANGED answered
      PROVE  ChargedForAnAnswer'
  BY <1>0, <1>1 DEF Finish, ChargedForAnAnswer
<1>2. ASSUME NEW t \in Turns, Settle(t)
      PROVE  ChargedForAnAnswer'
  BY <1>0, <1>2 DEF Settle, Finish, ChargedForAnAnswer, creditVars
<1>3. ASSUME NEW t \in Turns, Reserve(t)
      PROVE  ChargedForAnAnswer'
  BY <1>0, <1>3 DEF Reserve, ChargedForAnAnswer
<1>4. CASE DeleteAccount
  BY <1>4 DEF DeleteAccount, ChargedForAnAnswer
<1>5. ASSUME NEW t \in Turns, Refund(t)
      PROVE  ChargedForAnAnswer'
  BY <1>1, <1>5 DEF Refund
<1>6. CASE JobFinish
  BY <1>1, <1>6 DEF JobFinish
<1>7. ASSUME UNCHANGED <<res, answered>>
      PROVE  ChargedForAnAnswer'
  BY <1>7 DEF ChargedForAnAnswer
<1>8. ASSUME NEW t \in Turns,
             \/ Enter(t) \/ Question(t) \/ Ask(t) \/ Answer(t) \/ SaveReply(t) \/ Keep(t)
             \/ Tools(t) \/ SaveResults(t) \/ Release(t) \/ Disconnect(t) \/ Kill(t)
             \/ LoseSession(t) \/ JobSelect(t)
      PROVE  UNCHANGED <<res, answered>>
  BY <1>8 DEF Enter, Question, Ask, Answer, SaveReply, Keep, Tools, SaveResults, Release,
              Disconnect, Kill, LoseSession, JobSelect, creditVars
<1>9. ASSUME \/ SwitchAccount \/ DeleteConversation \/ JobLock \/ JobRelease \/ JobKill
             \/ UNCHANGED vars
      PROVE  UNCHANGED <<res, answered>>
  BY <1>9 DEF SwitchAccount, DeleteConversation, JobLock, JobRelease, JobKill, JobIdle,
              creditVars, vars
<1>10. QED
  BY <1>2, <1>3, <1>4, <1>5, <1>6, <1>7, <1>8, <1>9, Zenon DEF Next, Step

\* A turn that keeps its credits was answered (_ending_notice and
\* finish_reservation), even beside turns that lost their lock.
THEOREM ChargedForAnAnswerHolds == Safety => []ChargedForAnAnswer
<1>1. Init => ChargedForAnAnswer
  BY DEF Init, ChargedForAnAnswer
<1>2. QED
  BY <1>1, ChargedStep, TypeInvariant, PTL DEF Safety

-----------------------------------------------------------------------------
(* With lock sessions that live as long as their process, at most one turn *)
(* is at work on the conversation.                                         *)

Working == PCs \ {"new", "done", "dead"}

\* A turn at work holds the lock, and so does the recovery job while it
\* finishes a row.
LockInv ==
    /\ losses = 0
    /\ \A t \in Turns : session[t] # "lost"
    /\ \A t \in Turns : pc[t] \in Working => session[t] = "open" /\ owner = t
    /\ jobpc \in {"locked", "finished"} => owner = Job

\* Each answer's reservation is settled.
AnswersSettled == \A t \in answered : res[t] \in {"settled", "erased"}

\* A turn at work on its reply has its reservation pending (until the account
\* is deleted), and a turn with an answer has settled and does no more work.
AnswerInv ==
    /\ \A t \in Turns : pc[t] \in {"ask", "model", "save", "settle", "tools", "results"} =>
          res[t] = "pending" \/ account = "deleted"
    /\ \A t \in answered : pc[t] \in {"release", "done", "dead"}
    /\ AnswersSettled

\* Every step keeps the lock with the turn at work.
LEMMA LockStep ==
    ASSUME TypeInv, LockInv, losses' = 0, [Next]_vars
    PROVE  LockInv'
<1> USE TurnAssumption DEF TypeInv, TypeOK, LockInv, Working, PCs, Goto, Unlock,
        turnVars, jobVars, boundVars
<1>1. ASSUME NEW t \in Turns, Enter(t)
      PROVE  LockInv'
  <2>1. CASE account = "active" /\ exists /\ owner = Nobody
    <3>1. /\ owner' = t
          /\ session' = [session EXCEPT ![t] = "open"]
          /\ pc' = [pc EXCEPT ![t] = "open"]
          /\ UNCHANGED <<jobpc, losses>>
      BY <1>1, <2>1 DEF Enter
    <3>2. jobpc \notin {"locked", "finished"} /\ \A u \in Turns : pc[u] \notin Working
      BY <2>1
    <3>3. QED
      BY <3>1, <3>2
  <2>2. CASE ~(account = "active" /\ exists /\ owner = Nobody)
    BY <1>1, <2>2 DEF Enter
  <2>3. QED
    BY <2>1, <2>2
<1>2. ASSUME NEW t \in Turns, Question(t)
      PROVE  LockInv'
  BY <1>2 DEF Question
<1>3. ASSUME NEW t \in Turns, Reserve(t)
      PROVE  LockInv'
  BY <1>3 DEF Reserve
<1>4. ASSUME NEW t \in Turns, Ask(t)
      PROVE  LockInv'
  BY <1>4 DEF Ask
<1>5. ASSUME NEW t \in Turns, Answer(t)
      PROVE  LockInv'
  BY <1>5 DEF Answer
<1>6. ASSUME NEW t \in Turns, SaveReply(t) \/ Keep(t)
      PROVE  LockInv'
  BY <1>6 DEF SaveReply, Keep
<1>7. ASSUME NEW t \in Turns, Settle(t)
      PROVE  LockInv'
  BY <1>7 DEF Settle
<1>8. ASSUME NEW t \in Turns, Tools(t)
      PROVE  LockInv'
  BY <1>8 DEF Tools
<1>9. ASSUME NEW t \in Turns, SaveResults(t)
      PROVE  LockInv'
  BY <1>9 DEF SaveResults
<1>10. ASSUME NEW t \in Turns, Refund(t) \/ Disconnect(t)
       PROVE  LockInv'
  BY <1>10 DEF Refund, Disconnect
<1>11. ASSUME NEW t \in Turns, Release(t)
       PROVE  LockInv'
  BY <1>11 DEF Release
<1>12. ASSUME NEW t \in Turns, Kill(t)
       PROVE  LockInv'
  BY <1>12 DEF Kill
<1>13. ASSUME NEW t \in Turns, LoseSession(t)
       PROVE  LockInv'
  BY <1>13 DEF LoseSession
<1>14. ASSUME NEW t \in Turns, JobSelect(t)
       PROVE  LockInv'
  BY <1>14 DEF JobSelect
<1>15. CASE SwitchAccount \/ DeleteAccount \/ DeleteConversation
  BY <1>15 DEF SwitchAccount, DeleteAccount, DeleteConversation
<1>16. CASE JobLock
  BY <1>16 DEF JobLock
<1>17. CASE JobFinish
  BY <1>17 DEF JobFinish
<1>18. CASE JobRelease \/ JobKill
  BY <1>18 DEF JobRelease, JobKill, JobIdle
<1>19. CASE UNCHANGED vars
  BY <1>19 DEF vars
<1>20. QED
  BY <1>1, <1>2, <1>3, <1>4, <1>5, <1>6, <1>7, <1>8, <1>9, <1>10, <1>11, <1>12, <1>13,
     <1>14, <1>15, <1>16, <1>17, <1>18, <1>19, Zenon DEF Next, Step

\* finish_reservation leaves every other row, and every finished one, alone.
LEMMA FinishElsewhere ==
    ASSUME TypeInv, NEW t \in Turns, NEW status, Finish(t, status)
    PROVE  \A u \in Turns : u # t \/ res[u] # "pending" => res'[u] = res[u]
BY DEF Finish, TypeInv, TypeOK

\* Every step keeps the reservation of the turn at work pending, and what an
\* answer settled settled.
LEMMA AnswerStep ==
    ASSUME TypeInv, LockInv, AnswerInv, [Next]_vars
    PROVE  AnswerInv'
<1> USE TurnAssumption DEF TypeInv, TypeOK, LockInv, AnswerInv, AnswersSettled, Working, PCs,
        Goto, turnVars, creditVars
<1>1. ASSUME NEW t \in Turns,
             \/ Enter(t) \/ Question(t) \/ Ask(t) \/ Answer(t) \/ SaveReply(t) \/ Keep(t)
             \/ Tools(t) \/ SaveResults(t)
      PROVE  AnswerInv'
  <2>1. /\ pc[t] \in Working \union {"new"}
        /\ \/ pc[t] \in {"new", "open"} /\ pc'[t] \in {"open", "reserve", "unwind", "done"}
           \/ pc[t] \in {"ask", "model", "save", "tools", "results"}
        /\ pc'[t] \notin {"release", "dead"}
        /\ \A u \in Turns \ {t} : pc'[u] = pc[u]
    BY <1>1 DEF Enter, Question, Ask, Answer, SaveReply, Keep, Tools, SaveResults, Replies
  <2>2. UNCHANGED <<res, answered, account>>
    BY <1>1 DEF Enter, Question, Ask, Answer, SaveReply, Keep, Tools, SaveResults
  <2>3. t \notin answered
    BY <2>1
  <2>4. QED
    BY <2>1, <2>2, <2>3
<1>2. ASSUME NEW t \in Turns, Reserve(t)
      PROVE  AnswerInv'
  <2>1. t \notin answered /\ UNCHANGED <<answered, account>>
    BY <1>2 DEF Reserve
  <2>2. \/ /\ res' = [res EXCEPT ![t] = "pending"]
           /\ pc' = [pc EXCEPT ![t] = "ask"]
        \/ /\ res' = res
           /\ pc' = [pc EXCEPT ![t] = "unwind"]
    BY <1>2 DEF Reserve
  <2>3. QED
    BY <2>1, <2>2
<1>3. ASSUME NEW t \in Turns, Settle(t)
      PROVE  AnswerInv'
  <2>1. CASE exists /\ account # "deleted"
    <3>1. res[t] = "pending" /\ Finish(t, "settled")
      BY <1>3, <2>1 DEF Settle
    <3>2. res' = [res EXCEPT ![t] = "settled"]
      BY <2>1, <3>1 DEF Finish
    <3>3. QED
      BY <1>3, <2>1, <3>2 DEF Settle
  <2>2. CASE ~(exists /\ account # "deleted")
    BY <1>3, <2>2 DEF Settle
  <2>3. QED
    BY <2>1, <2>2
<1>4. ASSUME NEW t \in Turns, Refund(t)
      PROVE  AnswerInv'
  <2>1. \A u \in Turns : u # t \/ res[u] # "pending" => res'[u] = res[u]
    BY <1>4, FinishElsewhere DEF Refund
  <2>2. QED
    BY <1>4, <2>1 DEF Refund
<1>5. ASSUME NEW t \in Turns, Release(t) \/ Disconnect(t) \/ Kill(t)
      PROVE  AnswerInv'
  <2>1. UNCHANGED <<res, answered, account>>
    BY <1>5 DEF Release, Disconnect, Kill
  <2>2. \/ pc' \in {[pc EXCEPT ![t] = "done"], [pc EXCEPT ![t] = "dead"]}
        \/ t \notin answered /\ pc' = [pc EXCEPT ![t] = "unwind"]
    BY <1>5 DEF Release, Disconnect, Kill
  <2>3. \A u \in Turns \ {t} : pc'[u] = pc[u]
    BY <2>2
  <2>4. \/ pc'[t] \in {"done", "dead"}
        \/ t \notin answered /\ pc'[t] = "unwind"
    BY <2>2
  <2>5. QED
    BY <2>1, <2>3, <2>4
<1>6. ASSUME NEW t \in Turns, LoseSession(t) \/ JobSelect(t)
      PROVE  AnswerInv'
  BY <1>6 DEF LoseSession, JobSelect
<1>7. CASE SwitchAccount \/ DeleteConversation
  BY <1>7 DEF SwitchAccount, DeleteConversation
<1>8. CASE DeleteAccount
  BY <1>8 DEF DeleteAccount
<1>9. CASE JobFinish
  <2>1. job \in Turns /\ owner = Job
    BY <1>9 DEF JobFinish, ControlInv
  <2>2. \A u \in Turns : res[u] # "pending" => res'[u] = res[u]
    BY <1>9, <2>1, FinishElsewhere DEF JobFinish
  <2>3. \A u \in Turns : pc[u] \notin Working
    BY <2>1
  <2>4. UNCHANGED <<pc, answered, account>>
    BY <1>9 DEF JobFinish
  <2>5. QED
    BY <2>2, <2>3, <2>4
<1>10. CASE JobLock \/ JobRelease \/ JobKill
  BY <1>10 DEF JobLock, JobRelease, JobKill, JobIdle
<1>11. CASE UNCHANGED vars
  BY <1>11 DEF vars
<1>12. QED
  BY <1>1, <1>2, <1>3, <1>4, <1>5, <1>6, <1>7, <1>8, <1>9, <1>10, <1>11, Zenon DEF Next, Step

\* No step brings a lost session back.
LEMMA LossesGrow == TypeInv /\ [Next]_vars /\ losses' = 0 => losses = 0
<1> SUFFICES ASSUME TypeInv, [Next]_vars, losses' = 0
             PROVE  losses = 0
    OBVIOUS
<1>1. losses \in Nat
  BY DEF TypeInv, TypeOK
<1>2. ASSUME NEW t \in Turns, LoseSession(t)
      PROVE  losses = 0
  BY <1>1, <1>2 DEF LoseSession
<1>3. ASSUME NEW t \in Turns,
             \/ Enter(t) \/ Question(t) \/ Reserve(t) \/ Ask(t) \/ Answer(t) \/ SaveReply(t) \/ Keep(t)
             \/ Settle(t) \/ Tools(t) \/ SaveResults(t) \/ Refund(t) \/ Disconnect(t) \/ Release(t)
             \/ Kill(t) \/ JobSelect(t)
      PROVE  losses = 0
  BY <1>3 DEF Enter, Question, Reserve, Ask, Answer, SaveReply, Keep, Settle, Tools, SaveResults,
              Refund, Disconnect, Release, Kill, JobSelect, boundVars
<1>4. CASE \/ SwitchAccount \/ DeleteAccount \/ DeleteConversation
           \/ JobLock \/ JobFinish \/ JobRelease \/ JobKill \/ UNCHANGED vars
  BY <1>4 DEF SwitchAccount, DeleteAccount, DeleteConversation, JobLock, JobFinish, JobRelease,
              JobKill, boundVars, vars
<1>5. QED
  BY <1>2, <1>3, <1>4, Zenon DEF Next, Step

\* While no session was lost a delivered answer is never refunded: the recovery
\* job reaches no row of a turn at work (reconcile_reservations), so the
\* answer's transaction finds its reservation pending.
THEOREM AnswerSettlesHolds == Safety => []AnswerSettles
<1> DEFINE Kept == losses = 0 => LockInv /\ AnswerInv
<1>1. Init => Kept
  BY DEF Init, LockInv, AnswerInv, AnswersSettled, Working
<1>2. TypeInv /\ Kept /\ [Next]_vars => Kept'
  <2> SUFFICES ASSUME TypeInv, Kept, [Next]_vars, losses' = 0
               PROVE  LockInv' /\ AnswerInv'
      OBVIOUS
  <2>1. LockInv /\ AnswerInv
    BY LossesGrow
  <2>2. QED
    BY <2>1, LockStep, AnswerStep
<1>3. Kept => AnswerSettles
  BY DEF AnswerInv, AnswersSettled, AnswerSettles
<1> HIDE DEF Kept
<1>4. QED
  BY <1>1, <1>2, <1>3, TypeInvariant, PTL DEF Safety

-----------------------------------------------------------------------------
(* Replay.                                                                 *)

\* Every tool result stands right behind its call.
Paired(s) ==
    \A i \in DOMAIN s : s[i].kind = "tool_result" =>
        i > 1 /\ s[i - 1] = Row("tool_use", s[i].turn, s[i].round)

\* A set of natural numbers has a least one.
LEMMA Least ==
    ASSUME NEW T \in SUBSET Nat, T # {}
    PROVE  \E x \in T : \A y \in T : x <= y
<1> DEFINE R == OpToRel(<, Nat)
<1>1. IsWellFoundedOn(R, Nat)
  BY NatLessThanWellFounded
<1>2. \A x, y \in Nat : <<y, x>> \in R <=> y < x
  BY DEF OpToRel
<1> HIDE DEF R
<1>3. PICK x \in T : \A y \in T : ~ (<<y, x>> \in R)
  BY <1>1, WFMin
<1>4. ASSUME NEW y \in T
      PROVE  x <= y
  <2>1. x \in Nat /\ y \in Nat
    OBVIOUS
  <2>2. ~ (y < x)
    BY <1>2, <1>3, <2>1, Zenon
  <2>3. QED
    BY <2>1, <2>2
<1>5. QED
  BY <1>4

\* The end of a thread from position a on, row by row.
LEMMA Suffix ==
    ASSUME NEW s \in Seq(Rows), NEW a \in Nat \ {0}
    PROVE  /\ SubSeq(s, a, Len(s)) \in Seq(Rows)
           /\ \A i \in DOMAIN SubSeq(s, a, Len(s)) :
                 /\ i \in Nat \ {0} /\ a + i - 1 \in DOMAIN s
                 /\ SubSeq(s, a, Len(s))[i] = s[a + i - 1]
<1> DEFINE w == SubSeq(s, a, Len(s))
<1>1. Len(s) \in Nat /\ DOMAIN s = 1..Len(s)
  BY LenProperties
<1>2. \A i \in a..Len(s) : s[i] \in Rows
  BY <1>1, ElementOfSeq
<1>3. /\ w \in Seq(Rows)
      /\ Len(w) = IF a <= Len(s) THEN Len(s) - a + 1 ELSE 0
      /\ \A i \in 1..(Len(s) - a + 1) : w[i] = s[a + i - 1]
  BY <1>1, <1>2, SubSeqProperties
<1>4. DOMAIN w = 1..Len(w)
  BY <1>3, LenProperties
<1>5. \A i \in DOMAIN w : /\ i \in Nat \ {0} /\ a + i - 1 \in 1..Len(s)
                          /\ i \in 1..(Len(s) - a + 1)
  BY <1>1, <1>3, <1>4
<1>6. QED
  BY <1>1, <1>3, <1>5

\* A window that opens on a question keeps results behind their calls, however
\* long it is (_replayable).
LEMMA WindowPaired ==
    ASSUME NEW s \in Seq(Rows), Paired(s), NEW n \in Nat \ {0}
    PROVE  LET w == FromQuestion(Last(n, s))
           IN  w \in Seq(Rows) /\ Paired(w)
<1> DEFINE a == IF Len(s) > n THEN Len(s) - n + 1 ELSE 1
           v == Last(n, s)
           questions == {i \in DOMAIN v : v[i].kind = "question"}
           q == CHOOSE i \in questions : \A j \in questions : i <= j
           w == FromQuestion(v)
<1>1. a \in Nat \ {0}
  BY LenProperties
<1>2. v = SubSeq(s, a, Len(s))
  BY DEF Last
<1>3. v \in Seq(Rows)
  BY <1>1, <1>2, Suffix
<1> HIDE DEF a, v
<1>4. \A i \in DOMAIN v : /\ i \in Nat \ {0} /\ a + i - 1 \in DOMAIN s
                          /\ v[i] = s[a + i - 1]
  <2>1. \A i \in DOMAIN SubSeq(s, a, Len(s)) :
           /\ i \in Nat \ {0} /\ a + i - 1 \in DOMAIN s
           /\ SubSeq(s, a, Len(s))[i] = s[a + i - 1]
    BY <1>1, Suffix
  <2>2. QED
    BY <1>2, <2>1
<1>5. CASE questions = {}
  <2>1. w = <<>>
    BY <1>5 DEF FromQuestion
  <2>2. <<>> \in Seq(Rows) /\ Paired(<<>>)
    BY DEF Paired
  <2>3. QED
    BY <2>1, <2>2 DEF v
<1>6. CASE questions # {}
  <2>1. questions \in SUBSET Nat
    BY <1>4
  <2>2. q \in questions
    BY <1>6, <2>1, Least
  <2>3. q \in Nat \ {0} /\ v[q].kind = "question"
    BY <1>4, <2>2
  <2>4. w = SubSeq(v, q, Len(v))
    BY <1>6 DEF FromQuestion
  <2> HIDE DEF q, w, questions
  <2>5. w \in Seq(Rows)
    BY <1>3, <2>3, <2>4, Suffix
  <2>6. \A i \in DOMAIN w : /\ i \in Nat \ {0} /\ q + i - 1 \in DOMAIN v
                            /\ w[i] = v[q + i - 1]
    BY <1>3, <2>3, <2>4, Suffix
  <2>7. Paired(w)
    <3>1. SUFFICES ASSUME NEW i \in DOMAIN w, w[i].kind = "tool_result"
                   PROVE  i > 1 /\ w[i - 1] = Row("tool_use", w[i].turn, w[i].round)
      BY DEF Paired
    <3>2. i > 1
      <4>1. i # 1
        <5>1. ASSUME i = 1
              PROVE  FALSE
          BY <2>3, <2>6, <3>1, <5>1
        <5>2. QED
          BY <5>1
      <4>2. QED
        BY <2>6, <4>1
    <3>3. i - 1 \in DOMAIN w
      BY <2>5, <2>6, <3>2, LenProperties
    <3>4. /\ w[i] = s[a + (q + i - 1) - 1]
          /\ a + (q + i - 1) - 1 \in DOMAIN s
      BY <1>4, <2>6
    <3>5. w[i - 1] = s[a + (q + (i - 1) - 1) - 1]
      BY <1>4, <2>6, <3>3
    <3>6. a + (q + (i - 1) - 1) - 1 = (a + (q + i - 1) - 1) - 1
      BY <1>1, <2>3, <2>6
    <3>7. s[(a + (q + i - 1) - 1) - 1] = Row("tool_use", w[i].turn, w[i].round)
      BY <3>1, <3>4 DEF Paired
    <3>8. QED
      BY <3>2, <3>5, <3>6, <3>7
  <2>8. QED
    BY <2>5, <2>7 DEF v, w
<1>7. QED
  BY <1>5, <1>6

\* Repairing a thread in which results stand behind their calls answers every
\* call once, where the API wants it (_repair_interrupted_tools).
LEMMA RepairedAccepted ==
    ASSUME NEW s \in Seq(Rows), Paired(s)
    PROVE  Accepted(Repaired(s))
<1> DEFINE msgs == Repaired(s)
           Id(i) == <<s[i].turn, s[i].round>>
<1>1. Len(s) \in Nat /\ DOMAIN s = 1..Len(s)
  BY LenProperties
<1>2. DOMAIN msgs = 1..Len(s) /\ Len(msgs) = Len(s)
  BY <1>1 DEF Repaired
<1>3. ASSUME NEW i \in 1..Len(s)
      PROVE  /\ msgs[i].calls = Message(s[i]).calls
             /\ msgs[i].answers = Message(s[i]).answers \union
                   (IF i > 1 /\ IsUser(s, i) THEN Unanswered(s, i - 1) ELSE {})
             /\ msgs[i].added = IF IsUser(s, i + 1) THEN {} ELSE Unanswered(s, i)
  BY <1>1 DEF Repaired
<1>4. ASSUME NEW i \in 1..Len(s)
      PROVE  /\ Message(s[i]).calls = IF s[i].kind = "tool_use" THEN {Id(i)} ELSE {}
             /\ Message(s[i]).answers = IF s[i].kind = "tool_result" THEN {Id(i)} ELSE {}
             /\ Message(s[i]).user <=> s[i].kind \in {"question", "tool_result"}
  BY DEF Message
<1>8. \A i \in 1..Len(s) : /\ i + 1 <= Len(s) => i + 1 \in 1..Len(s) /\ i # Len(s)
                           /\ i # Len(s) => i + 1 \in 1..Len(s)
  <2>1. \A n \in Nat : \A i \in 1..n : /\ i + 1 <= n => i + 1 \in 1..n /\ i # n
                                       /\ i # n => i + 1 \in 1..n
    OBVIOUS
  <2>2. QED
    BY <1>1, <2>1
<1> HIDE DEF msgs
<1>5. ASSUME NEW i \in 1..Len(s)
      PROVE  msgs[i].calls \subseteq
                msgs[i].added \union (IF i = Len(s) THEN {} ELSE msgs[i + 1].answers)
  <2>1. CASE IsUser(s, i + 1)
    <3>1. i + 1 \in 1..Len(s) /\ i # Len(s)
      <4>1. i + 1 <= Len(s)
        BY <2>1 DEF IsUser
      <4>2. QED
        BY <1>8, <4>1
    <3>2. msgs[i + 1].answers = Message(s[i + 1]).answers \union Unanswered(s, (i + 1) - 1)
      BY <1>3, <2>1, <3>1
    <3>3. (i + 1) - 1 = i
      OBVIOUS
    <3>4. Unanswered(s, i) = Message(s[i]).calls \ Message(s[i + 1]).answers
      BY <3>1 DEF Unanswered
    <3>5. msgs[i].calls = Message(s[i]).calls
      BY <1>3
    <3>6. QED
      BY <3>1, <3>2, <3>3, <3>4, <3>5
  <2>2. CASE ~ IsUser(s, i + 1)
    <3>1. i = Len(s) \/ Message(s[i + 1]).answers = {}
      <4>1. ASSUME i # Len(s)
            PROVE  Message(s[i + 1]).answers = {}
        <5>1. i + 1 \in 1..Len(s)
          BY <1>8, <4>1
        <5>2. ~ Message(s[i + 1]).user
          BY <2>2, <5>1 DEF IsUser
        <5>3. QED
          BY <1>4, <5>1, <5>2
      <4>2. QED
        BY <4>1
    <3>2. Unanswered(s, i) = Message(s[i]).calls
      BY <3>1 DEF Unanswered
    <3>3. QED
      BY <1>3, <2>2, <3>2
  <2>3. QED
    BY <2>1, <2>2
<1>6. ASSUME NEW i \in 1..Len(s)
      PROVE  msgs[i].answers \subseteq
                (IF i = 1 \/ msgs[i - 1].added # {} THEN {} ELSE msgs[i - 1].calls)
  <2>1. CASE ~ IsUser(s, i)
    <3>1. ~ Message(s[i]).user
      BY <2>1 DEF IsUser
    <3>2. Message(s[i]).answers = {}
      BY <1>4, <3>1
    <3>3. msgs[i].answers = {}
      BY <1>3, <2>1, <3>2
    <3>4. QED
      BY <3>3
  <2>2. CASE IsUser(s, i) /\ i = 1
    <3>1. s[i].kind # "tool_result"
      BY <1>1, <2>2 DEF Paired
    <3>2. Message(s[i]).answers = {}
      BY <1>4, <3>1
    <3>3. msgs[i].answers = {}
      BY <1>3, <2>2, <3>2
    <3>4. QED
      BY <3>3
  <2>3. CASE IsUser(s, i) /\ i # 1
    <3>1. i - 1 \in 1..Len(s) /\ (i - 1) + 1 = i /\ i > 1 /\ i - 1 # Len(s)
      BY <1>1, <2>3
    <3>2. msgs[i - 1].added = {} /\ msgs[i - 1].calls = Message(s[i - 1]).calls
      BY <1>3, <2>3, <3>1
    <3>3. Unanswered(s, i - 1) \subseteq Message(s[i - 1]).calls
      BY DEF Unanswered
    <3>4. Message(s[i]).answers \subseteq Message(s[i - 1]).calls
      <4>1. CASE s[i].kind = "tool_result"
        <5>1. s[i - 1] = Row("tool_use", s[i].turn, s[i].round)
          BY <1>1, <4>1 DEF Paired
        <5>2. s[i - 1].kind = "tool_use" /\ Id(i - 1) = Id(i)
          BY <5>1 DEF Row
        <5>3. QED
          BY <1>4, <3>1, <4>1, <5>2
      <4>2. CASE s[i].kind # "tool_result"
        BY <1>4, <4>2
      <4>3. QED
        BY <4>1, <4>2
    <3>5. msgs[i].answers = Message(s[i]).answers \union Unanswered(s, i - 1)
      BY <1>3, <2>3, <3>1
    <3>6. QED
      BY <2>3, <3>2, <3>3, <3>4, <3>5
  <2>4. QED
    BY <2>1, <2>2, <2>3
<1>7. QED
  BY <1>2, <1>5, <1>6 DEF Accepted, msgs

\* Each request so far was one the API accepts.
AllAccepted == \A t \in Turns : sent[t]

\* The thread keeps results behind their calls, and the call of a turn that
\* runs its tools is the thread's last row.
ReplayInv ==
    /\ Paired(thread)
    /\ \A t \in Turns : exists /\ pc[t] \in {"tools", "results"} =>
          thread # <<>> /\ thread[Len(thread)] = Row("tool_use", t, round[t])
    /\ AllAccepted

\* A row that is no tool result, or the result of the last row's call, may
\* follow.
LEMMA AppendPaired ==
    ASSUME NEW s \in Seq(Rows), Paired(s), NEW row \in Rows,
           row.kind = "tool_result" =>
              s # <<>> /\ s[Len(s)] = Row("tool_use", row.turn, row.round)
    PROVE  Paired(Append(s, row)) /\ Append(s, row)[Len(Append(s, row))] = row
<1> DEFINE w == Append(s, row)
<1>1. Len(s) \in Nat /\ DOMAIN s = 1..Len(s) /\ (s # <<>> => Len(s) > 0)
  BY LenProperties, EmptySeq
<1>2. /\ DOMAIN w = 1..(Len(s) + 1) /\ Len(w) = Len(s) + 1
      /\ \A i \in 1..Len(s) : w[i] = s[i]
      /\ w[Len(s) + 1] = row
  BY <1>1, AppendProperties
<1> HIDE DEF w
<1>3. ASSUME NEW i \in 1..(Len(s) + 1), w[i].kind = "tool_result"
      PROVE  i > 1 /\ w[i - 1] = Row("tool_use", w[i].turn, w[i].round)
  <2>1. CASE i \in 1..Len(s)
    <3>1. i > 1 /\ s[i - 1] = Row("tool_use", s[i].turn, s[i].round)
      BY <1>1, <1>2, <1>3, <2>1 DEF Paired
    <3>2. i - 1 \in 1..Len(s)
      BY <1>1, <2>1, <3>1
    <3>3. QED
      BY <1>2, <2>1, <3>1, <3>2
  <2>2. CASE i = Len(s) + 1
    <3>1. w[i] = row
      BY <1>2, <2>2
    <3>2. Len(s) > 0 /\ s[Len(s)] = Row("tool_use", row.turn, row.round)
      BY <1>1, <1>3, <3>1
    <3>3. w[Len(s)] = s[Len(s)] /\ i - 1 = Len(s)
      BY <1>1, <1>2, <2>2, <3>2
    <3>4. QED
      BY <1>1, <2>2, <3>1, <3>2, <3>3
  <2>3. QED
    BY <1>1, <2>1, <2>2
<1>4. QED
  BY <1>2, <1>3 DEF Paired, w

\* So does what a rewind leaves.
LEMMA CutPaired ==
    ASSUME NEW s \in Seq(Rows), Paired(s), NEW i \in DOMAIN s
    PROVE  SubSeq(s, 1, i - 1) \in Seq(Rows) /\ Paired(SubSeq(s, 1, i - 1))
<1> DEFINE w == SubSeq(s, 1, i - 1)
<1>1. Len(s) \in Nat /\ DOMAIN s = 1..Len(s) /\ i \in 1..Len(s)
  BY LenProperties
<1>2. \A j \in 1..(i - 1) : j \in 1..Len(s) /\ s[j] \in Rows
  BY <1>1, ElementOfSeq
<1>3. /\ w \in Seq(Rows)
      /\ Len(w) = i - 1
      /\ \A j \in 1..(i - 1) : w[j] = s[j]
  <2>1. /\ w \in Seq(Rows)
        /\ Len(w) = IF 1 <= i - 1 THEN (i - 1) - 1 + 1 ELSE 0
        /\ \A j \in 1..((i - 1) - 1 + 1) : w[j] = s[1 + j - 1]
    BY <1>1, <1>2, SubSeqProperties
  <2>2. (i - 1) - 1 + 1 = i - 1 /\ \A j \in 1..(i - 1) : 1 + j - 1 = j
    BY <1>1
  <2>3. i - 1 \in Nat
    BY <1>1
  <2>4. QED
    BY <2>1, <2>2, <2>3
<1>4. DOMAIN w = 1..(i - 1)
  BY <1>3, LenProperties
<1> HIDE DEF w
<1>5. ASSUME NEW j \in 1..(i - 1), w[j].kind = "tool_result"
      PROVE  j > 1 /\ w[j - 1] = Row("tool_use", w[j].turn, w[j].round)
  <2>1. j > 1 /\ s[j - 1] = Row("tool_use", s[j].turn, s[j].round)
    BY <1>1, <1>2, <1>3, <1>5 DEF Paired
  <2>2. j - 1 \in 1..(i - 1)
    BY <1>1, <2>1
  <2>3. QED
    BY <1>3, <2>1, <2>2
<1>6. QED
  BY <1>3, <1>4, <1>5 DEF Paired, w

\* At most one turn is at work.
LEMMA Alone ==
    ASSUME LockInv, NEW t \in Turns, NEW u \in Turns,
           pc[t] \in Working, pc[u] \in Working
    PROVE  t = u
BY DEF LockInv

\* Every step keeps results behind their calls and is accepted.
LEMMA ReplayStep ==
    ASSUME TypeInv, LockInv, ReplayInv, [Next]_vars
    PROVE  ReplayInv'
<1> USE DEF Working, PCs, Goto, turnVars, creditVars
<1>0. /\ thread \in Seq(Rows) /\ pc \in [Turns -> PCs] /\ sent \in [Turns -> BOOLEAN]
      /\ round \in [Turns -> 0..MaxRounds] /\ reply \in [Turns -> Replies]
  BY DEF TypeInv, TypeOK
<1>1. ASSUME NEW t \in Turns, UNCHANGED <<thread, exists, sent, round>>,
             \A u \in Turns \ {t} : pc'[u] = pc[u],
             pc'[t] \in {"tools", "results"} => pc[t] = "tools"
      PROVE  ReplayInv'
  BY <1>1 DEF ReplayInv, AllAccepted
<1>2. ASSUME UNCHANGED <<thread, exists, sent, round, pc>>
      PROVE  ReplayInv'
  BY <1>2 DEF ReplayInv, AllAccepted
<1>3. ASSUME NEW t \in Turns, pc[t] \in Working, NEW row \in Rows,
             UNCHANGED <<exists, sent, round>>,
             \A u \in Turns \ {t} : pc'[u] = pc[u],
             thread' = Append(thread, row),
             row.kind = "tool_result" => /\ thread # <<>>
                                         /\ thread[Len(thread)] = Row("tool_use", row.turn, row.round),
             pc'[t] \in {"tools", "results"} => row = Row("tool_use", t, round[t])
      PROVE  ReplayInv'
  <2>1. Paired(thread') /\ thread'[Len(thread')] = row
    BY <1>0, <1>3, AppendPaired DEF ReplayInv
  <2>2. thread' # <<>>
    BY <1>0, <1>3, AppendProperties
  <2>3. ASSUME NEW u \in Turns, pc'[u] \in {"tools", "results"}
        PROVE  u = t
    BY <1>3, <2>3, Alone
  <2>4. QED
    BY <1>3, <2>1, <2>2, <2>3 DEF ReplayInv, AllAccepted
<1>4. ASSUME NEW t \in Turns, Question(t)
      PROVE  ReplayInv'
  <2>1. Row("question", t, 0) \in Rows /\ Row("question", t, 0).kind = "question"
    BY RowType, TurnAssumption DEF Row
  <2>2. /\ pc[t] = "open" /\ UNCHANGED <<exists, sent, round>>
        /\ \A u \in Turns \ {t} : pc'[u] = pc[u]
        /\ pc'[t] \in {"reserve", "unwind"}
    BY <1>0, <1>4 DEF Question
  <2>3. CASE thread' = Append(thread, Row("question", t, 0))
    BY <1>3, <2>1, <2>2, <2>3
  <2>4. CASE \E i \in DOMAIN thread :
                thread' = Append(SubSeq(thread, 1, i - 1), Row("question", t, 0))
    <3>1. PICK i \in DOMAIN thread :
                thread' = Append(SubSeq(thread, 1, i - 1), Row("question", t, 0))
      BY <2>4
    <3>2. SubSeq(thread, 1, i - 1) \in Seq(Rows) /\ Paired(SubSeq(thread, 1, i - 1))
      BY <1>0, CutPaired DEF ReplayInv
    <3>3. Paired(thread')
      BY <2>1, <3>1, <3>2, AppendPaired
    <3>4. \A u \in Turns : pc'[u] \notin {"tools", "results"}
      <4>1. ASSUME NEW u \in Turns, u # t
            PROVE  pc[u] \notin Working
        BY <2>2, <4>1, Alone
      <4>2. QED
        BY <2>2, <4>1
    <3>5. QED
      BY <2>2, <3>3, <3>4 DEF ReplayInv, AllAccepted
  <2>5. CASE UNCHANGED thread
    BY <1>1, <2>2, <2>5
  <2>6. QED
    BY <1>4, <2>3, <2>4, <2>5, Zenon DEF Question
<1>5. ASSUME NEW t \in Turns, Ask(t)
      PROVE  ReplayInv'
  <2>1. Accepted(Replay)
    BY <1>0, WindowPaired, RepairedAccepted, TurnAssumption DEF Replay, ReplayInv
  <2>2. /\ \/ sent' = [sent EXCEPT ![t] = Accepted(Replay)]
           \/ sent' = sent
        /\ pc[t] = "ask" /\ UNCHANGED <<thread, exists>>
        /\ \A u \in Turns \ {t} : pc'[u] = pc[u] /\ round'[u] = round[u]
        /\ pc'[t] \in {"model", "unwind"}
    BY <1>0, <1>5 DEF Ask
  <2>3. AllAccepted'
    BY <1>0, <2>1, <2>2, Zenon DEF ReplayInv, AllAccepted
  <2>4. QED
    BY <2>2, <2>3 DEF ReplayInv
<1>6. ASSUME NEW t \in Turns, SaveReply(t)
      PROVE  ReplayInv'
  <2>1. /\ Row(reply[t], t, round[t]) \in Rows
        /\ Row(reply[t], t, round[t]).kind # "tool_result"
    BY <1>0, RowType DEF Row, Replies
  <2>2. /\ pc[t] = "save" /\ UNCHANGED <<exists, sent, round>>
        /\ \A u \in Turns \ {t} : pc'[u] = pc[u]
    BY <1>0, <1>6 DEF SaveReply
  <2>3. \/ /\ thread' = Append(thread, Row(reply[t], t, round[t]))
           /\ reply[t] = "tool_use" \/ pc'[t] = "unwind"
        \/ UNCHANGED thread /\ pc'[t] = "unwind"
    BY <1>0, <1>6 DEF SaveReply
  <2>4. QED
    BY <1>1, <1>3, <2>1, <2>2, <2>3
<1>7. ASSUME NEW t \in Turns, Settle(t)
      PROVE  ReplayInv'
  <2>1. /\ Row("answer", t, round[t]) \in Rows
        /\ Row("answer", t, round[t]).kind # "tool_result"
    BY <1>0, RowType DEF Row, Replies
  <2>2. /\ pc[t] = "settle" /\ UNCHANGED <<exists, sent, round>>
        /\ \A u \in Turns \ {t} : pc'[u] = pc[u]
        /\ pc'[t] \in {"release", "unwind"}
    BY <1>0, <1>7 DEF Settle
  <2>3. thread' = Append(thread, Row("answer", t, round[t])) \/ UNCHANGED thread
    BY <1>7 DEF Settle
  <2>4. QED
    BY <1>1, <1>3, <2>1, <2>2, <2>3
<1>8. ASSUME NEW t \in Turns, SaveResults(t)
      PROVE  ReplayInv'
  <2> DEFINE row == Row("tool_result", t, round[t])
  <2>1. row \in Rows /\ row.turn = t /\ row.round = round[t]
    BY <1>0, RowType DEF Row
  <2>2. /\ pc[t] = "results" /\ UNCHANGED <<exists, sent, round>>
        /\ \A u \in Turns \ {t} : pc'[u] = pc[u]
        /\ pc'[t] \in {"ask", "unwind"}
    BY <1>0, <1>8 DEF SaveResults
  <2>3. CASE exists /\ account # "deleted"
    <3>1. thread' = Append(thread, row)
      BY <1>8, <2>3 DEF SaveResults
    <3>2. thread # <<>> /\ thread[Len(thread)] = Row("tool_use", t, round[t])
      BY <2>2, <2>3 DEF ReplayInv
    <3> HIDE DEF row
    <3>3. QED
      BY <1>3, <2>1, <2>2, <3>1, <3>2
  <2>4. CASE ~(exists /\ account # "deleted")
    <3>1. UNCHANGED thread
      BY <1>8, <2>4 DEF SaveResults
    <3>2. QED
      BY <1>1, <2>2, <3>1
  <2>5. QED
    BY <2>3, <2>4
<1>9. ASSUME NEW t \in Turns,
             \/ Enter(t) \/ Reserve(t) \/ Answer(t) \/ Keep(t) \/ Tools(t) \/ Refund(t)
             \/ Release(t) \/ Disconnect(t) \/ Kill(t)
      PROVE  ReplayInv'
  <2>1. UNCHANGED <<thread, exists, sent, round>>
    BY <1>9 DEF Enter, Reserve, Answer, Keep, Tools, Refund, Release, Disconnect, Kill
  <2>2. /\ \A u \in Turns \ {t} : pc'[u] = pc[u]
        /\ pc'[t] \in {"tools", "results"} => pc[t] = "tools"
    BY <1>0, <1>9 DEF Enter, Reserve, Answer, Keep, Tools, Refund, Release, Disconnect, Kill
  <2>3. QED
    BY <1>1, <2>1, <2>2
<1>10. CASE DeleteAccount \/ DeleteConversation
  <2>1. thread' = <<>> /\ exists' = FALSE /\ UNCHANGED <<sent, pc, round>>
    BY <1>10 DEF DeleteAccount, DeleteConversation
  <2>2. Paired(<<>>)
    BY DEF Paired
  <2>3. QED
    BY <2>1, <2>2 DEF ReplayInv, AllAccepted
<1>11. ASSUME \/ SwitchAccount \/ JobLock \/ JobFinish \/ JobRelease \/ JobKill
              \/ (\E t \in Turns : LoseSession(t) \/ JobSelect(t)) \/ UNCHANGED vars
       PROVE  ReplayInv'
  BY <1>2, <1>11 DEF SwitchAccount, JobLock, JobFinish, JobRelease, JobKill, JobIdle,
                     LoseSession, JobSelect, vars
<1>12. QED
  BY <1>4, <1>5, <1>6, <1>7, <1>8, <1>9, <1>10, <1>11, Zenon DEF Next, Step

\* While no session was lost every replay is one the API accepts, for every
\* window and round budget, wherever turns were killed, abandoned or rewound.
THEOREM ReplayAcceptedHolds == Safety => []ReplayAccepted
<1> DEFINE Kept == losses = 0 => LockInv /\ ReplayInv
<1>1. Init => Kept
  BY DEF Init, LockInv, ReplayInv, AllAccepted, Paired, Working
<1>2. TypeInv /\ Kept /\ [Next]_vars => Kept'
  <2> SUFFICES ASSUME TypeInv, Kept, [Next]_vars, losses' = 0
               PROVE  LockInv' /\ ReplayInv'
      OBVIOUS
  <2>1. LockInv /\ ReplayInv
    BY LossesGrow
  <2>2. QED
    BY <2>1, LockStep, ReplayStep
<1>3. Kept => ReplayAccepted
  BY DEF ReplayInv, AllAccepted, ReplayAccepted
<1> HIDE DEF Kept
<1>4. QED
  BY <1>1, <1>2, <1>3, TypeInvariant, PTL DEF Safety
=============================================================================
