---------------------------- MODULE TurnOutcome -----------------------------
(***************************************************************************)
(* What a metered chat turn promises (assistant/models.py, the docstring   *)
(* of ChatTurnReservation, and metering.py): the debit and the pending     *)
(* reservation appear together, and the reservation then has exactly one   *)
(* outcome -- settled, keeping the debit, or refunded, crediting it once.  *)
(* Erasing the account erases its reservations.                            *)
(***************************************************************************)
EXTENDS Integers

CONSTANT Turns      \* chat turns, each with at most one reservation

VARIABLES
    res,        \* status of each turn's reservation
    net         \* sum of its ledger rows, in units of its cost

outcomeVars == <<res, net>>

Statuses == {"absent", "pending", "settled", "refunded", "erased"}

Init ==
    /\ res = [t \in Turns |-> "absent"]
    /\ net = [t \in Turns |-> 0]

Reserve(t) ==
    /\ res[t] = "absent"
    /\ res' = [res EXCEPT ![t] = "pending"]
    /\ net' = [net EXCEPT ![t] = -1]

Settle(t) ==
    /\ res[t] = "pending"
    /\ res' = [res EXCEPT ![t] = "settled"]
    /\ UNCHANGED net

Refund(t) ==
    /\ res[t] = "pending"
    /\ res' = [res EXCEPT ![t] = "refunded"]
    /\ net' = [net EXCEPT ![t] = 0]

Erase ==
    /\ res' = [t \in Turns |-> "erased"]
    /\ net' = [t \in Turns |-> 0]

Resolve(t) == Settle(t) \/ Refund(t)

Next == Erase \/ \E t \in Turns : Reserve(t) \/ Resolve(t)

\* A pending reservation does not stay pending.
Fairness == \A t \in Turns : WF_outcomeVars(Resolve(t))

Spec == Init /\ [][Next]_outcomeVars /\ Fairness

Safety == Init /\ [][Next]_outcomeVars
=============================================================================
