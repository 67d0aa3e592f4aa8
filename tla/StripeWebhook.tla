--------------------------- MODULE StripeWebhook ----------------------------
(***************************************************************************)
(* Credit purchases (networkly_web/billing/stripe_gateway.py and the       *)
(* webhook view of billing/views.py).                                      *)
(*                                                                         *)
(* Stripe sends up to two events for a checkout -- its completion, paid or *)
(* not, and the later success of a delayed payment -- at least once each,  *)
(* in any order and also at the same time, until a delivery is accepted.   *)
(* A delivery runs in a web process: it looks the buyer up, and in one     *)
(* transaction records the event and the checkout and writes the ledger    *)
(* row.  The transaction is split at its waits: rows of a transaction that *)
(* has not committed are a delivery's claim, which nobody sees but which a *)
(* conflicting insert waits for.                                           *)
(***************************************************************************)
EXTENDS Integers, FiniteSets

CONSTANTS
    Checkouts,      \* Stripe Checkout Sessions of one user
    Deliveries,     \* deliveries in progress at one time
    MaxCrashes,     \* bound: web processes killed
    None            \* no event, no checkout, no claim


Events == Checkouts \X {"completed", "async_payment_succeeded"}
Records == [event : Events, checkout : Checkouts \union {None}]

ASSUME StripeAssumption ==
    /\ MaxCrashes \in Nat
    /\ None \notin Checkouts /\ None \notin Events /\ None \notin Records

VARIABLES
    payment,        \* each checkout at Stripe: "open", "unpaid" or "paid"
    mail,           \* each event: "none", "pending" or "accepted"
    status,         \* the payment_status in each event's payload
    at,             \* where each delivery is
    event,          \* the event it handles
    claim,          \* the ProcessedStripeEvent row it has not committed
    processed,      \* the committed ProcessedStripeEvent rows
    granted,        \* purchase rows ever written for each checkout
    user,           \* whether the buyer's account exists
    crashes

stripeVars == <<payment, mail, status>>
workVars   == <<at, event, claim>>
webhookVars == <<stripeVars, workVars, processed, granted, user, crashes>>

WebhookInit ==
    /\ payment = [c \in Checkouts |-> "open"]
    /\ mail = [e \in Events |-> "none"]
    /\ status = [e \in Events |-> "unpaid"]
    /\ at = [w \in Deliveries |-> "idle"]
    /\ event = [w \in Deliveries |-> None]
    /\ claim = [w \in Deliveries |-> None]
    /\ processed = {}
    /\ granted = [c \in Checkouts |-> 0]
    /\ user = TRUE
    /\ crashes = 0

-----------------------------------------------------------------------------
(* Stripe.                                                                 *)

Emit(e, paid) ==
    /\ mail' = [mail EXCEPT ![e] = "pending"]
    /\ status' = [status EXCEPT ![e] = paid]

\* The customer finishes the form; a card is paid at once, a bank debit not.
Complete(c, paid) ==
    /\ payment[c] = "open"
    /\ payment' = [payment EXCEPT ![c] = paid]
    /\ Emit(<<c, "completed">>, paid)
    /\ UNCHANGED <<workVars, processed, granted, user, crashes>>

\* A delayed payment arrives.
SettlePayment(c) ==
    /\ payment[c] = "unpaid"
    /\ payment' = [payment EXCEPT ![c] = "paid"]
    /\ Emit(<<c, "async_payment_succeeded">>, "paid")
    /\ UNCHANGED <<workVars, processed, granted, user, crashes>>

\* Stripe reports a paid checkout in a second event.
ReportAgain(c) ==
    /\ payment[c] = "paid" /\ mail[<<c, "async_payment_succeeded">>] = "none"
    /\ Emit(<<c, "async_payment_succeeded">>, "paid")
    /\ UNCHANGED <<payment, workVars, processed, granted, user, crashes>>

\* A delivery, of an event already accepted too.
Deliver(w, e) ==
    /\ at[w] = "idle" /\ mail[e] # "none"
    /\ at' = [at EXCEPT ![w] = "lookup"]
    /\ event' = [event EXCEPT ![w] = e]
    /\ UNCHANGED <<stripeVars, claim, processed, granted, user, crashes>>

-----------------------------------------------------------------------------
(* handle_webhook_event.                                                   *)

Proceed(w, label) == at' = [at EXCEPT ![w] = label]

\* Mutant of Lookup: the buyer is not looked up.
LookupTrusting(w) ==
    /\ at[w] = "lookup"
    /\ Proceed(w, IF status[event[w]] # "paid" THEN "respond" ELSE "begin")
    /\ UNCHANGED <<stripeVars, event, claim, processed, granted, user, crashes>>

\* Everything up to the transaction: an unpaid session is answered without a
\* record, a buyer who is gone gets a record without a checkout.
Lookup(w) ==
    /\ at[w] = "lookup"
    /\ Proceed(w, IF status[event[w]] # "paid" THEN "respond"
                  ELSE IF user THEN "begin" ELSE "mark")
    /\ UNCHANGED <<stripeVars, event, claim, processed, granted, user, crashes>>

\* Another transaction has inserted, and not yet committed, a row with the
\* same event or the same checkout; an insert waits for it.
Waits(w, row) ==
    \E v \in Deliveries \ {w} :
        /\ claim[v] # None
        /\ \/ claim[v].event = row.event
           \/ claim[v].checkout = row.checkout /\ row.checkout # None

\* _mark_processed: get_or_create by event, in a transaction of its own.
MarkProcessed(w) ==
    /\ at[w] = "mark"
    /\ LET row == [event |-> event[w], checkout |-> None] IN
       /\ ~ Waits(w, row)
       /\ processed' = IF \E r \in processed : r.event = row.event
                       THEN processed ELSE processed \union {row}
    /\ Proceed(w, "respond")
    /\ UNCHANGED <<stripeVars, event, claim, granted, user, crashes>>

\* The guard for records older than the checkout key.
Begin(w) ==
    /\ at[w] = "begin"
    /\ Proceed(w, IF \E r \in processed : r.event = event[w] THEN "respond" ELSE "insert")
    /\ UNCHANGED <<stripeVars, event, claim, processed, granted, user, crashes>>

\* Mutant of Insert: the unique key is the event's alone.
InsertByEvent(w) ==
    /\ at[w] = "insert"
    /\ \A v \in Deliveries \ {w} : claim[v] # None => claim[v].event # event[w]
    /\ IF \E r \in processed : r.event = event[w]
       THEN Proceed(w, "respond") /\ UNCHANGED claim
       ELSE /\ claim' = [claim EXCEPT ![w] = [event |-> event[w], checkout |-> event[w][1]]]
            /\ Proceed(w, "grant")
    /\ UNCHANGED <<stripeVars, event, processed, granted, user, crashes>>

\* Mutant of Insert: the record commits by itself, before the ledger row.
InsertAutocommit(w) ==
    /\ at[w] = "insert"
    /\ IF \E r \in processed : r.checkout = event[w][1] \/ r.event = event[w]
       THEN Proceed(w, "respond") /\ UNCHANGED <<claim, processed>>
       ELSE LET row == [event |-> event[w], checkout |-> event[w][1]]
            IN  /\ processed' = processed \union {row}
                /\ claim' = [claim EXCEPT ![w] = row]
                /\ Proceed(w, "grant")
    /\ UNCHANGED <<stripeVars, event, granted, user, crashes>>

\* get_or_create by checkout: found, inserted, or refused for its event and
\* not found by its checkout, which is an error.
Insert(w) ==
    /\ at[w] = "insert"
    /\ LET row == [event |-> event[w], checkout |-> event[w][1]] IN
       /\ ~ Waits(w, row)
       /\ IF \E r \in processed : r.checkout = row.checkout
          THEN Proceed(w, "respond") /\ UNCHANGED claim
          ELSE IF \E r \in processed : r.event = row.event
          THEN Proceed(w, "fail") /\ UNCHANGED claim
          ELSE /\ claim' = [claim EXCEPT ![w] = row]
               /\ Proceed(w, "grant")
    /\ UNCHANGED <<stripeVars, event, processed, granted, user, crashes>>

\* grant_purchase and the commit: record and ledger row together, or neither
\* when the buyer's account is gone by now.
Grant(w) ==
    /\ at[w] = "grant"
    /\ IF user
       THEN /\ processed' = processed \union {claim[w]}
            /\ granted' = [granted EXCEPT ![claim[w].checkout] = @ + 1]
            /\ Proceed(w, "respond")
       ELSE /\ Proceed(w, "fail")
            /\ UNCHANGED <<processed, granted>>
    /\ claim' = [claim EXCEPT ![w] = None]
    /\ UNCHANGED <<stripeVars, event, user, crashes>>

Idle(w) == Proceed(w, "idle") /\ event' = [event EXCEPT ![w] = None]

\* 200: Stripe stops sending the event.
Respond(w) ==
    /\ at[w] = "respond"
    /\ mail' = [mail EXCEPT ![event[w]] = "accepted"]
    /\ Idle(w)
    /\ UNCHANGED <<payment, status, claim, processed, granted, user, crashes>>

\* 500: the event stays pending.
Fail(w) ==
    /\ at[w] = "fail"
    /\ Idle(w)
    /\ UNCHANGED <<stripeVars, claim, processed, granted, user, crashes>>

\* The process dies, or its answer does not arrive.
Crash(w) ==
    /\ at[w] # "idle"
    /\ crashes < MaxCrashes
    /\ crashes' = crashes + 1
    /\ Idle(w)
    /\ claim' = [claim EXCEPT ![w] = None]
    /\ UNCHANGED <<stripeVars, processed, granted, user>>

\* delete_user_and_data.
DeleteUser ==
    /\ user
    /\ user' = FALSE
    /\ UNCHANGED <<stripeVars, workVars, processed, granted, crashes>>

-----------------------------------------------------------------------------
Handle(w) ==
    \/ Lookup(w) \/ MarkProcessed(w) \/ Begin(w) \/ Insert(w) \/ Grant(w)
    \/ Respond(w) \/ Fail(w)

WebhookNext ==
    \/ \E c \in Checkouts : SettlePayment(c) \/ ReportAgain(c) \/ \E paid \in {"unpaid", "paid"} : Complete(c, paid)
    \/ \E w \in Deliveries : Handle(w) \/ Crash(w) \/ \E e \in Events : Deliver(w, e)
    \/ DeleteUser

\* Processes run on, and Stripe sends a pending event again and again.
Fairness ==
    /\ \A w \in Deliveries : WF_webhookVars(Handle(w))
    /\ \A e \in Events : SF_webhookVars(mail[e] = "pending" /\ \E w \in Deliveries : Deliver(w, e))

Safety == WebhookInit /\ [][WebhookNext]_webhookVars
WebhookSpec == Safety /\ Fairness

-----------------------------------------------------------------------------
WebhookTypeOK ==
    /\ payment \in [Checkouts -> {"open", "unpaid", "paid"}]
    /\ mail \in [Events -> {"none", "pending", "accepted"}]
    /\ status \in [Events -> {"unpaid", "paid"}]
    /\ at \in [Deliveries -> {"idle", "lookup", "mark", "begin", "insert", "grant", "respond", "fail"}]
    /\ event \in [Deliveries -> Events \union {None}]
    /\ claim \in [Deliveries -> Records \union {None}]
    /\ \A w \in Deliveries : (claim[w] # None <=> at[w] = "grant") /\ (event[w] = None <=> at[w] = "idle")
    /\ processed \subseteq Records
    /\ granted \in [Checkouts -> Nat]
    /\ user \in BOOLEAN
    /\ crashes \in 0..MaxCrashes

\* A checkout is granted once at most, however often and in however many
\* shapes Stripe reports it (ProcessedStripeEvent).
GrantedOnce == \A c \in Checkouts : granted[c] <= 1

\* Only money that arrived buys credits (handle_webhook_event, THE MONEY
\* CHECK).
GrantedWasPaid == \A c \in Checkouts : granted[c] > 0 => payment[c] = "paid"

\* A checkout on record has its credits: record and ledger row commit
\* together, so no crash or deletion in between loses a purchase for good.
RecordedWasGranted == \A r \in processed : r.checkout # None => granted[r.checkout] > 0

\* A paid checkout is granted in the end, unless the buyer deletes the account.
PaidIsGranted == \A c \in Checkouts : payment[c] = "paid" ~> granted[c] > 0 \/ ~ user

\* No event is refused for ever (the comment on a buyer deleted mid-flight).
EventuallyAccepted == \A e \in Events : mail[e] = "pending" ~> mail[e] = "accepted"
=============================================================================
