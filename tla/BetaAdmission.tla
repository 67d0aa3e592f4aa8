--------------------------- MODULE BetaAdmission ---------------------------
(***************************************************************************)
(* Seats of the invitation-only beta (accounts/beta.py, with the adapter,   *)
(* the admin form and the account deletion that call it).  Everybody who    *)
(* writes the registry holds one transaction-scoped advisory lock; accounts *)
(* are written without it, by operators and by owners who change their      *)
(* address.  A locked transaction reads in several statements and shows     *)
(* what it wrote when it commits.  An address stands for its fingerprint.   *)
(***************************************************************************)
EXTENDS Integers, FiniteSets

CONSTANTS
    Emails,         \* normalized addresses
    Requests,       \* requests and commands at work
    MaxAccounts,    \* bound: accounts ever created; ids are never reused
    Limit,          \* BETA_MAX_USERS
    None

ASSUME BetaAssumption ==
    /\ MaxAccounts \in Nat /\ Limit \in Nat
    /\ IsFiniteSet(Emails)
    /\ None \notin Emails /\ None \notin Requests /\ None \notin Nat

Accounts == 1..MaxAccounts

VARIABLES
    enabled,        \* BETA_ENABLED
    born,           \* accounts created so far
    email,          \* User.email; None: no such account
    staged,         \* EmailAddress not verified yet
    seat,           \* BetaInvitation: none, reserved or redeemed
    named,          \* seats whose email column is filled
    holder,         \* BetaInvitation.user
    lock,           \* holder of the registry lock
    pc, target, subject, snap, fresh,   \* what a request has read
    admittedAt,     \* history: the address an account signed up with
    placed          \* history: addresses operators and owners put accounts at

registry == <<seat, named, holder>>
accountVars == <<born, email, staged, admittedAt, placed>>
taskVars == <<pc, target, subject, snap, fresh>>
vars == <<enabled, registry, accountVars, lock, taskVars>>

Live == {a \in born : email[a] # None}
Occupied == {email[a] : a \in Live}
Staged == {staged[a] : a \in Live} \ {None}
Seated == {e \in Emails : seat[e] # "none"}

\* capacity_status: the union of seats and accounts.
Keys == Seated \cup Occupied

Init ==
    /\ enabled \in BOOLEAN
    /\ born = {}
    /\ email = [a \in Accounts |-> None]
    /\ staged = [a \in Accounts |-> None]
    /\ seat = [e \in Emails |-> "none"]
    /\ named = {}
    /\ holder = [e \in Emails |-> None]
    /\ lock = None
    /\ pc = [r \in Requests |-> "idle"]
    /\ target = [r \in Requests |-> {}]
    /\ subject = [r \in Requests |-> None]
    /\ snap = [r \in Requests |-> {}]
    /\ fresh = [r \in Requests |-> {}]
    /\ admittedAt = [a \in Accounts |-> None]
    /\ placed = {}

-----------------------------------------------------------------------------
(* Accounts, written without the lock.                                     *)

\* Primary keys are handed out in order.
Create(a, e) ==
    /\ a \notin born /\ 1..(a - 1) \subseteq born
    /\ born' = born \cup {a}
    /\ email' = [email EXCEPT ![a] = e]

\* Staff add a user, or sign-up is open because the beta is off.
AddAccount ==
    \E a \in Accounts, e \in Emails :
        /\ Create(a, e)
        /\ placed' = placed \cup {e}
        /\ UNCHANGED <<enabled, registry, staged, admittedAt, lock, taskVars>>

\* allauth's change-email flow: the new address waits for its verification,
StageEmail(a, e) ==
    /\ a \in Live
    /\ e \notin Occupied \cup Staged
    /\ staged' = [staged EXCEPT ![a] = e]
    /\ UNCHANGED <<enabled, registry, born, email, admittedAt, placed, lock, taskVars>>

\* and then replaces the old one.
VerifyEmail(a) ==
    /\ a \in Live
    /\ staged[a] # None
    /\ staged[a] \notin Occupied
    /\ email' = [email EXCEPT ![a] = staged[a]]
    /\ staged' = [staged EXCEPT ![a] = None]
    /\ placed' = placed \cup {staged[a]}
    /\ UNCHANGED <<enabled, registry, born, admittedAt, lock, taskVars>>

-----------------------------------------------------------------------------
Goto(r, label) == pc' = [pc EXCEPT ![r] = label]

\* What a transaction that holds the lock sees of the registry.
SeenSeats(r) == Seated \cup snap[r] \cup fresh[r]
SeenKeys(r) == SeenSeats(r) \cup Occupied

\* Accounts without a redeemed seat, as _snapshot_existing_users reads them.
Unseated == {e \in Occupied : seat[e] # "redeemed"}

\* Mutant of TakeLock: nobody waits.
TakeLockNot(r) ==
    /\ lock' = r
    /\ snap' = [snap EXCEPT ![r] = Unseated]

\* registry_lock, and the snapshot every locked transaction begins with.
TakeLock(r) ==
    /\ lock = None
    /\ lock' = r
    /\ snap' = [snap EXCEPT ![r] = Unseated]

\* Commit or roll back: the lock goes with the transaction.
Finish(r) ==
    /\ Goto(r, "idle")
    /\ lock' = IF lock = r THEN None ELSE lock
    /\ target' = [target EXCEPT ![r] = {}]
    /\ subject' = [subject EXCEPT ![r] = None]
    /\ snap' = [snap EXCEPT ![r] = {}]
    /\ fresh' = [fresh EXCEPT ![r] = {}]

\* A refusal, an error or a killed process: nothing is written.
Abort(r) ==
    /\ pc[r] # "idle"
    /\ Finish(r)
    /\ UNCHANGED <<enabled, registry, accountVars>>

\* The account a snapshot links to a seat: the first of that address.
FirstAt(e) == CHOOSE a \in Live : email[a] = e /\ \A b \in Live : email[b] = e => a <= b

-----------------------------------------------------------------------------
(* invite_emails, from the command or the admin form.                      *)

Invite(r, batch) ==
    /\ pc[r] = "idle"
    /\ batch # {}
    /\ TakeLock(r)
    /\ Goto(r, "invite")
    /\ target' = [target EXCEPT ![r] = batch]
    /\ UNCHANGED <<enabled, registry, accountVars, subject, fresh>>

\* Mutant of Reserve: the places are counted before the batch.
ReserveCountedOnce(r, e) ==
    /\ pc[r] = "invite" /\ e \in target[r]
    /\ target' = [target EXCEPT ![r] = @ \ {e}]
    /\ \/ e \in SeenSeats(r) /\ UNCHANGED fresh
       \/ /\ e \notin SeenSeats(r)
          /\ Cardinality(Keys) < Limit
          /\ fresh' = [fresh EXCEPT ![r] = @ \cup {e}]
    /\ UNCHANGED <<enabled, registry, accountVars, lock, pc, subject, snap>>

\* One address of the batch: known, an account's, or counted against the limit.
Reserve(r, e) ==
    /\ pc[r] = "invite" /\ e \in target[r]
    /\ target' = [target EXCEPT ![r] = @ \ {e}]
    /\ \/ e \in SeenSeats(r) /\ UNCHANGED fresh
       \/ /\ e \notin SeenSeats(r)
          /\ e \in Occupied \/ Cardinality(SeenKeys(r)) < Limit
          /\ fresh' = [fresh EXCEPT ![r] = @ \cup {e}]
    /\ UNCHANGED <<enabled, registry, accountVars, lock, pc, subject, snap>>

\* Seats of the snapshot still have their account: a foreign key.
SnapshotStands(r) == snap[r] \subseteq Occupied

\* What the snapshot wrote, e a seat.
SnapSeat(r, e) == e \in snap[r]

InviteCommit(r) ==
    /\ pc[r] = "invite" /\ target[r] = {}
    /\ SnapshotStands(r)
    /\ seat' = [e \in Emails |-> IF SnapSeat(r, e) THEN "redeemed"
                                 ELSE IF e \in fresh[r] THEN "reserved" ELSE seat[e]]
    /\ holder' = [e \in Emails |-> IF SnapSeat(r, e) THEN FirstAt(e) ELSE holder[e]]
    /\ named' = named \cup snap[r] \cup fresh[r]
    /\ Finish(r)
    /\ UNCHANGED <<enabled, accountVars>>

-----------------------------------------------------------------------------
(* Signing up with a verified Google address.                              *)

\* check_admission, over the seats and accounts its reader sees.
Admissible(e, seen, redeemed) ==
    /\ e \notin Occupied \cup Staged
    /\ Cardinality(seen \cup Occupied) <= Limit
    /\ e \in seen \ redeemed
    /\ e \in named

Redeemed == {e \in Emails : seat[e] = "redeemed"}

\* The adapter's checks before anything is saved, without the lock.
CheckAdmission(r, e) ==
    /\ pc[r] = "idle" /\ enabled
    /\ Admissible(e, Seated, Redeemed)
    /\ Goto(r, "admitted")
    /\ target' = [target EXCEPT ![r] = {e}]
    /\ UNCHANGED <<enabled, registry, accountVars, lock, subject, snap, fresh>>

ClaimLock(r) ==
    /\ pc[r] = "admitted"
    /\ TakeLock(r)
    /\ Goto(r, "claim")
    /\ UNCHANGED <<enabled, registry, accountVars, target, subject, fresh>>

\* Mutant of ClaimCheck: what was checked before the lock is not asked again.
ClaimCheckOnce(r) ==
    /\ pc[r] = "claim"
    /\ Goto(r, "create")
    /\ UNCHANGED <<enabled, registry, accountVars, lock, target, subject, snap, fresh>>

\* claim_invitation's own check, under the lock.
ClaimCheck(r) ==
    /\ pc[r] = "claim"
    /\ \A e \in target[r] : Admissible(e, SeenSeats(r), Redeemed \cup snap[r])
    /\ Goto(r, "create")
    /\ UNCHANGED <<enabled, registry, accountVars, lock, target, subject, snap, fresh>>

\* Account, social account, address and redemption commit together.
ClaimCommit(r) ==
    \E a \in Accounts, e \in target[r] :
        /\ pc[r] = "create"
        /\ SnapshotStands(r)
        /\ Create(a, e)
        /\ admittedAt' = [admittedAt EXCEPT ![a] = e]
        /\ seat' = [x \in Emails |-> IF x = e \/ SnapSeat(r, x) THEN "redeemed" ELSE seat[x]]
        /\ holder' = [x \in Emails |-> IF x = e THEN a
                                       ELSE IF SnapSeat(r, x) THEN FirstAt(x) ELSE holder[x]]
        /\ named' = named \cup snap[r]
        /\ Finish(r)
        /\ UNCHANGED <<enabled, staged, placed>>

-----------------------------------------------------------------------------
(* Deletion.  The account was loaded when the request began; Google is      *)
(* asked to revoke before the transaction, so the address may be old.       *)

DeleteStart(r, a) ==
    /\ pc[r] = "idle" /\ a \in Live
    /\ \A q \in Requests : subject[q] # a
    /\ Goto(r, "delete")
    /\ subject' = [subject EXCEPT ![r] = a]
    /\ target' = [target EXCEPT ![r] = {email[a]}]
    /\ UNCHANGED <<enabled, registry, accountVars, lock, snap, fresh>>

Remove(a) ==
    /\ email' = [email EXCEPT ![a] = None]
    /\ staged' = [staged EXCEPT ![a] = None]
    /\ UNCHANGED <<born, admittedAt, placed>>

\* Seats anonymize_user_seats clears.
OwnSeats(r) == target[r] \cup {e \in Emails : holder[e] = subject[r]}

\* preserve_deleted_beta_seat: is there a seat to preserve?
Preserves(r) == enabled \/ OwnSeats(r) \cap Seated # {}

\* Mutant of DeleteSeated: only the seat of the address is cleared.
DeleteSeatedByAddress(r) ==
    /\ pc[r] = "delete" /\ Preserves(r)
    /\ lock = None
    /\ seat' = [e \in Emails |-> IF e \in target[r] THEN "redeemed" ELSE seat[e]]
    /\ named' = named \ target[r]
    /\ holder' = [e \in Emails |-> IF e \in OwnSeats(r) THEN None ELSE holder[e]]
    /\ Remove(subject[r])
    /\ Finish(r)
    /\ UNCHANGED enabled

\* The seat is kept and loses its name, under the lock, with the account.
DeleteSeated(r) ==
    /\ pc[r] = "delete" /\ Preserves(r)
    /\ lock = None
    /\ seat' = [e \in Emails |-> IF e \in OwnSeats(r) THEN "redeemed" ELSE seat[e]]
    /\ named' = named \ OwnSeats(r)
    /\ holder' = [e \in Emails |-> IF e \in OwnSeats(r) THEN None ELSE holder[e]]
    /\ Remove(subject[r])
    /\ Finish(r)
    /\ UNCHANGED enabled

\* No seat was found: the account goes without the lock, SET_NULL clears links.
DeleteSeen(r) ==
    /\ pc[r] = "delete" /\ ~ Preserves(r)
    /\ Goto(r, "unseated")
    /\ UNCHANGED <<enabled, registry, accountVars, lock, target, subject, snap, fresh>>

DeleteUnseated(r) ==
    /\ pc[r] = "unseated"
    /\ holder' = [e \in Emails |-> IF holder[e] = subject[r] THEN None ELSE holder[e]]
    /\ Remove(subject[r])
    /\ Finish(r)
    /\ UNCHANGED <<enabled, seat, named>>

-----------------------------------------------------------------------------
InviteStep(r) ==
    \/ \E batch \in SUBSET Emails : Invite(r, batch)
    \/ \E e \in Emails : Reserve(r, e)
    \/ InviteCommit(r)

SignUpStep(r) ==
    \/ \E e \in Emails : CheckAdmission(r, e)
    \/ ClaimLock(r) \/ ClaimCheck(r) \/ ClaimCommit(r)

DeleteStep(r) ==
    \/ \E a \in Accounts : DeleteStart(r, a)
    \/ DeleteSeated(r) \/ DeleteSeen(r) \/ DeleteUnseated(r)

Next ==
    \/ AddAccount
    \/ \E a \in Accounts : VerifyEmail(a) \/ \E e \in Emails : StageEmail(a, e)
    \/ \E r \in Requests : InviteStep(r) \/ SignUpStep(r) \/ DeleteStep(r) \/ Abort(r)

Spec == Init /\ [][Next]_vars

-----------------------------------------------------------------------------
Labels == {"idle", "invite", "admitted", "claim", "create", "delete", "unseated"}
Locked == {"invite", "claim", "create"}

(* Types; the lock is held by the one request inside a locked transaction.  *)
TypeOK ==
    /\ enabled \in BOOLEAN
    /\ born \subseteq Accounts
    /\ email \in [Accounts -> Emails \cup {None}]
    /\ staged \in [Accounts -> Emails \cup {None}]
    /\ seat \in [Emails -> {"none", "reserved", "redeemed"}]
    /\ named \subseteq Emails
    /\ holder \in [Emails -> Accounts \cup {None}]
    /\ lock \in Requests \cup {None}
    /\ pc \in [Requests -> Labels]
    /\ target \in [Requests -> SUBSET Emails]
    /\ subject \in [Requests -> Accounts \cup {None}]
    /\ snap \in [Requests -> SUBSET Emails]
    /\ fresh \in [Requests -> SUBSET Emails]
    /\ admittedAt \in [Accounts -> Emails \cup {None}]
    /\ placed \subseteq Emails
    /\ \A r \in Requests : pc[r] \in Locked <=> lock = r

(* The beta never admits beyond its limit (beta.capacity_status,            *)
(* validate_invitation): leaving out addresses that staff or owners put     *)
(* accounts at by themselves, seats and accounts fit, whatever was invited, *)
(* claimed, moved and deleted at once.                                      *)
CapacityKept == Cardinality(Keys \ placed) <= Limit

(* An invitation admits one account, ever: also after that account moved to *)
(* another address or was deleted (BetaInvitation: "lifetime seat").        *)
RedeemedOnce ==
    \A a, b \in Accounts : admittedAt[a] # None /\ admittedAt[a] = admittedAt[b] => a = b

(* Deletion clears the address (BetaInvitation's docstring): while the beta *)
(* is on, a seat with a name on it is an open invitation or a living        *)
(* member's.                                                                *)
ErasedIsNameless ==
    enabled => \A e \in named : seat[e] = "reserved" \/ holder[e] \in Live

(* The same with the beta off, when seats may be reserved already.          *)
ErasedIsNamelessAlways ==
    \A e \in named : seat[e] = "reserved" \/ holder[e] \in Live

(* A seat is never recycled: it stays redeemed, and one that lost its       *)
(* member never gets another nor a name (anonymize_user_seats).             *)
NeverRecycled ==
    [][\A e \in Emails : seat[e] = "redeemed" =>
        /\ seat'[e] = "redeemed"
        /\ holder[e] = None => holder'[e] = None /\ (e \notin named => e \notin named')]_vars
=============================================================================
