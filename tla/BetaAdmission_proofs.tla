------------------------ MODULE BetaAdmission_proofs ------------------------
(***************************************************************************)
(* Proofs about BetaAdmission, for any number of addresses, accounts and    *)
(* requests, and any limit.                                                 *)
(***************************************************************************)
EXTENDS BetaAdmission, FiniteSetTheorems, WellFoundedInduction, TLAPS

-----------------------------------------------------------------------------
(* Types.                                                                  *)

\* A set of numbers that is not empty has a least one.
LEMMA LeastExists ==
    ASSUME NEW S, S \subseteq Nat, S # {}
    PROVE  \E n \in S : \A k \in S : n <= k
<1>. DEFINE Less == OpToRel(<, Nat)
<1>1. \E n \in S : \A k \in S : ~ (<<k, n>> \in Less)
  <2>. HIDE DEF Less
  <2>. QED  BY NatLessThanWellFounded, WFMin DEF Less
<1>2. \A k, n \in Nat : k < n => <<k, n>> \in Less
  BY DEF OpToRel
<1>. QED
  <2>. HIDE DEF Less
  <2>1. PICK n \in S : \A k \in S : ~ (<<k, n>> \in Less)
    BY <1>1
  <2>2. \A k \in S : ~ (k < n)
    BY <1>2, <2>1
  <2>. QED  BY <2>2

\* The account a snapshot links is a living one.
LEMMA FirstAtIsLive ==
    ASSUME TypeOK, NEW e \in Occupied
    PROVE  FirstAt(e) \in Live /\ FirstAt(e) \in Accounts
<1>. DEFINE S == {a \in Live : email[a] = e}
<1>1. S # {} /\ S \subseteq Nat /\ S \subseteq Accounts
  BY DEF Occupied, Live, TypeOK, Accounts
<1>2. PICK a \in S : \A b \in S : a <= b
  <2>. HIDE DEF S
  <2>. QED  BY <1>1, LeastExists
<1>3. a \in Live /\ email[a] = e /\ \A b \in Live : email[b] = e => a <= b
  BY <1>2
<1>. QED  BY <1>1, <1>3 DEF FirstAt

\* Every step keeps the types and the one holder of the lock.
LEMMA TypeStep == TypeOK /\ [Next]_vars => TypeOK'
<1>. SUFFICES ASSUME TypeOK, [Next]_vars
              PROVE  TypeOK'
  OBVIOUS
<1>. USE BetaAssumption DEF TypeOK, registry, accountVars, taskVars, Goto, Labels, Locked
<1>1. ASSUME AddAccount
      PROVE  TypeOK'
  BY <1>1 DEF AddAccount, Create
<1>2. ASSUME NEW a \in Accounts, VerifyEmail(a)
      PROVE  TypeOK'
  BY <1>2 DEF VerifyEmail, Live
<1>3. ASSUME NEW a \in Accounts, NEW e \in Emails, StageEmail(a, e)
      PROVE  TypeOK'
  BY <1>3 DEF StageEmail
<1>4. ASSUME NEW r \in Requests, NEW batch \in SUBSET Emails, Invite(r, batch)
      PROVE  TypeOK'
  BY <1>4 DEF Invite, TakeLock, Unseated, Occupied, Live
<1>5. ASSUME NEW r \in Requests, NEW e \in Emails, Reserve(r, e)
      PROVE  TypeOK'
  BY <1>5 DEF Reserve
<1>6. ASSUME NEW r \in Requests, InviteCommit(r)
      PROVE  TypeOK'
  <2>1. \A e \in snap[r] : FirstAt(e) \in Accounts
    BY <1>6, FirstAtIsLive DEF InviteCommit, SnapshotStands
  <2>2. seat' \in [Emails -> {"none", "reserved", "redeemed"}] /\ named' \subseteq Emails
    BY <1>6 DEF InviteCommit, SnapSeat
  <2>3. holder' \in [Emails -> Accounts \cup {None}]
    BY <1>6, <2>1 DEF InviteCommit, SnapSeat, Create
  <2>. QED  BY <1>6, <2>2, <2>3 DEF InviteCommit, Finish
<1>7. ASSUME NEW r \in Requests, NEW e \in Emails, CheckAdmission(r, e)
      PROVE  TypeOK'
  BY <1>7 DEF CheckAdmission
<1>8. ASSUME NEW r \in Requests, ClaimLock(r)
      PROVE  TypeOK'
  BY <1>8 DEF ClaimLock, TakeLock, Unseated, Occupied, Live
<1>9. ASSUME NEW r \in Requests, ClaimCheck(r)
      PROVE  TypeOK'
  BY <1>9 DEF ClaimCheck
<1>10. ASSUME NEW r \in Requests, ClaimCommit(r)
      PROVE  TypeOK'
  <2>1. \A e \in snap[r] : FirstAt(e) \in Accounts
    BY <1>10, FirstAtIsLive DEF ClaimCommit, SnapshotStands
  <2>2. seat' \in [Emails -> {"none", "reserved", "redeemed"}] /\ named' \subseteq Emails
    BY <1>10 DEF ClaimCommit, SnapSeat
  <2>3. holder' \in [Emails -> Accounts \cup {None}]
    BY <1>10, <2>1 DEF ClaimCommit, SnapSeat, Create
  <2>. QED  BY <1>10, <2>2, <2>3 DEF ClaimCommit, Finish, Create
<1>11. ASSUME NEW r \in Requests, NEW a \in Accounts, DeleteStart(r, a)
      PROVE  TypeOK'
  BY <1>11 DEF DeleteStart, Live
<1>12. ASSUME NEW r \in Requests, DeleteSeated(r)
      PROVE  TypeOK'
  BY <1>12 DEF DeleteSeated, Remove, Finish
<1>13. ASSUME NEW r \in Requests, DeleteSeen(r)
      PROVE  TypeOK'
  BY <1>13 DEF DeleteSeen
<1>14. ASSUME NEW r \in Requests, DeleteUnseated(r)
      PROVE  TypeOK'
  BY <1>14 DEF DeleteUnseated, Remove, Finish
<1>15. ASSUME NEW r \in Requests, Abort(r)
      PROVE  TypeOK'
  BY <1>15 DEF Abort, Finish
<1>16. CASE UNCHANGED vars
  BY <1>16 DEF vars
<1>. QED
  BY <1>1, <1>2, <1>3, <1>4, <1>5, <1>6, <1>7, <1>8, <1>9, <1>10, <1>11, <1>12, <1>13, <1>14, <1>15, <1>16 DEF Next, InviteStep, SignUpStep, DeleteStep

\* The types of every variable, and the one holder of the registry lock.
THEOREM TypeCorrect == Spec => []TypeOK
<1>1. Init => TypeOK
  BY BetaAssumption DEF Init, TypeOK, Labels, Locked
<1>. QED  BY <1>1, TypeStep, PTL DEF Spec

-----------------------------------------------------------------------------
(* The registry between and inside its locked transactions.                *)

\* An address that is somebody's own doing or has a seat.
Taken == placed \cup Seated

\* Every account's address is taken, so a snapshot opens no new place; names
\* and members are on seats; what a transaction is about to write does not
\* touch a redeemed seat, and an address about to be claimed has an open one.
RegistryInv ==
    /\ Occupied \subseteq Taken
    /\ named \subseteq Seated
    /\ \A e \in Emails : holder[e] # None => e \in Seated
    /\ \A r \in Requests : pc[r] \in {"delete", "unseated"} =>
          target[r] \subseteq Taken /\ subject[r] \in Accounts
    /\ \A r \in Requests : snap[r] \subseteq Taken
    /\ \A r \in Requests : lock = r =>
          snap[r] \cap Redeemed = {} /\ fresh[r] \cap Seated = {}
    /\ \A r \in Requests : pc[r] # "invite" => fresh[r] = {}
    /\ \A r \in Requests : pc[r] = "create" => target[r] \subseteq Seated \ Redeemed

\* Every step keeps the registry consistent.
LEMMA RegistryStep == TypeOK /\ RegistryInv /\ [Next]_vars => RegistryInv'
<1>. SUFFICES ASSUME TypeOK, RegistryInv, [Next]_vars
              PROVE  RegistryInv'
  OBVIOUS
<1>. USE BetaAssumption DEF TypeOK, RegistryInv, Taken, registry, accountVars, taskVars,
                            Goto, Labels, Locked, Seated, Redeemed, Occupied, Live
<1>1. ASSUME AddAccount
      PROVE  RegistryInv'
  BY <1>1 DEF AddAccount, Create
<1>2. ASSUME NEW a \in Accounts, VerifyEmail(a)
      PROVE  RegistryInv'
  BY <1>2 DEF VerifyEmail
<1>3. ASSUME NEW a \in Accounts, NEW e \in Emails, StageEmail(a, e)
      PROVE  RegistryInv'
  BY <1>3 DEF StageEmail
<1>4. ASSUME NEW r \in Requests, NEW batch \in SUBSET Emails, Invite(r, batch)
      PROVE  RegistryInv'
  BY <1>4 DEF Invite, TakeLock, Unseated
<1>5. ASSUME NEW r \in Requests, NEW e \in Emails, Reserve(r, e)
      PROVE  RegistryInv'
  BY <1>5 DEF Reserve, SeenSeats
<1>6. ASSUME NEW r \in Requests, InviteCommit(r)
      PROVE  RegistryInv'
  BY <1>6 DEF InviteCommit, Finish, SnapSeat, SnapshotStands
<1>7. ASSUME NEW r \in Requests, NEW e \in Emails, CheckAdmission(r, e)
      PROVE  RegistryInv'
  BY <1>7 DEF CheckAdmission
<1>8. ASSUME NEW r \in Requests, ClaimLock(r)
      PROVE  RegistryInv'
  BY <1>8 DEF ClaimLock, TakeLock, Unseated
<1>9. ASSUME NEW r \in Requests, ClaimCheck(r)
      PROVE  RegistryInv'
  <2>1. fresh[r] = {}
    BY <1>9 DEF ClaimCheck
  <2>2. \A e \in target[r] : e \in SeenSeats(r) \ (Redeemed \cup snap[r])
    BY <1>9, Zenon DEF ClaimCheck, Admissible
  <2>3. target[r] \subseteq Seated \ Redeemed
    BY <2>1, <2>2 DEF SeenSeats
  <2>. QED  BY <1>9, <2>3 DEF ClaimCheck
<1>10. ASSUME NEW r \in Requests, ClaimCommit(r)
      PROVE  RegistryInv'
  BY <1>10 DEF ClaimCommit, Finish, SnapSeat, SnapshotStands, Create
<1>11. ASSUME NEW r \in Requests, NEW a \in Accounts, DeleteStart(r, a)
      PROVE  RegistryInv'
  BY <1>11 DEF DeleteStart
<1>12. ASSUME NEW r \in Requests, DeleteSeated(r)
      PROVE  RegistryInv'
  BY <1>12 DEF DeleteSeated, Remove, Finish, OwnSeats
<1>13. ASSUME NEW r \in Requests, DeleteSeen(r)
      PROVE  RegistryInv'
  BY <1>13 DEF DeleteSeen
<1>14. ASSUME NEW r \in Requests, DeleteUnseated(r)
      PROVE  RegistryInv'
  BY <1>14 DEF DeleteUnseated, Remove, Finish
<1>15. ASSUME NEW r \in Requests, Abort(r)
      PROVE  RegistryInv'
  BY <1>15 DEF Abort, Finish
<1>16. CASE UNCHANGED vars
  BY <1>16 DEF vars
<1>. QED
  BY <1>1, <1>2, <1>3, <1>4, <1>5, <1>6, <1>7, <1>8, <1>9, <1>10, <1>11, <1>12, <1>13, <1>14, <1>15, <1>16 DEF Next, InviteStep, SignUpStep, DeleteStep

-----------------------------------------------------------------------------
(* One account to a seat.                                                  *)

\* An account signed up on a seat that has been redeemed since.
AdmittedInv ==
    \A a \in Accounts : admittedAt[a] # None => a \in born /\ admittedAt[a] \in Redeemed

\* What a sign-up leaves.
LEMMA ClaimEffect ==
    ASSUME NEW r \in Requests, ClaimCommit(r)
    PROVE  \E a \in Accounts, e \in target[r] :
             /\ Create(a, e)
             /\ pc[r] = "create"
             /\ admittedAt' = [admittedAt EXCEPT ![a] = e]
             /\ seat' = [x \in Emails |-> IF x = e \/ SnapSeat(r, x) THEN "redeemed" ELSE seat[x]]
             /\ holder' = [x \in Emails |-> IF x = e THEN a
                                             ELSE IF SnapSeat(r, x) THEN FirstAt(x)
                                             ELSE holder[x]]
             /\ named' = named \cup snap[r]
BY Zenon DEF ClaimCommit

\* Every step keeps one account to a seat.
LEMMA RedeemedStep ==
    TypeOK /\ RegistryInv /\ AdmittedInv /\ RedeemedOnce /\ [Next]_vars
      => AdmittedInv' /\ RedeemedOnce'
<1>. SUFFICES ASSUME TypeOK, RegistryInv, AdmittedInv, RedeemedOnce, [Next]_vars
              PROVE  AdmittedInv' /\ RedeemedOnce'
  OBVIOUS
<1>. USE BetaAssumption DEF TypeOK, AdmittedInv, RedeemedOnce, registry, accountVars,
                            taskVars, Redeemed
<1>1. ASSUME AddAccount
      PROVE  AdmittedInv' /\ RedeemedOnce'
  BY <1>1 DEF AddAccount, Create
<1>2. ASSUME NEW a \in Accounts, VerifyEmail(a)
      PROVE  AdmittedInv' /\ RedeemedOnce'
  BY <1>2 DEF VerifyEmail
<1>3. ASSUME NEW a \in Accounts, NEW e \in Emails, StageEmail(a, e)
      PROVE  AdmittedInv' /\ RedeemedOnce'
  BY <1>3 DEF StageEmail
<1>4. ASSUME NEW r \in Requests, NEW batch \in SUBSET Emails, Invite(r, batch)
      PROVE  AdmittedInv' /\ RedeemedOnce'
  BY <1>4 DEF Invite
<1>5. ASSUME NEW r \in Requests, NEW e \in Emails, Reserve(r, e)
      PROVE  AdmittedInv' /\ RedeemedOnce'
  BY <1>5 DEF Reserve
<1>6. ASSUME NEW r \in Requests, InviteCommit(r)
      PROVE  AdmittedInv' /\ RedeemedOnce'
  <2>1. fresh[r] \cap Redeemed = {}
    BY <1>6 DEF InviteCommit, RegistryInv, Seated, Locked
  <2>2. Redeemed \subseteq Redeemed'
    BY <1>6, <2>1 DEF InviteCommit
  <2>. QED  BY <1>6, <2>2 DEF InviteCommit
<1>7. ASSUME NEW r \in Requests, NEW e \in Emails, CheckAdmission(r, e)
      PROVE  AdmittedInv' /\ RedeemedOnce'
  BY <1>7 DEF CheckAdmission
<1>8. ASSUME NEW r \in Requests, ClaimLock(r)
      PROVE  AdmittedInv' /\ RedeemedOnce'
  BY <1>8 DEF ClaimLock
<1>9. ASSUME NEW r \in Requests, ClaimCheck(r)
      PROVE  AdmittedInv' /\ RedeemedOnce'
  BY <1>9 DEF ClaimCheck
<1>10. ASSUME NEW r \in Requests, ClaimCommit(r)
      PROVE  AdmittedInv' /\ RedeemedOnce'
  <2>1. PICK a \in Accounts, e \in target[r] :
             /\ Create(a, e)
             /\ pc[r] = "create"
             /\ admittedAt' = [admittedAt EXCEPT ![a] = e]
             /\ seat' = [x \in Emails |-> IF x = e \/ SnapSeat(r, x) THEN "redeemed" ELSE seat[x]]
    BY <1>10, ClaimEffect
  <2>2. e \notin Redeemed /\ e \in Emails
    BY <2>1 DEF RegistryInv
  <2>3. Redeemed \cup {e} \subseteq Redeemed'
    BY <2>1, <2>2
  <2>4. \A b \in Accounts : b # a => admittedAt'[b] = admittedAt[b]
    BY <2>1
  <2>5. admittedAt'[a] = e /\ a \notin born /\ born' = born \cup {a}
    BY <2>1 DEF Create
  <2>6. \A b \in Accounts : admittedAt[b] # e
    BY <2>2, BetaAssumption
  <2>. QED  BY <2>2, <2>3, <2>4, <2>5, <2>6
<1>11. ASSUME NEW r \in Requests, NEW a \in Accounts, DeleteStart(r, a)
      PROVE  AdmittedInv' /\ RedeemedOnce'
  BY <1>11 DEF DeleteStart
<1>12. ASSUME NEW r \in Requests, DeleteSeated(r)
      PROVE  AdmittedInv' /\ RedeemedOnce'
  BY <1>12 DEF DeleteSeated, Remove
<1>13. ASSUME NEW r \in Requests, DeleteSeen(r)
      PROVE  AdmittedInv' /\ RedeemedOnce'
  BY <1>13 DEF DeleteSeen
<1>14. ASSUME NEW r \in Requests, DeleteUnseated(r)
      PROVE  AdmittedInv' /\ RedeemedOnce'
  BY <1>14 DEF DeleteUnseated, Remove
<1>15. ASSUME NEW r \in Requests, Abort(r)
      PROVE  AdmittedInv' /\ RedeemedOnce'
  BY <1>15 DEF Abort
<1>16. CASE UNCHANGED vars
  BY <1>16 DEF vars
<1>. QED
  BY <1>1, <1>2, <1>3, <1>4, <1>5, <1>6, <1>7, <1>8, <1>9, <1>10, <1>11, <1>12, <1>13, <1>14, <1>15, <1>16 DEF Next, InviteStep, SignUpStep, DeleteStep

\* The registry begins empty.
LEMMA RegistryInit == Init => TypeOK /\ RegistryInv /\ AdmittedInv /\ RedeemedOnce
BY BetaAssumption DEF Init, TypeOK, Labels, Locked, RegistryInv, Taken, AdmittedInv,
   RedeemedOnce, Seated, Redeemed, Occupied, Live

\* The types and the registry's consistency hold in every state.
LEMMA RegistryHolds == Spec => [](TypeOK /\ RegistryInv)
<1>1. Init => TypeOK /\ RegistryInv
  BY RegistryInit
<1>2. TypeOK /\ RegistryInv /\ [Next]_vars => TypeOK' /\ RegistryInv'
  BY TypeStep, RegistryStep
<1>. QED  BY <1>1, <1>2, PTL DEF Spec

\* An invitation admits one account, whatever overlaps, moves or is deleted.
THEOREM RedeemedOnceHolds == Spec => []RedeemedOnce
<1>1. Init => AdmittedInv /\ RedeemedOnce
  BY RegistryInit
<1>. QED  BY <1>1, RedeemedStep, RegistryHolds, PTL DEF Spec

-----------------------------------------------------------------------------
(* Seats are for life.                                                     *)

\* A redeemed seat stays redeemed, and without a member gets none, nor a name.
KeptSeat(e) ==
    seat[e] = "redeemed" =>
        /\ seat'[e] = "redeemed"
        /\ holder[e] = None => holder'[e] = None /\ (e \notin named => e \notin named')

\* Every step keeps a redeemed seat.
LEMMA KeptStep ==
    ASSUME TypeOK, RegistryInv, [Next]_vars
    PROVE  \A e \in Emails : KeptSeat(e)
<1>. USE BetaAssumption DEF TypeOK, registry, accountVars, KeptSeat
<1>. DEFINE Kept == \A e \in Emails : KeptSeat(e)
<1>1. ASSUME AddAccount
      PROVE  Kept
  BY <1>1 DEF AddAccount
<1>2. ASSUME NEW a \in Accounts, VerifyEmail(a)
      PROVE  Kept
  BY <1>2 DEF VerifyEmail
<1>3. ASSUME NEW a \in Accounts, NEW e \in Emails, StageEmail(a, e)
      PROVE  Kept
  BY <1>3 DEF StageEmail
<1>4. ASSUME NEW r \in Requests, NEW batch \in SUBSET Emails, Invite(r, batch)
      PROVE  Kept
  BY <1>4 DEF Invite
<1>5. ASSUME NEW r \in Requests, NEW e \in Emails, Reserve(r, e)
      PROVE  Kept
  BY <1>5 DEF Reserve
<1>6. ASSUME NEW r \in Requests, InviteCommit(r)
      PROVE  Kept
  <2>1. snap[r] \cap Redeemed = {} /\ fresh[r] \cap Seated = {}
    BY <1>6 DEF InviteCommit, RegistryInv, Locked
  <2>. QED  BY <1>6, <2>1 DEF InviteCommit, SnapSeat, Redeemed, Seated
<1>7. ASSUME NEW r \in Requests, NEW e \in Emails, CheckAdmission(r, e)
      PROVE  Kept
  BY <1>7 DEF CheckAdmission
<1>8. ASSUME NEW r \in Requests, ClaimLock(r)
      PROVE  Kept
  BY <1>8 DEF ClaimLock
<1>9. ASSUME NEW r \in Requests, ClaimCheck(r)
      PROVE  Kept
  BY <1>9 DEF ClaimCheck
<1>10. ASSUME NEW r \in Requests, ClaimCommit(r)
      PROVE  Kept
  <2>1. snap[r] \cap Redeemed = {} /\ fresh[r] \cap Seated = {}
    BY <1>10 DEF ClaimCommit, RegistryInv, Locked
  <2>2. \A e \in target[r] : e \notin Redeemed
    BY <1>10 DEF ClaimCommit, RegistryInv
  <2>. QED  BY <1>10, <2>1, <2>2 DEF ClaimCommit, SnapSeat, Redeemed
<1>11. ASSUME NEW r \in Requests, NEW a \in Accounts, DeleteStart(r, a)
      PROVE  Kept
  BY <1>11 DEF DeleteStart
<1>12. ASSUME NEW r \in Requests, DeleteSeated(r)
      PROVE  Kept
  BY <1>12 DEF DeleteSeated
<1>13. ASSUME NEW r \in Requests, DeleteSeen(r)
      PROVE  Kept
  BY <1>13 DEF DeleteSeen
<1>14. ASSUME NEW r \in Requests, DeleteUnseated(r)
      PROVE  Kept
  BY <1>14 DEF DeleteUnseated
<1>15. ASSUME NEW r \in Requests, Abort(r)
      PROVE  Kept
  BY <1>15 DEF Abort
<1>16. CASE UNCHANGED vars
  BY <1>16 DEF vars
<1>. QED
  BY <1>1, <1>2, <1>3, <1>4, <1>5, <1>6, <1>7, <1>8, <1>9, <1>10, <1>11, <1>12, <1>13, <1>14, <1>15, <1>16 DEF Next, InviteStep, SignUpStep, DeleteStep

\* Whatever is invited, claimed, moved or deleted, no seat is given twice.
THEOREM NeverRecycledHolds == Spec => NeverRecycled
<1>1. TypeOK /\ RegistryInv /\ [Next]_vars
        => [\A e \in Emails : seat[e] = "redeemed" =>
              /\ seat'[e] = "redeemed"
              /\ holder[e] = None => holder'[e] = None /\ (e \notin named => e \notin named')]_vars
  BY KeptStep DEF KeptSeat
<1>. QED  BY <1>1, RegistryHolds, PTL DEF Spec, NeverRecycled

-----------------------------------------------------------------------------
(* An erased account leaves no name.                                       *)

\* With the beta on, every deletion goes through the registry.
MemberInv ==
    enabled => /\ \A r \in Requests : pc[r] # "unseated"
               /\ \A e \in named : seat[e] = "reserved" \/ holder[e] \in Live

\* Every step keeps the names on the seats explained.
LEMMA MemberStep ==
    TypeOK /\ RegistryInv /\ MemberInv /\ [Next]_vars => MemberInv'
<1>. SUFFICES ASSUME TypeOK, RegistryInv, MemberInv, [Next]_vars, enabled
              PROVE  MemberInv'
  BY DEF MemberInv, Next, InviteStep, SignUpStep, DeleteStep, AddAccount, VerifyEmail,
         StageEmail, Invite, Reserve, InviteCommit, CheckAdmission, ClaimLock, ClaimCheck,
         ClaimCommit, DeleteStart, DeleteSeated, DeleteSeen, DeleteUnseated, Abort, vars
<1>. USE BetaAssumption DEF TypeOK, MemberInv, registry, accountVars, taskVars, Goto, Live
<1>1. ASSUME AddAccount
      PROVE  MemberInv'
  BY <1>1 DEF AddAccount, Create
<1>2. ASSUME NEW a \in Accounts, VerifyEmail(a)
      PROVE  MemberInv'
  BY <1>2 DEF VerifyEmail
<1>3. ASSUME NEW a \in Accounts, NEW e \in Emails, StageEmail(a, e)
      PROVE  MemberInv'
  BY <1>3 DEF StageEmail
<1>4. ASSUME NEW r \in Requests, NEW batch \in SUBSET Emails, Invite(r, batch)
      PROVE  MemberInv'
  BY <1>4 DEF Invite, TakeLock
<1>5. ASSUME NEW r \in Requests, NEW e \in Emails, Reserve(r, e)
      PROVE  MemberInv'
  BY <1>5 DEF Reserve
<1>6. ASSUME NEW r \in Requests, InviteCommit(r)
      PROVE  MemberInv'
  <2>1. \A e \in snap[r] : FirstAt(e) \in Live
    BY <1>6, FirstAtIsLive DEF InviteCommit, SnapshotStands
  <2>2. \A e \in named' : seat'[e] = "reserved" \/ holder'[e] \in Live
    BY <1>6, <2>1 DEF InviteCommit, SnapSeat, RegistryInv, Seated, Locked
  <2>. QED  BY <1>6, <2>2 DEF InviteCommit, Finish
<1>7. ASSUME NEW r \in Requests, NEW e \in Emails, CheckAdmission(r, e)
      PROVE  MemberInv'
  BY <1>7 DEF CheckAdmission
<1>8. ASSUME NEW r \in Requests, ClaimLock(r)
      PROVE  MemberInv'
  BY <1>8 DEF ClaimLock, TakeLock
<1>9. ASSUME NEW r \in Requests, ClaimCheck(r)
      PROVE  MemberInv'
  BY <1>9 DEF ClaimCheck
<1>10. ASSUME NEW r \in Requests, ClaimCommit(r)
      PROVE  MemberInv'
  <2>1. \A e \in snap[r] : FirstAt(e) \in Live
    BY <1>10, FirstAtIsLive DEF ClaimCommit, SnapshotStands
  <2>3. PICK a \in Accounts, e \in target[r] :
             /\ Create(a, e)
             /\ pc[r] = "create"
             /\ seat' = [x \in Emails |-> IF x = e \/ SnapSeat(r, x) THEN "redeemed" ELSE seat[x]]
             /\ holder' = [x \in Emails |-> IF x = e THEN a
                                             ELSE IF SnapSeat(r, x) THEN FirstAt(x)
                                             ELSE holder[x]]
             /\ named' = named \cup snap[r]
    BY <1>10, ClaimEffect
  <2>4. e \in Emails /\ Live' = Live \cup {a}
    BY <2>3 DEF Create
  <2>2. ASSUME NEW x \in named'
        PROVE  seat'[x] = "reserved" \/ holder'[x] \in Live'
    <3>1. CASE x = e
      BY <2>3, <2>4, <3>1
    <3>2. CASE x # e /\ x \in snap[r]
      BY <2>1, <2>3, <2>4, <3>2 DEF SnapSeat
    <3>3. CASE x # e /\ x \notin snap[r]
      BY <2>3, <2>4, <3>3 DEF SnapSeat
    <3>. QED  BY <3>1, <3>2, <3>3
  <2>5. \A q \in Requests : pc'[q] # "unseated"
    BY <1>10 DEF ClaimCommit, Finish
  <2>. QED  BY <2>2, <2>5
<1>11. ASSUME NEW r \in Requests, NEW a \in Accounts, DeleteStart(r, a)
      PROVE  MemberInv'
  BY <1>11 DEF DeleteStart
<1>12. ASSUME NEW r \in Requests, DeleteSeated(r)
      PROVE  MemberInv'
  <2>1. \A e \in named' : seat'[e] = "reserved" \/ holder'[e] \in Live'
    BY <1>12 DEF DeleteSeated, OwnSeats, Remove
  <2>. QED  BY <1>12, <2>1 DEF DeleteSeated, Finish
<1>13. ASSUME NEW r \in Requests, DeleteSeen(r)
      PROVE  MemberInv'
  BY <1>13 DEF DeleteSeen, Preserves
<1>14. ASSUME NEW r \in Requests, DeleteUnseated(r)
      PROVE  MemberInv'
  BY <1>14 DEF DeleteUnseated
<1>15. ASSUME NEW r \in Requests, Abort(r)
      PROVE  MemberInv'
  BY <1>15 DEF Abort, Finish
<1>16. CASE UNCHANGED vars
  BY <1>16 DEF vars
<1>. QED
  BY <1>1, <1>2, <1>3, <1>4, <1>5, <1>6, <1>7, <1>8, <1>9, <1>10, <1>11, <1>12, <1>13, <1>14, <1>15, <1>16 DEF Next, InviteStep, SignUpStep, DeleteStep

\* While the beta is on, a name on a seat is an invitation's or a member's.
THEOREM ErasedIsNamelessHolds == Spec => []ErasedIsNameless
<1>1. Init => MemberInv
  BY DEF Init, MemberInv
<1>2. MemberInv => ErasedIsNameless
  BY DEF MemberInv, ErasedIsNameless
<1>. QED  BY <1>1, <1>2, MemberStep, RegistryHolds, PTL DEF Spec

-----------------------------------------------------------------------------
(* Capacity.                                                               *)

\* Places the registry has given away, and those a batch is about to give.
CapacityInv ==
    /\ Cardinality(Seated \ placed) <= Limit
    /\ \A r \in Requests :
          pc[r] = "invite" => Cardinality((Seated \cup fresh[r]) \ placed) <= Limit

\* Fewer addresses are no more places.
LEMMA Smaller ==
    ASSUME NEW S, NEW T, S \subseteq T, T \subseteq Emails, Cardinality(T) <= Limit
    PROVE  Cardinality(S) <= Limit
<1>1. IsFiniteSet(T) /\ IsFiniteSet(S)
  BY BetaAssumption, FS_Subset
<1>2. Cardinality(S) <= Cardinality(T) /\ Cardinality(S) \in Nat /\ Cardinality(T) \in Nat
  BY <1>1, FS_Subset, FS_CardinalityType
<1>. QED  BY <1>2, BetaAssumption

\* One more address than fewer than Limit is Limit at most.
LEMMA OneMore ==
    ASSUME NEW S, NEW T, NEW e, S \subseteq T \cup {e}, T \subseteq Emails,
           Cardinality(T) < Limit
    PROVE  Cardinality(S) <= Limit
<1>1. IsFiniteSet(T) /\ IsFiniteSet(T \cup {e})
  BY BetaAssumption, FS_Subset, FS_AddElement
<1>2. Cardinality(T \cup {e}) <= Cardinality(T) + 1
  BY <1>1, FS_AddElement, FS_CardinalityType
<1>3. /\ Cardinality(S) <= Cardinality(T \cup {e})
      /\ Cardinality(S) \in Nat /\ Cardinality(T) \in Nat /\ Cardinality(T \cup {e}) \in Nat
  BY <1>1, FS_Subset, FS_CardinalityType
<1>. QED  BY <1>2, <1>3, BetaAssumption

\* A step that gives no place away.
LEMMA NoNewPlace ==
    ASSUME TypeOK, CapacityInv, placed \subseteq placed',
           Seated' \ placed' \subseteq Seated \ placed,
           \A r \in Requests : pc'[r] = "invite" =>
              \/ pc[r] = "invite" /\ fresh'[r] \subseteq fresh[r]
              \/ fresh'[r] = {}
    PROVE  CapacityInv'
<1>1. Cardinality(Seated' \ placed') <= Limit
  BY Smaller DEF CapacityInv, Seated
<1>2. ASSUME NEW r \in Requests, pc'[r] = "invite"
      PROVE  Cardinality((Seated' \cup fresh'[r]) \ placed') <= Limit
  <2>1. CASE pc[r] = "invite" /\ fresh'[r] \subseteq fresh[r]
    <3>1. (Seated' \cup fresh'[r]) \ placed' \subseteq (Seated \cup fresh[r]) \ placed
      BY <2>1
    <3>2. (Seated \cup fresh[r]) \ placed \subseteq Emails
      BY DEF Seated, TypeOK
    <3>. QED  BY <2>1, <3>1, <3>2, Smaller DEF CapacityInv
  <2>2. CASE fresh'[r] = {}
    BY <1>1, <2>2
  <2>. QED  BY <1>2, <2>1, <2>2
<1>. QED  BY <1>1, <1>2 DEF CapacityInv

\* Every step keeps the places given away within the limit.
LEMMA CapacityStep ==
    TypeOK /\ RegistryInv /\ CapacityInv /\ [Next]_vars => CapacityInv'
<1>. SUFFICES ASSUME TypeOK, RegistryInv, CapacityInv, [Next]_vars
              PROVE  CapacityInv'
  OBVIOUS
<1>. USE BetaAssumption DEF registry, accountVars, taskVars, Goto
<1>. DEFINE Quiet == /\ placed \subseteq placed'
                     /\ Seated' \ placed' \subseteq Seated \ placed
                     /\ \A r \in Requests : pc'[r] = "invite" =>
                           \/ pc[r] = "invite" /\ fresh'[r] \subseteq fresh[r]
                           \/ fresh'[r] = {}
<1>0. Quiet => CapacityInv'
  BY NoNewPlace
<1>1. ASSUME AddAccount
      PROVE  CapacityInv'
  <2>1. Quiet
    BY <1>1 DEF AddAccount, TypeOK, Seated
  <2>. QED  BY <2>1, <1>0
<1>2. ASSUME NEW a \in Accounts, VerifyEmail(a)
      PROVE  CapacityInv'
  <2>1. Quiet
    BY <1>2 DEF VerifyEmail, TypeOK, Seated
  <2>. QED  BY <2>1, <1>0
<1>3. ASSUME NEW a \in Accounts, NEW e \in Emails, StageEmail(a, e)
      PROVE  CapacityInv'
  <2>1. Quiet
    BY <1>3 DEF StageEmail, TypeOK, Seated
  <2>. QED  BY <2>1, <1>0
<1>4. ASSUME NEW r \in Requests, NEW batch \in SUBSET Emails, Invite(r, batch)
      PROVE  CapacityInv'
  <2>1. Quiet
    BY <1>4 DEF Invite, TakeLock, TypeOK, Seated, RegistryInv
  <2>. QED  BY <2>1, <1>0
<1>5. ASSUME NEW r \in Requests, NEW e \in Emails, Reserve(r, e)
      PROVE  CapacityInv'
  <2>1. /\ UNCHANGED <<seat, placed, pc>> /\ Seated' = Seated /\ pc[r] = "invite"
        /\ \A q \in Requests : q # r => fresh'[q] = fresh[q]
    BY <1>5 DEF Reserve, TypeOK, Seated
  <2>2. Occupied \subseteq Taken /\ snap[r] \subseteq Taken
    BY DEF RegistryInv
  <2>3. Cardinality((Seated \cup fresh'[r]) \ placed) <= Limit
    <3>1. CASE fresh'[r] = fresh[r]
      BY <2>1, <3>1 DEF CapacityInv
    <3>2. CASE fresh'[r] = fresh[r] \cup {e} /\ e \in Occupied
      <4>1. (Seated \cup fresh'[r]) \ placed = (Seated \cup fresh[r]) \ placed
        BY <2>2, <3>2 DEF Taken
      <4>. QED  BY <2>1, <4>1 DEF CapacityInv
    <3>3. CASE fresh'[r] = fresh[r] \cup {e} /\ Cardinality(SeenKeys(r)) < Limit
      <4>1. (Seated \cup fresh'[r]) \ placed \subseteq SeenKeys(r) \cup {e}
        BY <3>3 DEF SeenKeys, SeenSeats
      <4>2. SeenKeys(r) \subseteq Emails
        BY DEF SeenKeys, SeenSeats, Seated, Occupied, Live, TypeOK
      <4>. QED  BY <3>3, <4>1, <4>2, OneMore
    <3>. QED  BY <1>5, <3>1, <3>2, <3>3 DEF Reserve, TypeOK
  <2>. QED  BY <2>1, <2>3 DEF CapacityInv
<1>6. ASSUME NEW r \in Requests, InviteCommit(r)
      PROVE  CapacityInv'
  <2>1. Seated' \subseteq Seated \cup snap[r] \cup fresh[r]
    BY <1>6 DEF InviteCommit, SnapSeat, Seated, TypeOK
  <2>2. pc[r] = "invite" /\ placed' = placed /\ snap[r] \subseteq Taken
    BY <1>6 DEF InviteCommit, RegistryInv
  <2>3. Seated' \ placed' \subseteq (Seated \cup fresh[r]) \ placed
    BY <2>1, <2>2 DEF Taken
  <2>4. (Seated \cup fresh[r]) \ placed \subseteq Emails
    BY DEF Seated, TypeOK
  <2>5. Cardinality(Seated' \ placed') <= Limit
    BY <2>2, <2>3, <2>4, Smaller DEF CapacityInv
  <2>6. \A q \in Requests : pc'[q] # "invite"
    <3>1. \A q \in Requests : q # r => pc[q] # "invite"
      BY <2>2 DEF TypeOK, Locked
    <3>. QED  BY <1>6, <3>1 DEF InviteCommit, Finish, TypeOK
  <2>. QED  BY <2>5, <2>6 DEF CapacityInv
<1>7. ASSUME NEW r \in Requests, NEW e \in Emails, CheckAdmission(r, e)
      PROVE  CapacityInv'
  <2>1. Quiet
    BY <1>7 DEF CheckAdmission, TypeOK, Seated
  <2>. QED  BY <2>1, <1>0
<1>8. ASSUME NEW r \in Requests, ClaimLock(r)
      PROVE  CapacityInv'
  <2>1. Quiet
    BY <1>8 DEF ClaimLock, TakeLock, TypeOK, Seated
  <2>. QED  BY <2>1, <1>0
<1>9. ASSUME NEW r \in Requests, ClaimCheck(r)
      PROVE  CapacityInv'
  <2>1. Quiet
    BY <1>9 DEF ClaimCheck, TypeOK, Seated
  <2>. QED  BY <2>1, <1>0
<1>10. ASSUME NEW r \in Requests, ClaimCommit(r)
      PROVE  CapacityInv'
  <2>1. target[r] \subseteq Seated /\ snap[r] \subseteq Taken
    BY <1>10 DEF ClaimCommit, RegistryInv
  <2>2. Seated' \subseteq Seated \cup snap[r]
    BY <1>10, <2>1, ClaimEffect DEF SnapSeat, Seated, TypeOK
  <2>3. placed' = placed
    BY <1>10 DEF ClaimCommit
  <2>4. \A q \in Requests : pc'[q] = "invite" => pc[q] = "invite" /\ fresh'[q] \subseteq fresh[q]
    BY <1>10 DEF ClaimCommit, Finish, TypeOK
  <2>. QED  BY <1>0, <2>1, <2>2, <2>3, <2>4 DEF Taken
<1>11. ASSUME NEW r \in Requests, NEW a \in Accounts, DeleteStart(r, a)
      PROVE  CapacityInv'
  <2>1. Quiet
    BY <1>11 DEF DeleteStart, TypeOK, Seated
  <2>. QED  BY <2>1, <1>0
<1>12. ASSUME NEW r \in Requests, DeleteSeated(r)
      PROVE  CapacityInv'
  <2>3. target[r] \subseteq Taken /\ subject[r] # None
    BY <1>12 DEF DeleteSeated, RegistryInv, Accounts
  <2>1. OwnSeats(r) \subseteq Taken
    BY <2>3 DEF RegistryInv, OwnSeats, Taken
  <2>2. Seated' \subseteq Seated \cup OwnSeats(r) /\ placed' = placed
    BY <1>12 DEF DeleteSeated, Seated, TypeOK, Remove
  <2>4. \A q \in Requests : pc'[q] = "invite" => pc[q] = "invite" /\ fresh'[q] \subseteq fresh[q]
    BY <1>12 DEF DeleteSeated, Finish, TypeOK
  <2>. QED  BY <1>0, <2>1, <2>2, <2>4 DEF Taken
<1>13. ASSUME NEW r \in Requests, DeleteSeen(r)
      PROVE  CapacityInv'
  <2>1. Quiet
    BY <1>13 DEF DeleteSeen, TypeOK, Seated
  <2>. QED  BY <2>1, <1>0
<1>14. ASSUME NEW r \in Requests, DeleteUnseated(r)
      PROVE  CapacityInv'
  <2>1. Quiet
    BY <1>14 DEF DeleteUnseated, Remove, Finish, TypeOK, Seated
  <2>. QED  BY <2>1, <1>0
<1>15. ASSUME NEW r \in Requests, Abort(r)
      PROVE  CapacityInv'
  <2>1. Quiet
    BY <1>15 DEF Abort, Finish, TypeOK, Seated
  <2>. QED  BY <2>1, <1>0
<1>16. CASE UNCHANGED vars
  <2>1. Quiet
    BY <1>16 DEF vars, TypeOK, Seated
  <2>. QED  BY <2>1, <1>0
<1>. QED
  BY <1>1, <1>2, <1>3, <1>4, <1>5, <1>6, <1>7, <1>8, <1>9, <1>10, <1>11, <1>12, <1>13, <1>14, <1>15, <1>16 DEF Next, InviteStep, SignUpStep, DeleteStep

\* Seats and accounts fit the limit, but for addresses staff and owners chose.
THEOREM CapacityKeptHolds == Spec => []CapacityKept
<1>1. Init => CapacityInv
  <2>1. Init => Seated \ placed = {} /\ \A r \in Requests : pc[r] # "invite"
    BY DEF Init, Seated
  <2>. QED  BY <2>1, FS_EmptySet, BetaAssumption DEF CapacityInv
<1>2. RegistryInv /\ CapacityInv => CapacityKept
  <2>1. RegistryInv => Keys \ placed = Seated \ placed
    BY DEF RegistryInv, Keys, Taken
  <2>. QED  BY <2>1 DEF CapacityInv, CapacityKept
<1>. QED  BY <1>1, <1>2, CapacityStep, RegistryHolds, PTL DEF Spec
=============================================================================
