-------------------------- MODULE GmailSync_proofs --------------------------
(***************************************************************************)
(* Proofs about GmailSync, for any number of workers, messages, consents    *)
(* and faults: it implements Mailbox, so no mail is forgotten behind the    *)
(* cursor; a message is logged once; no live token is cleared.              *)
(***************************************************************************)
EXTENDS GmailSync, WellFoundedInduction, TLAPS

-----------------------------------------------------------------------------
(* Choices.                                                                *)

\* A set of numbers that is not empty has a least one.
LEMMA LeastExists ==
    ASSUME NEW S, S \subseteq Nat, S # {}
    PROVE  \E n \in S : \A k \in S : n <= k
<1>. DEFINE Less == OpToRel(<, Nat)
<1>1. \E n \in S : \A k \in S : ~ (<<k, n>> \in Less)
  <2>. HIDE DEF Less
  <2>. QED  BY NatLessThanWellFounded, WFMin DEF Less
<1>2. \A k, n \in Nat : k < n => <<k, n>> \in Less
  BY DEF OpToRel
<1>. QED
  <2>. HIDE DEF Less
  <2>1. PICK n \in S : \A k \in S : ~ (<<k, n>> \in Less)
    BY <1>1
  <2>2. \A k \in S : ~ (k < n)
    BY <1>2, <2>1
  <2>. QED  BY <2>2

\* The finding a worker takes up next is one it has to do.
LEMMA FirstIsDue ==
    ASSUME NEW w \in Workers, work[w].todo \subseteq Messages, work[w].todo # {}
    PROVE  First(w) \in work[w].todo
<1>1. work[w].todo \subseteq Nat
  BY DEF Messages
<1>2. \E m \in work[w].todo : \A n \in work[w].todo : m <= n
  BY <1>1, LeastExists
<1>. QED  BY <1>2 DEF First

\* The window opens at a message logged, less the overlap.
LEMMA WindowOpens ==
    /\ WindowStart \in Int
    /\ Seen # {} => WindowStart + Overlap \in Seen
<1>1. CASE Seen = {}
  BY <1>1 DEF WindowStart
<1>2. CASE Seen # {}
  <2>. DEFINE Ages == {MaxMail - n : n \in Seen}
  <2>2. Ages \subseteq Nat /\ Ages # {}
    BY <1>2, SyncAssumption DEF Seen, Messages
  <2>3. PICK a \in Ages : \A b \in Ages : a <= b
    <3>. HIDE DEF Ages
    <3>. QED  BY <2>2, LeastExists
  <2>4. PICK n \in Seen : a = MaxMail - n
    BY <2>3
  <2>5. \A k \in Seen : MaxMail - k \in Ages
    OBVIOUS
  <2>6. \A k \in Seen : k <= n
    <3>1. \A k \in Seen : a <= MaxMail - k
      <4>. HIDE DEF Ages
      <4>. QED  BY <2>3, <2>5
    <3>2. \A k \in Seen : k \in Nat
      BY DEF Seen, Messages
    <3>. QED  BY <2>4, <3>1, <3>2, SyncAssumption
  <2>7. /\ n - Overlap \in -Overlap..MaxMail
        /\ (n - Overlap) + Overlap = n
    BY <2>4, SyncAssumption DEF Seen, Messages
  <2>8. \E d \in -Overlap..MaxMail : d + Overlap \in Seen /\ \A k \in Seen : k <= d + Overlap
    BY <2>4, <2>6, <2>7
  <2>9. WindowStart \in -Overlap..MaxMail /\ WindowStart + Overlap \in Seen
    BY <1>2, <2>8 DEF WindowStart
  <2>. QED  BY <2>9, SyncAssumption
<1>. QED  BY <1>1, <1>2

\* A message before the window is older than one that was logged.
LEMMA WindowHasTouch ==
    ASSUME NEW m \in Messages, m < WindowStart
    PROVE  \E n \in Seen : m < n
<1>1. Seen # {}
  BY DEF WindowStart, Messages
<1>. QED  BY <1>1, WindowOpens, SyncAssumption DEF Messages

-----------------------------------------------------------------------------
(* Types.                                                                  *)

\* TypeOK in four parts.
RowOK == row \in RowSet
Counts ==
    /\ arrived \in 0..MaxMail /\ grants \in 0..MaxGrants /\ ids \in Ids /\ faults \in 0..MaxFaults
    /\ honoured \subseteq Grants /\ passed \subseteq Messages
    /\ logged \in [Messages -> Nat]
    /\ consent \in ConsentSet
    /\ parting \in PartingSet
    /\ ids <= grants /\ (consent.at = "read" => ids < grants)
Working == work \in [Workers -> WorkSet]
Locking ==
    /\ locks = {<<work[w].id, w>> : w \in Holders}
    /\ \A v, w \in Holders : work[v].id = work[w].id => v = w

\* TypeOK is those four.
LEMMA TypeParts == TypeOK <=> RowOK /\ Counts /\ Working /\ Locking
BY DEF TypeOK, RowOK, Counts, Working, Locking

\* A worker that goes on keeps its lock, if it has one.
LEMMA GoesOn ==
    ASSUME TypeOK, NEW w \in Workers, NEW at, NEW todo, NEW head,
           Set(w, With(w, at, todo, head)), locks' = locks,
           at \in Held \cup {"idle", "sync", "backfill"},
           at \in Held <=> work[w].at \in Held,
           todo \subseteq Messages, head \in 0..MaxMail
    PROVE  Working' /\ Locking'
<1>1. With(w, at, todo, head) \in WorkSet
  BY DEF With, WorkSet, TypeOK
<1>2. Working'
  BY <1>1 DEF Working, Set, TypeOK
<1>3. \A v \in Workers : work'[v].id = work[v].id /\ (work'[v].at \in Held <=> work[v].at \in Held)
  BY DEF Set, With, TypeOK
<1>4. Holders' = Holders
  BY <1>3 DEF Holders
<1>5. {<<work'[v].id, v>> : v \in Holders} = {<<work[v].id, v>> : v \in Holders}
  BY <1>3 DEF Holders
<1>. QED  BY <1>2, <1>3, <1>4, <1>5 DEF Locking, TypeOK, Holders

\* A worker that ends gives its lock back.
LEMMA Leaves ==
    ASSUME TypeOK, NEW w \in Workers, Leave(w)
    PROVE  Working' /\ Locking'
<1>1. Idle \in WorkSet
  BY SyncAssumption DEF Idle, WorkSet, Ids
<1>2. Working'
  BY <1>1 DEF Working, Leave, Set, TypeOK
<1>3. /\ work'[w].at = "idle"
      /\ \A v \in Workers : v # w => work'[v] = work[v]
  BY DEF Leave, Set, Idle, TypeOK
<1>4. Holders' = Holders \ {w}
  BY <1>3 DEF Holders, Held
<1>5. locks' = {<<work[v].id, v>> : v \in Holders \ {w}}
  BY DEF Leave, TypeOK
<1>6. {<<work'[v].id, v>> : v \in Holders \ {w}} = {<<work[v].id, v>> : v \in Holders \ {w}}
  BY <1>3 DEF Holders
<1>. QED  BY <1>2, <1>3, <1>4, <1>5, <1>6 DEF Locking, TypeOK, Holders

\* A worker outside the lock stays outside.
LEMMA StaysOut ==
    ASSUME TypeOK, NEW w \in Workers, work[w].at \notin Held, NEW r \in WorkSet, r.at \notin Held,
           Set(w, r), locks' = locks
    PROVE  Working' /\ Locking'
<1>1. Working'
  BY DEF Working, Set, TypeOK
<1>2. Holders' = Holders /\ \A v \in Holders : work'[v] = work[v]
  BY DEF Holders, Set, TypeOK
<1>3. {<<work'[v].id, v>> : v \in Holders} = {<<work[v].id, v>> : v \in Holders}
  BY <1>2
<1>. QED  BY <1>1, <1>2, <1>3 DEF Locking, TypeOK

\* Taking a free lock.
LEMMA Enters ==
    ASSUME TypeOK, NEW w \in Workers, TryLock(w)
    PROVE  Working' /\ Locking'
<1>. DEFINE at == IF work[w].at = "sync" THEN "list" ELSE "begin"
<1>1. /\ work[w].at \in {"sync", "backfill"} /\ Free(w)
      /\ locks' = locks \cup {<<work[w].id, w>>}
      /\ work' = [work EXCEPT ![w] = With(w, at, work[w].todo, work[w].head)]
  BY DEF TryLock, Goto, Set
<1>2. With(w, at, work[w].todo, work[w].head) \in WorkSet
  BY DEF With, WorkSet, TypeOK, Held
<1>3. Working'
  BY <1>1, <1>2 DEF Working, TypeOK
<1>4. /\ \A v \in Workers : work'[v].id = work[v].id /\ (v # w => work'[v] = work[v])
      /\ work'[w].at \in Held /\ work[w].at \notin Held
  BY <1>1 DEF With, TypeOK, Held
<1>5. Holders' = Holders \cup {w} /\ w \notin Holders
  BY <1>4 DEF Holders
<1>6. {<<work'[v].id, v>> : v \in Holders \cup {w}}
        = {<<work[v].id, v>> : v \in Holders} \cup {<<work[w].id, w>>}
  BY <1>4 DEF Holders
<1>7. \A v \in Holders : work[v].id # work[w].id
  <2>1. \A v \in Holders : <<work[v].id, v>> \in locks
    BY DEF TypeOK
  <2>2. \A l \in locks : l[1] # work[w].id
    BY <1>1 DEF Free
  <2>. QED  BY <2>1, <2>2
<1>. QED  BY <1>1, <1>3, <1>4, <1>5, <1>6, <1>7 DEF Locking, TypeOK, Holders

\* Every step keeps the types and the locks.
LEMMA TypeStep == TypeOK /\ [Next]_vars => TypeOK'
<1>. SUFFICES ASSUME TypeOK, [Next]_vars
              PROVE  TypeOK'
  OBVIOUS
<1>. USE SyncAssumption DEF outside
<1>0. RowOK /\ Counts /\ Working /\ Locking /\ Messages \subseteq Nat
  BY TypeParts DEF Messages
<1>1. ASSUME Arrive
      PROVE  TypeOK'
  <2>1. RowOK'
    BY <1>1, <1>0 DEF Arrive, RowOK
  <2>2. Counts'
    BY <1>1, <1>0 DEF Arrive, Counts
  <2>3. Working' /\ Locking'
    BY <1>1, <1>0 DEF Arrive, Working, Locking, Holders
  <2>. QED  BY <2>1, <2>2, <2>3 DEF TypeOK, RowOK, Counts, Working, Locking
<1>2. ASSUME GoStale
      PROVE  TypeOK'
  <2>1. RowOK'
    BY <1>2, <1>0 DEF GoStale, RowOK, RowSet
  <2>2. Counts'
    BY <1>2, <1>0 DEF GoStale, Counts
  <2>3. Working' /\ Locking'
    BY <1>2, <1>0 DEF GoStale, Working, Locking, Holders
  <2>. QED  BY <2>1, <2>2, <2>3 DEF TypeOK, RowOK, Counts, Working, Locking
<1>3. ASSUME GiveConsent
      PROVE  TypeOK'
  <2>1. RowOK'
    BY <1>3, <1>0 DEF GiveConsent, RowOK
  <2>2. Counts'
    <3>1. consent' \in ConsentSet
      <4>1. (row.id # 0 /\ row.backfill = "done") \in BOOLEAN
        OBVIOUS
      <4>2. grants' \in 0..MaxGrants /\ arrived \in 0..MaxMail
        BY <1>3, <1>0 DEF GiveConsent, Counts
      <4>. QED  BY <1>3, <4>1, <4>2 DEF GiveConsent, ConsentSet
    <3>2. grants' \in 1..MaxGrants /\ ids < grants' /\ honoured' \subseteq Grants
      BY <1>3, <1>0 DEF GiveConsent, Counts, Grants, Ids
    <3>3. /\ consent'.at = "read" /\ grants' \in Nat /\ ids <= grants'
          /\ UNCHANGED <<arrived, ids, faults, passed, logged, parting>>
      BY <1>3, <1>0, <3>2 DEF GiveConsent, Counts, Ids
    <3>. QED  BY <1>0, <3>1, <3>2, <3>3 DEF Counts
  <2>3. Working' /\ Locking'
    BY <1>3, <1>0 DEF GiveConsent, Working, Locking, Holders
  <2>. QED  BY <2>1, <2>2, <2>3 DEF TypeOK, RowOK, Counts, Working, Locking
<1>4. ASSUME StoreConnection
      PROVE  TypeOK'
  <2>1. RowOK'
    <3>1. ids' \in Ids /\ row.id \in Ids
      BY <1>4, <1>0 DEF StoreConnection, Counts, Ids, RowOK, RowSet
    <3>2. consent.grant \in 0..MaxGrants /\ consent.head \in 0..MaxMail
      BY <1>0 DEF Counts, ConsentSet
    <3>. QED  BY <1>4, <3>1, <3>2 DEF StoreConnection, RowOK, RowSet
  <2>2. Counts'
    <3>4. Unseen(consent.head) \subseteq Messages /\ passed \subseteq Messages
      BY <1>0 DEF Counts, ConsentSet, Unseen, Messages
    <3>1. passed' \subseteq Messages
      BY <1>4, <3>4 DEF StoreConnection
    <3>2. ids' \in Ids /\ ids' <= grants
      BY <1>4, <1>0 DEF StoreConnection, Counts, Ids
    <3>3. NoConsent \in ConsentSet /\ NoConsent.at = "idle"
      BY DEF NoConsent, ConsentSet
    <3>. QED  BY <1>4, <1>0, <3>1, <3>2, <3>3 DEF StoreConnection, Counts
  <2>3. Working' /\ Locking'
    BY <1>4, <1>0 DEF StoreConnection, Working, Locking, Holders
  <2>. QED  BY <2>1, <2>2, <2>3 DEF TypeOK, RowOK, Counts, Working, Locking
<1>5. ASSUME NEW s \in {"gmail", "calendar"}, StartParting(s)
      PROVE  TypeOK'
  <2>1. RowOK'
    BY <1>5, <1>0 DEF StartParting, RowOK
  <2>2. Counts'
    BY <1>5, <1>0 DEF StartParting, Counts, PartingSet, RowOK, RowSet
  <2>3. Working' /\ Locking'
    BY <1>5, <1>0 DEF StartParting, Working, Locking, Holders
  <2>. QED  BY <2>1, <2>2, <2>3 DEF TypeOK, RowOK, Counts, Working, Locking
<1>6. ASSUME Revoke
      PROVE  TypeOK'
  <2>1. RowOK'
    BY <1>6, <1>0 DEF Revoke, RowOK
  <2>2. Counts'
    BY <1>6, <1>0 DEF Revoke, Counts, PartingSet
  <2>3. Working' /\ Locking'
    BY <1>6, <1>0 DEF Revoke, Working, Locking, Holders
  <2>. QED  BY <2>1, <2>2, <2>3 DEF TypeOK, RowOK, Counts, Working, Locking
<1>7. ASSUME Unconfirmed
      PROVE  TypeOK'
  <2>1. RowOK'
    BY <1>7, <1>0 DEF Unconfirmed, RowOK
  <2>2. Counts'
    BY <1>7, <1>0 DEF Unconfirmed, Counts, PartingSet, NoParting, Ids
  <2>3. Working' /\ Locking'
    BY <1>7, <1>0 DEF Unconfirmed, Working, Locking, Holders
  <2>. QED  BY <2>1, <2>2, <2>3 DEF TypeOK, RowOK, Counts, Working, Locking
<1>8. ASSUME DeleteRow
      PROVE  TypeOK'
  <2>1. RowOK'
    BY <1>8, <1>0 DEF DeleteRow, RowOK, RowSet, NoRow, Ids
  <2>2. Counts'
    BY <1>8, <1>0 DEF DeleteRow, Counts, PartingSet, NoParting, Ids
  <2>3. Working' /\ Locking'
    BY <1>8, <1>0 DEF DeleteRow, Working, Locking, Holders
  <2>. QED  BY <2>1, <2>2, <2>3 DEF TypeOK, RowOK, Counts, Working, Locking
<1>9. ASSUME ClearSibling
      PROVE  TypeOK'
  <2>1. RowOK'
    BY <1>9, <1>0 DEF ClearSibling, RowOK, RowSet
  <2>2. Counts'
    BY <1>9, <1>0 DEF ClearSibling, Counts, PartingSet, NoParting, Ids
  <2>3. Working' /\ Locking'
    BY <1>9, <1>0 DEF ClearSibling, Working, Locking, Holders
  <2>. QED  BY <2>1, <2>2, <2>3 DEF TypeOK, RowOK, Counts, Working, Locking
<1>10. ASSUME NEW w \in Workers, NEW job \in {"sync", "backfill"}, Load(w, job)
      PROVE  TypeOK'
  <2>1. RowOK'
    BY <1>10, <1>0 DEF Load, RowOK
  <2>2. Counts'
    BY <1>10, <1>0 DEF Load, Counts
  <2>3. Working' /\ Locking'
    <3>1. [at |-> job, id |-> row.id, grant |-> row.grant,
           cursor |-> IF job = "sync" THEN row.cursor ELSE 0, todo |-> {}, head |-> 0] \in WorkSet
      BY <1>0 DEF RowOK, RowSet, WorkSet
    <3>. QED  BY <1>10, <3>1, StaysOut DEF Load, Held
  <2>. QED  BY <2>1, <2>2, <2>3 DEF TypeOK, RowOK, Counts, Working, Locking
<1>11. ASSUME NEW w \in Workers, TryLock(w)
      PROVE  TypeOK'
  <2>1. RowOK'
    BY <1>11, <1>0 DEF TryLock, RowOK
  <2>2. Counts'
    BY <1>11, <1>0 DEF TryLock, Counts
  <2>3. Working' /\ Locking'
    BY <1>11, <1>0, Enters
  <2>. QED  BY <2>1, <2>2, <2>3 DEF TypeOK, RowOK, Counts, Working, Locking
<1>12. ASSUME NEW w \in Workers, Skip(w)
      PROVE  TypeOK'
  <2>1. RowOK'
    BY <1>12, <1>0 DEF Skip, RowOK
  <2>2. Counts'
    BY <1>12, <1>0 DEF Skip, Counts
  <2>3. Working' /\ Locking'
    <3>1. Idle \in WorkSet /\ Idle.at \notin Held
      BY DEF Idle, WorkSet, Ids, Held
    <3>. QED  BY <1>12, <3>1, StaysOut DEF Skip, Held
  <2>. QED  BY <2>1, <2>2, <2>3 DEF TypeOK, RowOK, Counts, Working, Locking
<1>13. ASSUME NEW w \in Workers, Crash(w)
      PROVE  TypeOK'
  <2>1. RowOK'
    BY <1>13, <1>0 DEF Crash, RowOK
  <2>2. Counts'
    BY <1>13, <1>0 DEF Crash, Counts
  <2>3. Working' /\ Locking'
    BY <1>13, <1>0, Leaves DEF Crash
  <2>. QED  BY <2>1, <2>2, <2>3 DEF TypeOK, RowOK, Counts, Working, Locking
<1>14. ASSUME NEW w \in Workers, Defer(w)
      PROVE  TypeOK'
  <2>1. RowOK'
    BY <1>14, <1>0 DEF Defer, RowOK
  <2>2. Counts'
    BY <1>14, <1>0 DEF Defer, Counts
  <2>3. Working' /\ Locking'
    BY <1>14, <1>0, Leaves DEF Defer
  <2>. QED  BY <2>1, <2>2, <2>3 DEF TypeOK, RowOK, Counts, Working, Locking
<1>15. ASSUME NEW w \in Workers, Refused(w)
      PROVE  TypeOK'
  <2>1. RowOK'
    BY <1>15, <1>0 DEF Refused, RowOK, RowSet
  <2>2. Counts'
    BY <1>15, <1>0 DEF Refused, Counts
  <2>3. Working' /\ Locking'
    BY <1>15, <1>0, Leaves DEF Refused
  <2>. QED  BY <2>1, <2>2, <2>3 DEF TypeOK, RowOK, Counts, Working, Locking
<1>16. ASSUME NEW w \in Workers, List(w)
      PROVE  TypeOK'
  <2>1. RowOK'
    BY <1>16, <1>0 DEF List, RowOK
  <2>2. Counts'
    BY <1>16, <1>0 DEF List, Counts
  <2>3. Working' /\ Locking'
    <3>1. (work[w].cursor + 1)..arrived \subseteq Messages
      BY <1>0 DEF Working, WorkSet, Counts, Messages
    <3>. QED  BY <1>16, <1>0, <3>1, GoesOn DEF List, Held, Counts
  <2>. QED  BY <2>1, <2>2, <2>3 DEF TypeOK, RowOK, Counts, Working, Locking
<1>17. ASSUME NEW w \in Workers, Expired(w)
      PROVE  TypeOK'
  <2>1. RowOK'
    BY <1>17, <1>0 DEF Expired, RowOK
  <2>2. Counts'
    BY <1>17, <1>0 DEF Expired, Counts
  <2>3. Working' /\ Locking'
    BY <1>17, <1>0, GoesOn DEF Expired, Held, Counts
  <2>. QED  BY <2>1, <2>2, <2>3 DEF TypeOK, RowOK, Counts, Working, Locking
<1>18. ASSUME NEW w \in Workers, Reanchor(w)
      PROVE  TypeOK'
  <2>1. RowOK'
    BY <1>18, <1>0 DEF Reanchor, RowOK, RowSet, Requeued, Working, WorkSet
  <2>2. Counts'
    BY <1>18, <1>0 DEF Reanchor, Counts
  <2>3. Working' /\ Locking'
    BY <1>18, <1>0, Leaves DEF Reanchor
  <2>. QED  BY <2>1, <2>2, <2>3 DEF TypeOK, RowOK, Counts, Working, Locking
<1>19. ASSUME NEW w \in Workers, CheckOwned(w)
      PROVE  TypeOK'
  <2>1. RowOK'
    BY <1>19, <1>0 DEF CheckOwned, RowOK
  <2>2. Counts'
    BY <1>19, <1>0 DEF CheckOwned, Counts
  <2>3. Working' /\ Locking'
    <3>1. work[w].todo \subseteq Messages /\ work[w].head \in 0..MaxMail
      BY <1>0 DEF Working, WorkSet
    <3>. QED  BY <1>19, <3>1, GoesOn, Leaves DEF CheckOwned, Goto, Held
  <2>. QED  BY <2>1, <2>2, <2>3 DEF TypeOK, RowOK, Counts, Working, Locking
<1>20. ASSUME NEW w \in Workers, Checkpoint(w)
      PROVE  TypeOK'
  <2>1. RowOK'
    BY <1>20, <1>0 DEF Checkpoint, RowOK, RowSet, Working, WorkSet
  <2>2. Counts'
    BY <1>20, <1>0 DEF Checkpoint, Counts
  <2>3. Working' /\ Locking'
    BY <1>20, <1>0, Leaves DEF Checkpoint
  <2>. QED  BY <2>1, <2>2, <2>3 DEF TypeOK, RowOK, Counts, Working, Locking
<1>21. ASSUME NEW w \in Workers, AskLogged(w)
      PROVE  TypeOK'
  <2>1. RowOK'
    BY <1>21, <1>0 DEF AskLogged, RowOK
  <2>2. Counts'
    BY <1>21, <1>0 DEF AskLogged, Counts
  <2>3. Working' /\ Locking'
    <3>1. work[w].todo \subseteq Messages /\ work[w].head \in 0..MaxMail
      BY <1>0 DEF Working, WorkSet
    <3>2. CASE Known(First(w))
      BY <1>21, <3>1, <3>2, GoesOn DEF AskLogged, Held, Applying
    <3>3. CASE ~ Known(First(w))
      BY <1>21, <3>1, <3>3, GoesOn DEF AskLogged, Held, Applying, Logging
    <3>. QED  BY <3>2, <3>3
  <2>. QED  BY <2>1, <2>2, <2>3 DEF TypeOK, RowOK, Counts, Working, Locking
<1>22. ASSUME NEW w \in Workers, LogTouch(w)
      PROVE  TypeOK'
  <2>1. RowOK'
    BY <1>22, <1>0 DEF LogTouch, RowOK
  <2>2. Counts'
    <3>1. logged' = [logged EXCEPT ![First(w)] = logged[First(w)] + 1]
      BY <1>22 DEF LogTouch
    <3>2. ASSUME NEW x PROVE [logged EXCEPT ![x] = logged[x] + 1] \in [Messages -> Nat]
      <4>1. CASE x \in Messages
        <5>1. logged \in [Messages -> Nat] /\ logged[x] + 1 \in Nat
          BY <1>0, <4>1 DEF Counts
        <5>. QED  BY <5>1
      <4>2. CASE x \notin Messages
        BY <1>0, <4>2 DEF Counts
      <4>. QED  BY <4>1, <4>2
    <3>. QED  BY <1>22, <3>1, <3>2, <1>0 DEF LogTouch, Counts
  <2>3. Working' /\ Locking'
    <3>1. work[w].todo \subseteq Messages /\ work[w].head \in 0..MaxMail
      BY <1>0 DEF Working, WorkSet
    <3>. QED  BY <1>22, <3>1, GoesOn DEF LogTouch, Held, Next1
  <2>. QED  BY <2>1, <2>2, <2>3 DEF TypeOK, RowOK, Counts, Working, Locking
<1>23. ASSUME NEW w \in Workers, BeginBackfill(w)
      PROVE  TypeOK'
  <2>1. RowOK'
    BY <1>23, <1>0 DEF BeginBackfill, RowOK, RowSet
  <2>2. Counts'
    BY <1>23, <1>0 DEF BeginBackfill, Counts
  <2>3. Working' /\ Locking'
    <3>1. work[w].todo \subseteq Messages /\ work[w].head \in 0..MaxMail
      BY <1>0 DEF Working, WorkSet
    <3>. QED  BY <1>23, <3>1, GoesOn, Leaves DEF BeginBackfill, Goto, Held
  <2>. QED  BY <2>1, <2>2, <2>3 DEF TypeOK, RowOK, Counts, Working, Locking
<1>24. ASSUME NEW w \in Workers, Search(w)
      PROVE  TypeOK'
  <2>1. RowOK'
    BY <1>24, <1>0 DEF Search, RowOK
  <2>2. Counts'
    <3>1. Unseen(arrived) \subseteq Messages
      BY <1>0 DEF Counts, Unseen, Messages
    <3>2. passed' \subseteq Messages
      BY <1>24, <1>0, <3>1 DEF Search, Counts
    <3>. QED  BY <1>24, <1>0, <3>2 DEF Search, Counts
  <2>3. Working' /\ Locking'
    <3>1. work[w].todo \subseteq Messages /\ work[w].head \in 0..MaxMail
      BY <1>0 DEF Working, WorkSet
    <3>2. {m \in 1..arrived : m >= WindowStart} \subseteq Messages
      BY <1>0 DEF Counts, Messages
    <3>. QED  BY <1>24, <3>1, <3>2, GoesOn DEF Search, Held
  <2>. QED  BY <2>1, <2>2, <2>3 DEF TypeOK, RowOK, Counts, Working, Locking
<1>25. ASSUME NEW w \in Workers, FinishBackfill(w)
      PROVE  TypeOK'
  <2>1. RowOK'
    BY <1>25, <1>0 DEF FinishBackfill, RowOK, RowSet
  <2>2. Counts'
    BY <1>25, <1>0 DEF FinishBackfill, Counts, Unseen, Messages, RowOK, RowSet
  <2>3. Working' /\ Locking'
    BY <1>25, <1>0, Leaves DEF FinishBackfill
  <2>. QED  BY <2>1, <2>2, <2>3 DEF TypeOK, RowOK, Counts, Working, Locking
<1>26. ASSUME NEW w \in Workers, FailBackfill(w)
      PROVE  TypeOK'
  <2>1. RowOK'
    BY <1>26, <1>0 DEF FailBackfill, RowOK, RowSet
  <2>2. Counts'
    BY <1>26, <1>0 DEF FailBackfill, Counts
  <2>3. Working' /\ Locking'
    BY <1>26, <1>0, Leaves DEF FailBackfill
  <2>. QED  BY <2>1, <2>2, <2>3 DEF TypeOK, RowOK, Counts, Working, Locking
<1>27. CASE UNCHANGED vars
  <2>1. RowOK'
    BY <1>27, <1>0 DEF vars, RowOK
  <2>2. Counts'
    BY <1>27, <1>0 DEF vars, Counts
  <2>3. Working' /\ Locking'
    BY <1>27, <1>0 DEF vars, Working, Locking, Holders
  <2>. QED  BY <2>1, <2>2, <2>3 DEF TypeOK, RowOK, Counts, Working, Locking
<1>. QED
  BY <1>1, <1>2, <1>3, <1>4, <1>5, <1>6, <1>7, <1>8, <1>9, <1>10, <1>11, <1>12,
     <1>13, <1>14, <1>15, <1>16, <1>17, <1>18, <1>19, <1>20, <1>21, <1>22, <1>23, <1>24,
     <1>25, <1>26, <1>27
     DEF Next, Sync, Backfill, Apply, Connection

\* Types of every variable, and one worker to a mailbox.
THEOREM TypeCorrect == Spec => []TypeOK
<1>1. Init => TypeOK
  BY SyncAssumption DEF Init, TypeOK, RowSet, NoRow, Ids, WorkSet, Idle, ConsentSet, NoConsent,
     PartingSet, NoParting, Holders, Held, Messages
<1>. QED  BY <1>1, TypeStep, PTL DEF Spec

-----------------------------------------------------------------------------
(* The invariant.                                                          *)

\* Nothing is known that has not arrived.
Arrived ==
    /\ row.cursor <= arrived /\ consent.head <= arrived
    /\ \A w \in Workers : work[w].head <= arrived /\ work[w].todo \subseteq 1..arrived

\* A consent under way is newer than every grant in use.
Given ==
    /\ row.grant <= grants /\ parting.grant <= grants /\ honoured \subseteq 1..grants
    /\ row.id # 0 => row.grant >= 1
    /\ row.status = "active" => row.id # 0
    /\ row.id <= ids
    /\ consent.at = "read" => consent.grant = grants /\ row.grant < grants
    /\ consent.sticky => grants > 1
    /\ parting.at = "clear" => parting.grant \notin honoured

\* What a worker loaded was in the row.
Loaded(w) ==
    /\ work[w].grant <= grants
    /\ consent.at = "read" => work[w].grant < grants
    /\ work[w].at # "idle" => work[w].id \in 1..ids /\ work[w].grant >= 1

\* What a sync has listed, or a pass has searched, is read or still to do.
Reading(w) ==
    /\ work[w].at \in {"fetched", "expired", "apply", "log"} => work[w].cursor <= work[w].head
    /\ work[w].at \in {"fetched", "apply", "log"} =>
         (work[w].cursor + 1)..work[w].head \subseteq Seen \cup work[w].todo
    /\ work[w].at \in {"replay", "relog"} /\ row.id = work[w].id /\ row.grant = work[w].grant =>
         1..row.cursor \subseteq Seen \cup passed \cup work[w].todo

\* A worker about to log asked under the lock of the only row there was.
Asked(w) ==
    work[w].at \in {"log", "relog"} =>
        work[w].todo # {} /\ (ids <= 1 => logged[First(w)] = 0)

SyncInv ==
    /\ TypeOK
    /\ Arrived /\ Given /\ \A w \in Workers : Loaded(w) /\ Reading(w) /\ Asked(w)
    /\ NoGap /\ LoggedOnce

\* What the invariant says of the types and of each worker.
LEMMA SyncParts ==
    ASSUME SyncInv
    PROVE  /\ TypeOK /\ RowOK /\ Counts /\ Working /\ Locking
           /\ Arrived /\ Given /\ \A w \in Workers : Loaded(w) /\ Reading(w) /\ Asked(w)
BY TypeParts DEF SyncInv

\* What moving on and ending do to the workers.
LEMMA Moves ==
    ASSUME Working, NEW w \in Workers, NEW at, NEW todo, NEW head,
           Set(w, With(w, at, todo, head))
    PROVE  /\ work'[w] = With(w, at, todo, head)
           /\ work'[w].at = at /\ work'[w].todo = todo /\ work'[w].head = head
           /\ work'[w].id = work[w].id /\ work'[w].grant = work[w].grant
           /\ work'[w].cursor = work[w].cursor
           /\ \A v \in Workers : v # w => work'[v] = work[v]
BY DEF Working, Set, With

\* A worker that ends is idle; the others do not move.
LEMMA Ends ==
    ASSUME Working, NEW w \in Workers, Leave(w)
    PROVE  work'[w] = Idle /\ \A v \in Workers : v # w => work'[v] = work[v]
BY DEF Working, Leave, Set

\* A worker ends, goes on with what it loaded, or loads the row.
KeepsWork(v) ==
    /\ work'[v].id = work[v].id /\ work'[v].grant = work[v].grant
    /\ work[v].at = "idle" => work'[v].at = "idle"
    /\ work'[v].todo \subseteq work[v].todo \cup 1..arrived
    /\ work'[v].head \in {work[v].head, arrived}
LoadsRow(v) ==
    /\ row.status = "active"
    /\ work'[v].id = row.id /\ work'[v].grant = row.grant
    /\ work'[v].todo = {} /\ work'[v].head = 0
    /\ consent' = consent /\ grants' = grants /\ ids' = ids

\* Whatever the step, a worker ends, goes on, or loads the row.
LEMMA WorkStep ==
    ASSUME TypeOK, Next, NEW v \in Workers
    PROVE  work'[v] = Idle \/ KeepsWork(v) \/ LoadsRow(v)
<1>. USE SyncAssumption DEF outside
<1>0. Working
  BY TypeParts
<1>1. ASSUME Arrive
      PROVE  work'[v] = Idle \/ KeepsWork(v) \/ LoadsRow(v)
  BY <1>1 DEF Arrive, KeepsWork
<1>2. ASSUME GoStale
      PROVE  work'[v] = Idle \/ KeepsWork(v) \/ LoadsRow(v)
  BY <1>2 DEF GoStale, KeepsWork
<1>3. ASSUME GiveConsent
      PROVE  work'[v] = Idle \/ KeepsWork(v) \/ LoadsRow(v)
  BY <1>3 DEF GiveConsent, KeepsWork
<1>4. ASSUME StoreConnection
      PROVE  work'[v] = Idle \/ KeepsWork(v) \/ LoadsRow(v)
  BY <1>4 DEF StoreConnection, KeepsWork
<1>5. ASSUME NEW s \in {"gmail", "calendar"}, StartParting(s)
      PROVE  work'[v] = Idle \/ KeepsWork(v) \/ LoadsRow(v)
  BY <1>5 DEF StartParting, KeepsWork
<1>6. ASSUME Revoke
      PROVE  work'[v] = Idle \/ KeepsWork(v) \/ LoadsRow(v)
  BY <1>6 DEF Revoke, KeepsWork
<1>7. ASSUME Unconfirmed
      PROVE  work'[v] = Idle \/ KeepsWork(v) \/ LoadsRow(v)
  BY <1>7 DEF Unconfirmed, KeepsWork
<1>8. ASSUME DeleteRow
      PROVE  work'[v] = Idle \/ KeepsWork(v) \/ LoadsRow(v)
  BY <1>8 DEF DeleteRow, KeepsWork
<1>9. ASSUME ClearSibling
      PROVE  work'[v] = Idle \/ KeepsWork(v) \/ LoadsRow(v)
  BY <1>9 DEF ClearSibling, KeepsWork
<1>10. ASSUME NEW w \in Workers, NEW job \in {"sync", "backfill"}, Load(w, job)
      PROVE  work'[v] = Idle \/ KeepsWork(v) \/ LoadsRow(v)
  BY <1>10, <1>0 DEF Load, Set, Working, KeepsWork, LoadsRow
<1>11. ASSUME NEW w \in Workers, TryLock(w)
      PROVE  work'[v] = Idle \/ KeepsWork(v) \/ LoadsRow(v)
  <2>1. KeepsWork(w) /\ \A u \in Workers : u # w => work'[u] = work[u]
    BY <1>11, <1>0, Moves DEF TryLock, KeepsWork, Goto, Applying
  <2>. QED  BY <2>1 DEF KeepsWork
<1>12. ASSUME NEW w \in Workers, Skip(w)
      PROVE  work'[v] = Idle \/ KeepsWork(v) \/ LoadsRow(v)
  BY <1>12, <1>0 DEF Skip, Set, Working, KeepsWork
<1>13. ASSUME NEW w \in Workers, Crash(w)
      PROVE  work'[v] = Idle \/ KeepsWork(v) \/ LoadsRow(v)
  <2>1. work'[w] = Idle /\ \A u \in Workers : u # w => work'[u] = work[u]
    BY <1>13, <1>0, Ends DEF Crash
  <2>. QED  BY <2>1 DEF KeepsWork
<1>14. ASSUME NEW w \in Workers, Defer(w)
      PROVE  work'[v] = Idle \/ KeepsWork(v) \/ LoadsRow(v)
  <2>1. work'[w] = Idle /\ \A u \in Workers : u # w => work'[u] = work[u]
    BY <1>14, <1>0, Ends DEF Defer
  <2>. QED  BY <2>1 DEF KeepsWork
<1>15. ASSUME NEW w \in Workers, Refused(w)
      PROVE  work'[v] = Idle \/ KeepsWork(v) \/ LoadsRow(v)
  <2>1. work'[w] = Idle /\ \A u \in Workers : u # w => work'[u] = work[u]
    BY <1>15, <1>0, Ends DEF Refused
  <2>. QED  BY <2>1 DEF KeepsWork
<1>16. ASSUME NEW w \in Workers, List(w)
      PROVE  work'[v] = Idle \/ KeepsWork(v) \/ LoadsRow(v)
  <2>. DEFINE todo == (work[w].cursor + 1)..arrived
  <2>1. todo \subseteq 1..arrived
    BY <1>0, TypeParts DEF Working, WorkSet, Counts
  <2>2. work[w].at # "idle" /\ Set(w, With(w, "fetched", todo, arrived))
    BY <1>16 DEF List
  <2>. HIDE DEF todo
  <2>3. /\ work'[w].id = work[w].id /\ work'[w].grant = work[w].grant
        /\ work'[w].todo = todo /\ work'[w].head = arrived
        /\ \A u \in Workers : u # w => work'[u] = work[u]
    BY <2>2, <1>0, Moves
  <2>. QED  BY <2>1, <2>2, <2>3 DEF KeepsWork
<1>17. ASSUME NEW w \in Workers, Expired(w)
      PROVE  work'[v] = Idle \/ KeepsWork(v) \/ LoadsRow(v)
  <2>1. KeepsWork(w) /\ \A u \in Workers : u # w => work'[u] = work[u]
    BY <1>17, <1>0, Moves DEF Expired, KeepsWork
  <2>. QED  BY <2>1 DEF KeepsWork
<1>18. ASSUME NEW w \in Workers, Reanchor(w)
      PROVE  work'[v] = Idle \/ KeepsWork(v) \/ LoadsRow(v)
  <2>1. work'[w] = Idle /\ \A u \in Workers : u # w => work'[u] = work[u]
    BY <1>18, <1>0, Ends DEF Reanchor
  <2>. QED  BY <2>1 DEF KeepsWork
<1>19. ASSUME NEW w \in Workers, CheckOwned(w)
      PROVE  work'[v] = Idle \/ KeepsWork(v) \/ LoadsRow(v)
  <2>1. \/ work'[w] = Idle /\ \A u \in Workers : u # w => work'[u] = work[u]
        \/ Goto(w, "apply") /\ work[w].at = "fetched"
    BY <1>19, <1>0, Ends DEF CheckOwned
  <2>2. CASE Goto(w, "apply") /\ work[w].at = "fetched"
    BY <2>2, <1>0, Moves DEF Goto, KeepsWork
  <2>. QED  BY <2>1, <2>2 DEF KeepsWork
<1>20. ASSUME NEW w \in Workers, Checkpoint(w)
      PROVE  work'[v] = Idle \/ KeepsWork(v) \/ LoadsRow(v)
  <2>1. work'[w] = Idle /\ \A u \in Workers : u # w => work'[u] = work[u]
    BY <1>20, <1>0, Ends DEF Checkpoint
  <2>. QED  BY <2>1 DEF KeepsWork
<1>21. ASSUME NEW w \in Workers, AskLogged(w)
      PROVE  work'[v] = Idle \/ KeepsWork(v) \/ LoadsRow(v)
  <2>1. CASE Known(First(w))
    BY <1>21, <2>1, <1>0, Moves DEF AskLogged, KeepsWork, Applying
  <2>2. CASE ~ Known(First(w))
    BY <1>21, <2>2, <1>0, Moves DEF AskLogged, KeepsWork, Applying
  <2>. QED  BY <2>1, <2>2
<1>22. ASSUME NEW w \in Workers, LogTouch(w)
      PROVE  work'[v] = Idle \/ KeepsWork(v) \/ LoadsRow(v)
  <2>1. KeepsWork(w) /\ \A u \in Workers : u # w => work'[u] = work[u]
    BY <1>22, <1>0, Moves DEF LogTouch, KeepsWork
  <2>. QED  BY <2>1 DEF KeepsWork
<1>23. ASSUME NEW w \in Workers, BeginBackfill(w)
      PROVE  work'[v] = Idle \/ KeepsWork(v) \/ LoadsRow(v)
  <2>1. \/ work'[w] = Idle /\ \A u \in Workers : u # w => work'[u] = work[u]
        \/ Goto(w, "search") /\ work[w].at = "begin"
    BY <1>23, <1>0, Ends DEF BeginBackfill
  <2>2. CASE Goto(w, "search") /\ work[w].at = "begin"
    BY <2>2, <1>0, Moves DEF Goto, KeepsWork
  <2>. QED  BY <2>1, <2>2 DEF KeepsWork
<1>24. ASSUME NEW w \in Workers, Search(w)
      PROVE  work'[v] = Idle \/ KeepsWork(v) \/ LoadsRow(v)
  <2>1. KeepsWork(w) /\ \A u \in Workers : u # w => work'[u] = work[u]
    BY <1>24, <1>0, Moves DEF Search, KeepsWork, Goto, Applying
  <2>. QED  BY <2>1 DEF KeepsWork
<1>25. ASSUME NEW w \in Workers, FinishBackfill(w)
      PROVE  work'[v] = Idle \/ KeepsWork(v) \/ LoadsRow(v)
  <2>1. work'[w] = Idle /\ \A u \in Workers : u # w => work'[u] = work[u]
    BY <1>25, <1>0, Ends DEF FinishBackfill
  <2>. QED  BY <2>1 DEF KeepsWork
<1>26. ASSUME NEW w \in Workers, FailBackfill(w)
      PROVE  work'[v] = Idle \/ KeepsWork(v) \/ LoadsRow(v)
  <2>1. work'[w] = Idle /\ \A u \in Workers : u # w => work'[u] = work[u]
    BY <1>26, <1>0, Ends DEF FailBackfill
  <2>. QED  BY <2>1 DEF KeepsWork
<1>. QED
  BY <1>1, <1>2, <1>3, <1>4, <1>5, <1>6, <1>7, <1>8, <1>9, <1>10, <1>11, <1>12,
     <1>13, <1>14, <1>15, <1>16, <1>17, <1>18, <1>19, <1>20, <1>21, <1>22, <1>23, <1>24,
     <1>25, <1>26
     DEF Next, Sync, Backfill, Apply, Connection

\* The grants of the row, the disconnect and the consent under way keep their order.
LEMMA GivenStep ==
    ASSUME SyncInv, Next
    PROVE  Given'
<1>. USE SyncAssumption DEF outside
<1>0. /\ RowOK /\ Counts /\ Working /\ Given
  BY SyncParts
<1>1. ASSUME Arrive
      PROVE  Given'
  BY <1>1, <1>0 DEF Arrive, Given, RowOK, RowSet, Counts, Ids
<1>2. ASSUME GoStale
      PROVE  Given'
  <2>1. /\ row'.id = row.id /\ row'.grant = row.grant /\ row'.status \in {row.status, "revoked"}
        /\ UNCHANGED <<grants, ids, consent, parting, honoured>>
    BY <1>2, <1>0 DEF GoStale, RowOK, RowSet
  <2>. QED  BY <2>1, <1>0 DEF Given
<1>3. ASSUME GiveConsent
      PROVE  Given'
  <2>1. /\ grants' = grants + 1 /\ grants \in Nat /\ row.id \in Nat /\ row.grant \in Nat /\ ids \in Nat
        /\ consent'.at = "read" /\ consent'.grant = grants'
        /\ UNCHANGED <<row, ids, parting>>
    BY <1>3, <1>0 DEF GiveConsent, RowOK, RowSet, Counts, Ids
  <2>2. honoured' \subseteq 1..grants' /\ honoured' = honoured \cup {grants + 1}
    BY <1>3, <2>1, <1>0 DEF GiveConsent, Given
  <2>3. parting.grant \in Nat
    BY <1>0 DEF Counts, PartingSet
  <2>4. /\ parting.at = "clear" => parting.grant \notin honoured'
        /\ parting.grant <= grants'
    BY <2>1, <2>2, <2>3, <1>0 DEF Given
  <2>5. consent'.sticky => row.id # 0
    BY <1>3 DEF GiveConsent
  <2>. QED  BY <2>1, <2>2, <2>4, <2>5, <1>0 DEF Given
<1>4. ASSUME StoreConnection
      PROVE  Given'
  <2>1. /\ row'.grant = consent.grant /\ row'.id \in {ids', row.id} /\ row'.id # 0 /\ ids' >= ids
        /\ consent' = NoConsent
        /\ UNCHANGED <<grants, parting, honoured>>
    BY <1>4, <1>0 DEF StoreConnection, RowOK, RowSet, Counts, Ids
  <2>2. consent.grant = grants /\ consent.grant >= 1 /\ row'.id <= ids'
    BY <1>4, <2>1, <1>0 DEF StoreConnection, Given, RowOK, RowSet, Counts, Ids
  <2>. QED  BY <2>1, <2>2, <1>0 DEF Given, NoConsent, Counts
<1>5. ASSUME NEW s \in {"gmail", "calendar"}, StartParting(s)
      PROVE  Given'
  <2>1. /\ parting'.grant = row.grant /\ parting'.at # "clear"
        /\ UNCHANGED <<row, grants, ids, consent, honoured>>
    BY <1>5, <1>0 DEF StartParting
  <2>. QED  BY <2>1, <1>0 DEF Given
<1>6. ASSUME Revoke
      PROVE  Given'
  <2>1. /\ parting'.grant = parting.grant /\ honoured' = {}
        /\ UNCHANGED <<row, grants, ids, consent>>
    BY <1>6, <1>0 DEF Revoke, Counts, PartingSet
  <2>. QED  BY <2>1, <1>0 DEF Given
<1>7. ASSUME Unconfirmed
      PROVE  Given'
  <2>1. /\ parting'.grant \in {parting.grant, 0} /\ parting'.at # "clear"
        /\ UNCHANGED <<row, grants, ids, consent, honoured>>
    BY <1>7, <1>0 DEF Unconfirmed, Counts, PartingSet, NoParting
  <2>. QED  BY <2>1, <1>0 DEF Given, Counts
<1>8. ASSUME DeleteRow
      PROVE  Given'
  BY <1>8, <1>0 DEF DeleteRow, Given, RowOK, RowSet, Counts, Ids, NoRow, NoParting
<1>9. ASSUME ClearSibling
      PROVE  Given'
  <2>1. /\ row'.id = row.id /\ row'.grant = row.grant /\ row'.status \in {row.status, "revoked"}
        /\ UNCHANGED <<grants, ids, consent, honoured>> /\ parting' = NoParting
    BY <1>9, <1>0 DEF ClearSibling, RowOK, RowSet
  <2>. QED  BY <2>1, <1>0 DEF Given, NoParting, Counts
<1>10. ASSUME NEW w \in Workers, NEW job \in {"sync", "backfill"}, Load(w, job)
      PROVE  Given'
  BY <1>10, <1>0 DEF Load, Given, RowOK, RowSet, Counts, Ids
<1>11. ASSUME NEW w \in Workers, TryLock(w)
      PROVE  Given'
  BY <1>11, <1>0 DEF TryLock, Given, RowOK, RowSet, Counts, Ids
<1>12. ASSUME NEW w \in Workers, Skip(w)
      PROVE  Given'
  BY <1>12, <1>0 DEF Skip, Given, RowOK, RowSet, Counts, Ids
<1>13. ASSUME NEW w \in Workers, Crash(w)
      PROVE  Given'
  BY <1>13, <1>0 DEF Crash, Given, RowOK, RowSet, Counts, Ids
<1>14. ASSUME NEW w \in Workers, Defer(w)
      PROVE  Given'
  BY <1>14, <1>0 DEF Defer, Given, RowOK, RowSet, Counts, Ids
<1>15. ASSUME NEW w \in Workers, Refused(w)
      PROVE  Given'
  <2>1. /\ row'.id = row.id /\ row'.grant = row.grant /\ row'.status \in {row.status, "revoked"}
        /\ UNCHANGED <<grants, ids, consent, parting, honoured>>
    BY <1>15, <1>0 DEF Refused, RowOK, RowSet
  <2>. QED  BY <2>1, <1>0 DEF Given
<1>16. ASSUME NEW w \in Workers, List(w)
      PROVE  Given'
  BY <1>16, <1>0 DEF List, Given, RowOK, RowSet, Counts, Ids
<1>17. ASSUME NEW w \in Workers, Expired(w)
      PROVE  Given'
  BY <1>17, <1>0 DEF Expired, Given, RowOK, RowSet, Counts, Ids
<1>18. ASSUME NEW w \in Workers, Reanchor(w)
      PROVE  Given'
  <2>1. /\ row'.id = row.id /\ row'.grant = row.grant /\ row'.status \in {row.status, "revoked"}
        /\ UNCHANGED <<grants, ids, consent, parting, honoured>>
    BY <1>18, <1>0 DEF Reanchor, RowOK, RowSet
  <2>. QED  BY <2>1, <1>0 DEF Given
<1>19. ASSUME NEW w \in Workers, CheckOwned(w)
      PROVE  Given'
  BY <1>19, <1>0 DEF CheckOwned, Given, RowOK, RowSet, Counts, Ids
<1>20. ASSUME NEW w \in Workers, Checkpoint(w)
      PROVE  Given'
  <2>1. /\ row'.id = row.id /\ row'.grant = row.grant /\ row'.status \in {row.status, "revoked"}
        /\ UNCHANGED <<grants, ids, consent, parting, honoured>>
    BY <1>20, <1>0 DEF Checkpoint, RowOK, RowSet
  <2>. QED  BY <2>1, <1>0 DEF Given
<1>21. ASSUME NEW w \in Workers, AskLogged(w)
      PROVE  Given'
  BY <1>21, <1>0 DEF AskLogged, Given, RowOK, RowSet, Counts, Ids
<1>22. ASSUME NEW w \in Workers, LogTouch(w)
      PROVE  Given'
  BY <1>22, <1>0 DEF LogTouch, Given, RowOK, RowSet, Counts, Ids
<1>23. ASSUME NEW w \in Workers, BeginBackfill(w)
      PROVE  Given'
  <2>1. /\ row'.id = row.id /\ row'.grant = row.grant /\ row'.status \in {row.status, "revoked"}
        /\ UNCHANGED <<grants, ids, consent, parting, honoured>>
    BY <1>23, <1>0 DEF BeginBackfill, RowOK, RowSet
  <2>. QED  BY <2>1, <1>0 DEF Given
<1>24. ASSUME NEW w \in Workers, Search(w)
      PROVE  Given'
  BY <1>24, <1>0 DEF Search, Given, RowOK, RowSet, Counts, Ids
<1>25. ASSUME NEW w \in Workers, FinishBackfill(w)
      PROVE  Given'
  <2>1. /\ row'.id = row.id /\ row'.grant = row.grant /\ row'.status \in {row.status, "revoked"}
        /\ UNCHANGED <<grants, ids, consent, parting, honoured>>
    BY <1>25, <1>0 DEF FinishBackfill, RowOK, RowSet
  <2>. QED  BY <2>1, <1>0 DEF Given
<1>26. ASSUME NEW w \in Workers, FailBackfill(w)
      PROVE  Given'
  <2>1. /\ row'.id = row.id /\ row'.grant = row.grant /\ row'.status \in {row.status, "revoked"}
        /\ UNCHANGED <<grants, ids, consent, parting, honoured>>
    BY <1>26, <1>0 DEF FailBackfill, RowOK, RowSet
  <2>. QED  BY <2>1, <1>0 DEF Given
<1>. QED
  BY <1>1, <1>2, <1>3, <1>4, <1>5, <1>6, <1>7, <1>8, <1>9, <1>10, <1>11, <1>12,
     <1>13, <1>14, <1>15, <1>16, <1>17, <1>18, <1>19, <1>20, <1>21, <1>22, <1>23, <1>24,
     <1>25, <1>26
     DEF Next, Sync, Backfill, Apply, Connection

\* What a step does to the counters, the consent under way and the cursor.
Forward ==
    /\ arrived <= arrived' /\ grants <= grants' /\ ids <= ids'
    /\ \/ consent' = consent
       \/ consent'.at = "idle" /\ consent'.head = 0
       \/ consent'.head = arrived /\ grants' = grants + 1
    /\ row'.cursor <= arrived

\* No step takes the counters back or the cursor past what has arrived.
LEMMA CursorStep == SyncInv /\ Next => Forward
<1>. SUFFICES ASSUME SyncInv, Next
              PROVE  Forward
  OBVIOUS
<1>. USE SyncAssumption DEF outside
<1>0. RowOK /\ Counts /\ Working /\ Arrived
  BY SyncParts
<1>00. /\ row.cursor \in 0..MaxMail /\ row.cursor <= arrived /\ 0 <= arrived
       /\ arrived \in Nat /\ grants \in Nat /\ ids \in Nat
  BY <1>0 DEF RowOK, RowSet, Counts, Ids, Arrived
<1>1. ASSUME Arrive
      PROVE  Forward
  BY <1>1, <1>0, <1>00 DEF Arrive, Forward, RowOK, RowSet, Arrived
<1>2. ASSUME GoStale
      PROVE  Forward
  BY <1>2, <1>0, <1>00 DEF GoStale, Forward, RowOK, RowSet, Arrived
<1>3. ASSUME GiveConsent
      PROVE  Forward
  BY <1>3, <1>0, <1>00 DEF GiveConsent, Forward, RowOK, RowSet, Arrived
<1>4. ASSUME StoreConnection
      PROVE  Forward
  BY <1>4, <1>0, <1>00 DEF StoreConnection, Forward, NoConsent, Arrived
<1>5. ASSUME NEW s \in {"gmail", "calendar"}, StartParting(s)
      PROVE  Forward
  BY <1>5, <1>0, <1>00 DEF StartParting, Forward, RowOK, RowSet, Arrived
<1>6. ASSUME Revoke
      PROVE  Forward
  BY <1>6, <1>0, <1>00 DEF Revoke, Forward, RowOK, RowSet, Arrived
<1>7. ASSUME Unconfirmed
      PROVE  Forward
  BY <1>7, <1>0, <1>00 DEF Unconfirmed, Forward, RowOK, RowSet, Arrived
<1>8. ASSUME DeleteRow
      PROVE  Forward
  BY <1>8, <1>0, <1>00 DEF DeleteRow, Forward, NoRow
<1>9. ASSUME ClearSibling
      PROVE  Forward
  BY <1>9, <1>0, <1>00 DEF ClearSibling, Forward, RowOK, RowSet, Arrived
<1>10. ASSUME NEW w \in Workers, NEW job \in {"sync", "backfill"}, Load(w, job)
      PROVE  Forward
  BY <1>10, <1>0, <1>00 DEF Load, Forward, RowOK, RowSet, Arrived
<1>11. ASSUME NEW w \in Workers, TryLock(w)
      PROVE  Forward
  BY <1>11, <1>0, <1>00 DEF TryLock, Forward, RowOK, RowSet, Arrived
<1>12. ASSUME NEW w \in Workers, Skip(w)
      PROVE  Forward
  BY <1>12, <1>0, <1>00 DEF Skip, Forward, RowOK, RowSet, Arrived
<1>13. ASSUME NEW w \in Workers, Crash(w)
      PROVE  Forward
  BY <1>13, <1>0, <1>00 DEF Crash, Forward, RowOK, RowSet, Arrived
<1>14. ASSUME NEW w \in Workers, Defer(w)
      PROVE  Forward
  BY <1>14, <1>0, <1>00 DEF Defer, Forward, RowOK, RowSet, Arrived
<1>15. ASSUME NEW w \in Workers, Refused(w)
      PROVE  Forward
  BY <1>15, <1>0, <1>00 DEF Refused, Forward, RowOK, RowSet, Arrived
<1>16. ASSUME NEW w \in Workers, List(w)
      PROVE  Forward
  BY <1>16, <1>0, <1>00 DEF List, Forward, RowOK, RowSet, Arrived
<1>17. ASSUME NEW w \in Workers, Expired(w)
      PROVE  Forward
  BY <1>17, <1>0, <1>00 DEF Expired, Forward, RowOK, RowSet, Arrived
<1>18. ASSUME NEW w \in Workers, Reanchor(w)
      PROVE  Forward
  BY <1>18, <1>0, <1>00 DEF Reanchor, Forward, RowOK, RowSet, Arrived
<1>19. ASSUME NEW w \in Workers, CheckOwned(w)
      PROVE  Forward
  BY <1>19, <1>0, <1>00 DEF CheckOwned, Forward, RowOK, RowSet, Arrived
<1>20. ASSUME NEW w \in Workers, Checkpoint(w)
      PROVE  Forward
  BY <1>20, <1>0, <1>00 DEF Checkpoint, Forward, RowOK, RowSet, Arrived
<1>21. ASSUME NEW w \in Workers, AskLogged(w)
      PROVE  Forward
  BY <1>21, <1>0, <1>00 DEF AskLogged, Forward, RowOK, RowSet, Arrived
<1>22. ASSUME NEW w \in Workers, LogTouch(w)
      PROVE  Forward
  BY <1>22, <1>0, <1>00 DEF LogTouch, Forward, RowOK, RowSet, Arrived
<1>23. ASSUME NEW w \in Workers, BeginBackfill(w)
      PROVE  Forward
  BY <1>23, <1>0, <1>00 DEF BeginBackfill, Forward, RowOK, RowSet, Arrived
<1>24. ASSUME NEW w \in Workers, Search(w)
      PROVE  Forward
  BY <1>24, <1>0, <1>00 DEF Search, Forward, RowOK, RowSet, Arrived
<1>25. ASSUME NEW w \in Workers, FinishBackfill(w)
      PROVE  Forward
  BY <1>25, <1>0, <1>00 DEF FinishBackfill, Forward, RowOK, RowSet, Arrived
<1>26. ASSUME NEW w \in Workers, FailBackfill(w)
      PROVE  Forward
  BY <1>26, <1>0, <1>00 DEF FailBackfill, Forward, RowOK, RowSet, Arrived
<1>. QED
  BY <1>1, <1>2, <1>3, <1>4, <1>5, <1>6, <1>7, <1>8, <1>9, <1>10, <1>11, <1>12,
     <1>13, <1>14, <1>15, <1>16, <1>17, <1>18, <1>19, <1>20, <1>21, <1>22, <1>23, <1>24,
     <1>25, <1>26
     DEF Next, Sync, Backfill, Apply, Connection

\* Nothing is known that has not arrived.
LEMMA ArrivedStep ==
    ASSUME SyncInv, Next
    PROVE  Arrived'
<1>. USE SyncAssumption
<1>0. /\ Counts /\ Counts' /\ Working /\ Arrived
      /\ arrived <= arrived' /\ row'.cursor <= arrived
  BY SyncParts, TypeStep, TypeParts, CursorStep DEF TypeOK, Counts, Forward
<1>1. arrived \in Nat /\ arrived' \in Nat /\ row'.cursor \in Nat /\ consent.head \in Nat
  BY <1>0, SyncParts, TypeStep DEF Counts, TypeOK, RowSet, ConsentSet
<1>2. consent'.head <= arrived'
  BY <1>0, <1>1, CursorStep DEF Arrived, Forward
<1>3. ASSUME NEW w \in Workers
      PROVE  work'[w].head <= arrived' /\ work'[w].todo \subseteq 1..arrived'
  <2>1. /\ work[w].head <= arrived /\ work[w].head \in Nat /\ work[w].todo \subseteq 1..arrived
        /\ 1..arrived \subseteq 1..arrived'
    BY <1>0, <1>1 DEF Arrived, Working, WorkSet
  <2>2. work'[w].head \in {0, work[w].head, arrived} /\ work'[w].todo \subseteq work[w].todo \cup 1..arrived
    BY WorkStep, SyncParts DEF KeepsWork, LoadsRow, Idle
  <2>. QED  BY <1>0, <1>1, <2>1, <2>2
<1>. QED  BY <1>0, <1>1, <1>2, <1>3 DEF Arrived

\* What a worker loaded was in the row.
LEMMA LoadedStep ==
    ASSUME SyncInv, Next, NEW w \in Workers
    PROVE  Loaded(w)'
<1>. USE SyncAssumption
<1>0. /\ Loaded(w) /\ Given /\ Counts /\ RowOK /\ Working
      /\ grants <= grants' /\ ids <= ids'
  BY SyncParts, CursorStep DEF Forward
<1>1. /\ grants \in Nat /\ grants' \in Nat /\ ids \in Nat /\ ids' \in Nat /\ row.id \in Nat
      /\ row.grant \in Nat /\ work[w].id \in Nat /\ work[w].grant \in Nat
  BY <1>0, TypeStep, SyncParts DEF Counts, TypeOK, RowOK, RowSet, Working, WorkSet, Ids
<1>2. consent'.at = "read" => consent' = consent \/ grants' = grants + 1
  BY CursorStep DEF Forward
<1>3. CASE work'[w] = Idle
  <2>1. work'[w].at = "idle" /\ work'[w].grant = 0
    BY <1>3 DEF Idle
  <2>2. consent'.at = "read" => 0 < grants'
    BY GivenStep, TypeStep, SyncParts, <1>1 DEF Given, TypeOK, RowSet
  <2>. QED  BY <2>1, <2>2, <1>1 DEF Loaded
<1>4. CASE KeepsWork(w)
  <2>1. work'[w].id = work[w].id /\ work'[w].grant = work[w].grant
        /\ (work'[w].at # "idle" => work[w].at # "idle")
    BY <1>4 DEF KeepsWork
  <2>2. consent'.at = "read" => work[w].grant < grants'
    BY <1>0, <1>1, <1>2 DEF Loaded
  <2>. QED  BY <2>1, <2>2, <1>0, <1>1 DEF Loaded
<1>5. CASE LoadsRow(w)
  BY <1>5, <1>0, <1>1 DEF Loaded, LoadsRow, Given
<1>. QED  BY <1>3, <1>4, <1>5, WorkStep, SyncParts

\* What was read stays read.
LEMMA Grows ==
    ASSUME SyncInv, Next
    PROVE  Seen \subseteq Seen' /\ passed \subseteq passed'
<1>. USE DEF outside
<1>0. Counts
  BY SyncParts
<1>. DEFINE Goal == Seen \subseteq Seen' /\ passed \subseteq passed'
<1>. SUFFICES Goal
  OBVIOUS
<1>1. ASSUME Arrive
      PROVE  Goal
  BY <1>1 DEF Arrive, Seen
<1>2. ASSUME GoStale
      PROVE  Goal
  BY <1>2 DEF GoStale, Seen
<1>3. ASSUME GiveConsent
      PROVE  Goal
  BY <1>3 DEF GiveConsent, Seen
<1>4. ASSUME StoreConnection
      PROVE  Goal
  BY <1>4 DEF StoreConnection, Seen
<1>5. ASSUME NEW s \in {"gmail", "calendar"}, StartParting(s)
      PROVE  Goal
  BY <1>5 DEF StartParting, Seen
<1>6. ASSUME Revoke
      PROVE  Goal
  BY <1>6 DEF Revoke, Seen
<1>7. ASSUME Unconfirmed
      PROVE  Goal
  BY <1>7 DEF Unconfirmed, Seen
<1>8. ASSUME DeleteRow
      PROVE  Goal
  BY <1>8 DEF DeleteRow, Seen
<1>9. ASSUME ClearSibling
      PROVE  Goal
  BY <1>9 DEF ClearSibling, Seen
<1>10. ASSUME NEW w \in Workers, NEW job \in {"sync", "backfill"}, Load(w, job)
      PROVE  Goal
  BY <1>10 DEF Load, Seen
<1>11. ASSUME NEW w \in Workers, TryLock(w)
      PROVE  Goal
  BY <1>11 DEF TryLock, Seen
<1>12. ASSUME NEW w \in Workers, Skip(w)
      PROVE  Goal
  BY <1>12 DEF Skip, Seen
<1>13. ASSUME NEW w \in Workers, Crash(w)
      PROVE  Goal
  BY <1>13 DEF Crash, Seen
<1>14. ASSUME NEW w \in Workers, Defer(w)
      PROVE  Goal
  BY <1>14 DEF Defer, Seen
<1>15. ASSUME NEW w \in Workers, Refused(w)
      PROVE  Goal
  BY <1>15 DEF Refused, Seen
<1>16. ASSUME NEW w \in Workers, List(w)
      PROVE  Goal
  BY <1>16 DEF List, Seen
<1>17. ASSUME NEW w \in Workers, Expired(w)
      PROVE  Goal
  BY <1>17 DEF Expired, Seen
<1>18. ASSUME NEW w \in Workers, Reanchor(w)
      PROVE  Goal
  BY <1>18 DEF Reanchor, Seen
<1>19. ASSUME NEW w \in Workers, CheckOwned(w)
      PROVE  Goal
  BY <1>19 DEF CheckOwned, Seen
<1>20. ASSUME NEW w \in Workers, Checkpoint(w)
      PROVE  Goal
  BY <1>20 DEF Checkpoint, Seen
<1>21. ASSUME NEW w \in Workers, AskLogged(w)
      PROVE  Goal
  BY <1>21 DEF AskLogged, Seen
<1>22. ASSUME NEW w \in Workers, LogTouch(w)
      PROVE  Goal
  <2>1. logged' = [logged EXCEPT ![First(w)] = logged[First(w)] + 1] /\ passed' = passed
    BY <1>22 DEF LogTouch
  <2>2. \A m \in Messages : logged[m] \in Nat /\ logged'[m] \in {logged[m], logged[m] + 1}
    BY <2>1, <1>0 DEF Counts
  <2>. QED  BY <2>1, <2>2 DEF Seen
<1>23. ASSUME NEW w \in Workers, BeginBackfill(w)
      PROVE  Goal
  BY <1>23 DEF BeginBackfill, Seen
<1>24. ASSUME NEW w \in Workers, Search(w)
      PROVE  Goal
  BY <1>24 DEF Search, Seen
<1>25. ASSUME NEW w \in Workers, FinishBackfill(w)
      PROVE  Goal
  BY <1>25 DEF FinishBackfill, Seen
<1>26. ASSUME NEW w \in Workers, FailBackfill(w)
      PROVE  Goal
  BY <1>26 DEF FailBackfill, Seen
<1>. QED
  BY <1>1, <1>2, <1>3, <1>4, <1>5, <1>6, <1>7, <1>8, <1>9, <1>10, <1>11, <1>12,
     <1>13, <1>14, <1>15, <1>16, <1>17, <1>18, <1>19, <1>20, <1>21, <1>22, <1>23, <1>24,
     <1>25, <1>26
     DEF Next, Sync, Backfill, Apply, Connection

\* Under a pass the row keeps its cursor, or is no longer the pass's.
KeptFor(v) ==
    row'.id = work[v].id /\ row'.grant = work[v].grant =>
        row'.id = row.id /\ row'.grant = row.grant /\ row'.cursor = row.cursor

\* So the lock keeps the row of a pass.
LEMMA RowStep ==
    ASSUME SyncInv, Next, NEW v \in Workers, work[v].at \in {"replay", "relog"}
    PROVE  KeptFor(v)
<1>. USE DEF outside
<1>0. RowOK /\ Counts /\ Working /\ Locking /\ Given /\ Loaded(v)
  BY SyncParts
<1>01. v \in Holders
  BY DEF Holders, Held
<1>1. ASSUME Arrive
      PROVE  KeptFor(v)
  BY <1>1, <1>0 DEF Arrive, RowOK, RowSet, KeptFor
<1>2. ASSUME GoStale
      PROVE  KeptFor(v)
  BY <1>2, <1>0 DEF GoStale, RowOK, RowSet, KeptFor
<1>3. ASSUME GiveConsent
      PROVE  KeptFor(v)
  BY <1>3, <1>0 DEF GiveConsent, RowOK, RowSet, KeptFor
<1>4. ASSUME StoreConnection
      PROVE  KeptFor(v)
  <2>1. row'.grant = consent.grant /\ consent.grant = grants /\ work[v].grant < grants
    BY <1>4, <1>0 DEF StoreConnection, Given, Loaded
  <2>. QED  BY <2>1, <1>0 DEF KeptFor, Counts, Working, WorkSet
<1>5. ASSUME NEW s \in {"gmail", "calendar"}, StartParting(s)
      PROVE  KeptFor(v)
  BY <1>5, <1>0 DEF StartParting, RowOK, RowSet, KeptFor
<1>6. ASSUME Revoke
      PROVE  KeptFor(v)
  BY <1>6, <1>0 DEF Revoke, RowOK, RowSet, KeptFor
<1>7. ASSUME Unconfirmed
      PROVE  KeptFor(v)
  BY <1>7, <1>0 DEF Unconfirmed, RowOK, RowSet, KeptFor
<1>8. ASSUME DeleteRow
      PROVE  KeptFor(v)
  <2>1. work[v].id # 0
    BY <1>0 DEF Loaded, Counts, Ids
  <2>. QED  BY <1>8, <2>1 DEF DeleteRow, NoRow, KeptFor
<1>9. ASSUME ClearSibling
      PROVE  KeptFor(v)
  BY <1>9, <1>0 DEF ClearSibling, RowOK, RowSet, KeptFor
<1>10. ASSUME NEW w \in Workers, NEW job \in {"sync", "backfill"}, Load(w, job)
      PROVE  KeptFor(v)
  BY <1>10, <1>0 DEF Load, RowOK, RowSet, KeptFor
<1>11. ASSUME NEW w \in Workers, TryLock(w)
      PROVE  KeptFor(v)
  BY <1>11, <1>0 DEF TryLock, RowOK, RowSet, KeptFor
<1>12. ASSUME NEW w \in Workers, Skip(w)
      PROVE  KeptFor(v)
  BY <1>12, <1>0 DEF Skip, RowOK, RowSet, KeptFor
<1>13. ASSUME NEW w \in Workers, Crash(w)
      PROVE  KeptFor(v)
  BY <1>13, <1>0 DEF Crash, RowOK, RowSet, KeptFor
<1>14. ASSUME NEW w \in Workers, Defer(w)
      PROVE  KeptFor(v)
  BY <1>14, <1>0 DEF Defer, RowOK, RowSet, KeptFor
<1>15. ASSUME NEW w \in Workers, Refused(w)
      PROVE  KeptFor(v)
  BY <1>15, <1>0 DEF Refused, RowOK, RowSet, KeptFor
<1>16. ASSUME NEW w \in Workers, List(w)
      PROVE  KeptFor(v)
  BY <1>16, <1>0 DEF List, RowOK, RowSet, KeptFor
<1>17. ASSUME NEW w \in Workers, Expired(w)
      PROVE  KeptFor(v)
  BY <1>17, <1>0 DEF Expired, RowOK, RowSet, KeptFor
<1>18. ASSUME NEW w \in Workers, Reanchor(w)
      PROVE  KeptFor(v)
  <2>1. CASE OwnedRow(w)
    <3>1. w \in Holders /\ w # v
      BY <1>18 DEF Reanchor, Holders, Held
    <3>2. row'.id = row.id /\ row.id = work[w].id
      BY <1>18, <2>1, <1>0 DEF Reanchor, OwnedRow, OwnedGrant, RowOK, RowSet
    <3>. QED  BY <3>1, <3>2, <1>0, <1>01 DEF Locking, KeptFor
  <2>2. CASE ~ OwnedRow(w)
    BY <1>18, <2>2 DEF Reanchor, KeptFor
  <2>. QED  BY <2>1, <2>2
<1>19. ASSUME NEW w \in Workers, CheckOwned(w)
      PROVE  KeptFor(v)
  BY <1>19, <1>0 DEF CheckOwned, RowOK, RowSet, KeptFor
<1>20. ASSUME NEW w \in Workers, Checkpoint(w)
      PROVE  KeptFor(v)
  <2>1. CASE OwnedRow(w)
    <3>1. w \in Holders /\ w # v
      BY <1>20 DEF Checkpoint, Holders, Held
    <3>2. row'.id = row.id /\ row.id = work[w].id
      BY <1>20, <2>1, <1>0 DEF Checkpoint, OwnedRow, OwnedGrant, RowOK, RowSet
    <3>. QED  BY <3>1, <3>2, <1>0, <1>01 DEF Locking, KeptFor
  <2>2. CASE ~ OwnedRow(w)
    BY <1>20, <2>2 DEF Checkpoint, KeptFor
  <2>. QED  BY <2>1, <2>2
<1>21. ASSUME NEW w \in Workers, AskLogged(w)
      PROVE  KeptFor(v)
  BY <1>21, <1>0 DEF AskLogged, RowOK, RowSet, KeptFor
<1>22. ASSUME NEW w \in Workers, LogTouch(w)
      PROVE  KeptFor(v)
  BY <1>22, <1>0 DEF LogTouch, RowOK, RowSet, KeptFor
<1>23. ASSUME NEW w \in Workers, BeginBackfill(w)
      PROVE  KeptFor(v)
  BY <1>23, <1>0 DEF BeginBackfill, RowOK, RowSet, KeptFor
<1>24. ASSUME NEW w \in Workers, Search(w)
      PROVE  KeptFor(v)
  BY <1>24, <1>0 DEF Search, RowOK, RowSet, KeptFor
<1>25. ASSUME NEW w \in Workers, FinishBackfill(w)
      PROVE  KeptFor(v)
  BY <1>25, <1>0 DEF FinishBackfill, RowOK, RowSet, KeptFor
<1>26. ASSUME NEW w \in Workers, FailBackfill(w)
      PROVE  KeptFor(v)
  BY <1>26, <1>0 DEF FailBackfill, RowOK, RowSet, KeptFor
<1>. QED
  BY <1>1, <1>2, <1>3, <1>4, <1>5, <1>6, <1>7, <1>8, <1>9, <1>10, <1>11, <1>12,
     <1>13, <1>14, <1>15, <1>16, <1>17, <1>18, <1>19, <1>20, <1>21, <1>22, <1>23, <1>24,
     <1>25, <1>26
     DEF Next, Sync, Backfill, Apply, Connection

\* A worker that does not move keeps what it has read.
LEMMA OthersRead ==
    ASSUME SyncInv, Next, NEW v \in Workers, work'[v] = work[v]
    PROVE  Reading(v)'
<1>1. Reading(v) /\ Seen \subseteq Seen' /\ passed \subseteq passed'
  BY SyncParts, Grows
<1>2. work[v].at \in {"replay", "relog"} => KeptFor(v)
  BY RowStep
<1>3. ASSUME work[v].at \in {"replay", "relog"}, row'.id = work[v].id, row'.grant = work[v].grant
      PROVE  1..row'.cursor \subseteq Seen' \cup passed' \cup work[v].todo
  BY <1>1, <1>2, <1>3 DEF Reading, KeptFor
<1>. QED  BY <1>1, <1>3 DEF Reading

\* The choice depends on what there is to do only.
LEMMA FirstStays ==
    ASSUME NEW v \in Workers, work'[v].todo = work[v].todo
    PROVE  First(v)' = First(v)
BY DEF First

\* Two workers hold the lock of one row only.
LEMMA OneRowOneHolder ==
    ASSUME SyncInv, ids <= 1, NEW v \in Holders, NEW w \in Holders
    PROVE  v = w
<1>1. /\ work[v].id \in 1..ids /\ work[w].id \in 1..ids /\ ids \in Nat
  BY SyncParts DEF Loaded, Holders, Held, Counts, Ids
<1>. QED  BY <1>1, SyncParts DEF Locking

\* No step logs but the one that does.
LEMMA LoggedStep ==
    ASSUME Next
    PROVE  logged' = logged \/ \E w \in Workers : LogTouch(w)
<1>. USE DEF outside
<1>. DEFINE Goal == logged' = logged \/ \E w \in Workers : LogTouch(w)
<1>. SUFFICES Goal
  OBVIOUS
<1>1. ASSUME Arrive
      PROVE  Goal
  BY <1>1 DEF Arrive
<1>2. ASSUME GoStale
      PROVE  Goal
  BY <1>2 DEF GoStale
<1>3. ASSUME GiveConsent
      PROVE  Goal
  BY <1>3 DEF GiveConsent
<1>4. ASSUME StoreConnection
      PROVE  Goal
  BY <1>4 DEF StoreConnection
<1>5. ASSUME NEW s \in {"gmail", "calendar"}, StartParting(s)
      PROVE  Goal
  BY <1>5 DEF StartParting
<1>6. ASSUME Revoke
      PROVE  Goal
  BY <1>6 DEF Revoke
<1>7. ASSUME Unconfirmed
      PROVE  Goal
  BY <1>7 DEF Unconfirmed
<1>8. ASSUME DeleteRow
      PROVE  Goal
  BY <1>8 DEF DeleteRow
<1>9. ASSUME ClearSibling
      PROVE  Goal
  BY <1>9 DEF ClearSibling
<1>10. ASSUME NEW w \in Workers, NEW job \in {"sync", "backfill"}, Load(w, job)
      PROVE  Goal
  BY <1>10 DEF Load
<1>11. ASSUME NEW w \in Workers, TryLock(w)
      PROVE  Goal
  BY <1>11 DEF TryLock
<1>12. ASSUME NEW w \in Workers, Skip(w)
      PROVE  Goal
  BY <1>12 DEF Skip
<1>13. ASSUME NEW w \in Workers, Crash(w)
      PROVE  Goal
  BY <1>13 DEF Crash
<1>14. ASSUME NEW w \in Workers, Defer(w)
      PROVE  Goal
  BY <1>14 DEF Defer
<1>15. ASSUME NEW w \in Workers, Refused(w)
      PROVE  Goal
  BY <1>15 DEF Refused
<1>16. ASSUME NEW w \in Workers, List(w)
      PROVE  Goal
  BY <1>16 DEF List
<1>17. ASSUME NEW w \in Workers, Expired(w)
      PROVE  Goal
  BY <1>17 DEF Expired
<1>18. ASSUME NEW w \in Workers, Reanchor(w)
      PROVE  Goal
  BY <1>18 DEF Reanchor
<1>19. ASSUME NEW w \in Workers, CheckOwned(w)
      PROVE  Goal
  BY <1>19 DEF CheckOwned
<1>20. ASSUME NEW w \in Workers, Checkpoint(w)
      PROVE  Goal
  BY <1>20 DEF Checkpoint
<1>21. ASSUME NEW w \in Workers, AskLogged(w)
      PROVE  Goal
  BY <1>21 DEF AskLogged
<1>22. ASSUME NEW w \in Workers, LogTouch(w)
      PROVE  Goal
  BY <1>22
<1>23. ASSUME NEW w \in Workers, BeginBackfill(w)
      PROVE  Goal
  BY <1>23 DEF BeginBackfill
<1>24. ASSUME NEW w \in Workers, Search(w)
      PROVE  Goal
  BY <1>24 DEF Search
<1>25. ASSUME NEW w \in Workers, FinishBackfill(w)
      PROVE  Goal
  BY <1>25 DEF FinishBackfill
<1>26. ASSUME NEW w \in Workers, FailBackfill(w)
      PROVE  Goal
  BY <1>26 DEF FailBackfill
<1>. QED
  BY <1>1, <1>2, <1>3, <1>4, <1>5, <1>6, <1>7, <1>8, <1>9, <1>10, <1>11, <1>12,
     <1>13, <1>14, <1>15, <1>16, <1>17, <1>18, <1>19, <1>20, <1>21, <1>22, <1>23, <1>24,
     <1>25, <1>26
     DEF Next, Sync, Backfill, Apply, Connection

\* Another worker's question is not answered twice.
LEMMA OthersAsked ==
    ASSUME SyncInv, Next, NEW v \in Workers, work'[v] = work[v]
    PROVE  Asked(v)'
<1>. SUFFICES ASSUME work[v].at \in {"log", "relog"}
              PROVE  work'[v].todo # {} /\ (ids' <= 1 => logged'[First(v)'] = 0)
  BY DEF Asked
<1>0. Asked(v) /\ Counts /\ Counts' /\ ids <= ids' /\ First(v)' = First(v) /\ v \in Holders
  BY SyncParts, TypeStep, CursorStep, FirstStays DEF Forward, TypeOK, Counts, Holders, Held
<1>1. ids' <= 1 => ids <= 1
  BY <1>0 DEF Counts, Ids
<1>2. ASSUME ids <= 1, NEW w \in Workers, LogTouch(w)
      PROVE  FALSE
  <2>1. w \in Holders /\ v = w
    BY <1>2, <1>0, OneRowOneHolder DEF LogTouch, Holders, Held
  <2>2. work'[w].at = Next1(work[w].at)
    BY <1>2, SyncParts, Moves DEF LogTouch
  <2>. QED  BY <2>1, <2>2 DEF Next1
<1>. QED  BY <1>0, <1>1, <1>2, LoggedStep DEF Asked

\* Every worker keeps what it has read and asked.
LEMMA ReadStep ==
    ASSUME SyncInv, Next, NEW v \in Workers
    PROVE  Reading(v)' /\ Asked(v)'
<1>. USE SyncAssumption DEF outside
<1>0. /\ RowOK /\ Counts /\ Working /\ Arrived /\ Reading(v) /\ Asked(v)
  BY SyncParts
<1>01. work'[v] = work[v] => Reading(v)' /\ Asked(v)'
  BY OthersRead, OthersAsked
<1>02. work'[v].at \in {"idle", "sync", "backfill", "list", "begin", "search"} => Reading(v)' /\ Asked(v)'
  BY DEF Reading, Asked
<1>03. Seen \subseteq Seen' /\ passed \subseteq passed'
  BY Grows
<1>04. /\ arrived \in Nat /\ work[v].cursor \in Nat /\ work[v].head \in Nat /\ row.cursor \in Nat
       /\ work[v].todo \subseteq Messages
  BY <1>0 DEF Counts, Working, WorkSet, RowOK, RowSet
<1>1. ASSUME Arrive
      PROVE  Reading(v)' /\ Asked(v)'
  BY <1>1, <1>01 DEF Arrive
<1>2. ASSUME GoStale
      PROVE  Reading(v)' /\ Asked(v)'
  BY <1>2, <1>01 DEF GoStale
<1>3. ASSUME GiveConsent
      PROVE  Reading(v)' /\ Asked(v)'
  BY <1>3, <1>01 DEF GiveConsent
<1>4. ASSUME StoreConnection
      PROVE  Reading(v)' /\ Asked(v)'
  BY <1>4, <1>01 DEF StoreConnection
<1>5. ASSUME NEW s \in {"gmail", "calendar"}, StartParting(s)
      PROVE  Reading(v)' /\ Asked(v)'
  BY <1>5, <1>01 DEF StartParting
<1>6. ASSUME Revoke
      PROVE  Reading(v)' /\ Asked(v)'
  BY <1>6, <1>01 DEF Revoke
<1>7. ASSUME Unconfirmed
      PROVE  Reading(v)' /\ Asked(v)'
  BY <1>7, <1>01 DEF Unconfirmed
<1>8. ASSUME DeleteRow
      PROVE  Reading(v)' /\ Asked(v)'
  BY <1>8, <1>01 DEF DeleteRow
<1>9. ASSUME ClearSibling
      PROVE  Reading(v)' /\ Asked(v)'
  BY <1>9, <1>01 DEF ClearSibling
<1>10. ASSUME NEW w \in Workers, NEW job \in {"sync", "backfill"}, Load(w, job)
      PROVE  Reading(v)' /\ Asked(v)'
  <2>1. work'[w].at = job /\ \A u \in Workers : u # w => work'[u] = work[u]
    BY <1>10, <1>0 DEF Load, Set, Working
  <2>. QED  BY <2>1, <1>01, <1>02
<1>11. ASSUME NEW w \in Workers, TryLock(w)
      PROVE  Reading(v)' /\ Asked(v)'
  <2>1. work'[w].at \in {"list", "begin"} /\ \A u \in Workers : u # w => work'[u] = work[u]
    BY <1>11, <1>0, Moves DEF TryLock, Goto
  <2>. QED  BY <2>1, <1>01, <1>02
<1>12. ASSUME NEW w \in Workers, Skip(w)
      PROVE  Reading(v)' /\ Asked(v)'
  <2>1. work'[w].at = "idle" /\ \A u \in Workers : u # w => work'[u] = work[u]
    BY <1>12, <1>0 DEF Skip, Set, Idle, Working
  <2>. QED  BY <2>1, <1>01, <1>02
<1>13. ASSUME NEW w \in Workers, Crash(w)
      PROVE  Reading(v)' /\ Asked(v)'
  <2>1. work'[w].at = "idle" /\ \A u \in Workers : u # w => work'[u] = work[u]
    BY <1>13, <1>0, Ends DEF Crash, Idle
  <2>. QED  BY <2>1, <1>01, <1>02
<1>14. ASSUME NEW w \in Workers, Defer(w)
      PROVE  Reading(v)' /\ Asked(v)'
  <2>1. work'[w].at = "idle" /\ \A u \in Workers : u # w => work'[u] = work[u]
    BY <1>14, <1>0, Ends DEF Defer, Idle
  <2>. QED  BY <2>1, <1>01, <1>02
<1>15. ASSUME NEW w \in Workers, Refused(w)
      PROVE  Reading(v)' /\ Asked(v)'
  <2>1. work'[w].at = "idle" /\ \A u \in Workers : u # w => work'[u] = work[u]
    BY <1>15, <1>0, Ends DEF Refused, Idle
  <2>. QED  BY <2>1, <1>01, <1>02
<1>16. ASSUME NEW w \in Workers, List(w)
      PROVE  Reading(v)' /\ Asked(v)'
  <2>. DEFINE todo == (work[w].cursor + 1)..arrived
  <2>0. Set(w, With(w, "fetched", todo, arrived))
    BY <1>16 DEF List
  <2>. HIDE DEF todo
  <2>1. /\ work'[w].at = "fetched" /\ work'[w].todo = todo /\ work'[w].head = arrived
        /\ work'[w].id = work[w].id /\ work'[w].grant = work[w].grant /\ work'[w].cursor = work[w].cursor
        /\ \A u \in Workers : u # w => work'[u] = work[u]
    BY <2>0, <1>0, Moves DEF List, Goto
  <2>2. work[w].cursor = row.cursor /\ row.cursor <= arrived
    BY <1>16, <1>0 DEF List, OwnedRow, Arrived
  <2>3. CASE v = w
    <3>. USE DEF todo
    <3>1. Reading(v)'
      BY <2>1, <2>2, <2>3 DEF Reading
    <3>2. Asked(v)'
      BY <2>1, <2>3 DEF Asked
    <3>. QED  BY <3>1, <3>2
  <2>. QED  BY <2>1, <2>3, <1>01
<1>17. ASSUME NEW w \in Workers, Expired(w)
      PROVE  Reading(v)' /\ Asked(v)'
  <2>1. /\ work'[w].at = "expired" /\ work'[w].todo = {} /\ work'[w].head = arrived
        /\ work'[w].id = work[w].id /\ work'[w].grant = work[w].grant /\ work'[w].cursor = work[w].cursor
        /\ \A u \in Workers : u # w => work'[u] = work[u]
    BY <1>17, <1>0, Moves DEF Expired, Goto
  <2>2. work[w].cursor = row.cursor /\ row.cursor <= arrived
    BY <1>17, <1>0 DEF Expired, OwnedRow, Arrived
  <2>3. CASE v = w
    <3>1. Reading(v)'
      BY <2>1, <2>2, <2>3 DEF Reading
    <3>2. Asked(v)'
      BY <2>1, <2>3 DEF Asked
    <3>. QED  BY <3>1, <3>2
  <2>. QED  BY <2>1, <2>3, <1>01
<1>18. ASSUME NEW w \in Workers, Reanchor(w)
      PROVE  Reading(v)' /\ Asked(v)'
  <2>1. work'[w].at = "idle" /\ \A u \in Workers : u # w => work'[u] = work[u]
    BY <1>18, <1>0, Ends DEF Reanchor, Idle
  <2>. QED  BY <2>1, <1>01, <1>02
<1>19. ASSUME NEW w \in Workers, CheckOwned(w)
      PROVE  Reading(v)' /\ Asked(v)'
  <2>1. CASE ~ OwnedRow(w)
    <3>1. work'[w].at = "idle" /\ \A u \in Workers : u # w => work'[u] = work[u]
      BY <1>19, <2>1, <1>0, Ends DEF CheckOwned, Idle
    <3>. QED  BY <3>1, <1>01, <1>02
  <2>2. CASE OwnedRow(w)
    <3>0. Goto(w, "apply") \/ Leave(w)
      BY <1>19 DEF CheckOwned
    <3>1. CASE Leave(w)
      <4>1. work'[w].at = "idle" /\ \A u \in Workers : u # w => work'[u] = work[u]
        BY <3>1, <1>0, Ends DEF Idle
      <4>. QED  BY <4>1, <1>01, <1>02
    <3>2. CASE Goto(w, "apply")
      <4>1. /\ work'[w].at = "apply" /\ work'[w].todo = work[w].todo /\ work'[w].head = work[w].head
            /\ work'[w].cursor = work[w].cursor
            /\ \A u \in Workers : u # w => work'[u] = work[u]
        BY <3>2, <1>0, Moves DEF Goto
      <4>2. CASE v = w
        <5>1. Reading(v)'
          BY <1>19, <4>1, <4>2, <1>0, <1>03 DEF CheckOwned, Reading
        <5>2. Asked(v)'
          BY <4>1, <4>2 DEF Asked
        <5>. QED  BY <5>1, <5>2
      <4>. QED  BY <4>1, <4>2, <1>01
    <3>. QED  BY <3>0, <3>1, <3>2
  <2>. QED  BY <2>1, <2>2
<1>20. ASSUME NEW w \in Workers, Checkpoint(w)
      PROVE  Reading(v)' /\ Asked(v)'
  <2>1. work'[w].at = "idle" /\ \A u \in Workers : u # w => work'[u] = work[u]
    BY <1>20, <1>0, Ends DEF Checkpoint, Idle
  <2>. QED  BY <2>1, <1>01, <1>02
<1>21. ASSUME NEW w \in Workers, AskLogged(w)
      PROVE  Reading(v)' /\ Asked(v)'
  <2>0. work[w].at \in {"apply", "replay"} /\ UNCHANGED <<logged, row, passed, ids>> /\ work[w].todo # {}
    BY <1>21 DEF AskLogged, Applying
  <2>1. CASE Known(First(w))
    <3>0. Set(w, With(w, work[w].at, work[w].todo \ {First(w)}, work[w].head))
      BY <1>21, <2>1 DEF AskLogged
    <3>1. /\ work'[w].at = work[w].at /\ work'[w].todo = work[w].todo \ {First(w)}
          /\ work'[w].head = work[w].head /\ work'[w].cursor = work[w].cursor
          /\ work'[w].id = work[w].id /\ work'[w].grant = work[w].grant
          /\ \A u \in Workers : u # w => work'[u] = work[u]
      BY <3>0, <1>0, Moves
    <3>2. CASE v = w
      <4>1. First(w) \in Seen /\ Seen' = Seen
        <5>1. First(w) \in Messages
          BY <2>0, <1>04, <3>2, FirstIsDue
        <5>. QED  BY <5>1, <2>0, <2>1 DEF Known, Seen
      <4>2. Reading(v)'
        BY <2>0, <3>1, <3>2, <4>1, <1>0 DEF Reading
      <4>3. Asked(v)'
        BY <2>0, <3>1, <3>2 DEF Asked
      <4>. QED  BY <4>2, <4>3
    <3>. QED  BY <3>1, <3>2, <1>01
  <2>2. CASE ~ Known(First(w))
    <3>0. Set(w, With(w, Logging(work[w].at), work[w].todo, work[w].head))
      BY <1>21, <2>2 DEF AskLogged
    <3>1. /\ work'[w].at = Logging(work[w].at) /\ work'[w].todo = work[w].todo
          /\ work'[w].head = work[w].head /\ work'[w].cursor = work[w].cursor
          /\ work'[w].id = work[w].id /\ work'[w].grant = work[w].grant
          /\ \A u \in Workers : u # w => work'[u] = work[u]
      BY <3>0, <1>0, Moves
    <3>2. CASE v = w
      <4>1. /\ \/ work'[v].at = "log" /\ work[v].at = "apply"
               \/ work'[v].at = "relog" /\ work[v].at = "replay"
            /\ Seen' = Seen
        BY <2>0, <3>1, <3>2 DEF Logging, Seen
      <4>2. Reading(v)'
        BY <2>0, <3>1, <3>2, <4>1, <1>0, <1>03 DEF Reading
      <4>3. First(w)' = First(w) /\ First(w) \in Messages
        BY <2>0, <3>1, <3>2, <1>04, FirstIsDue, FirstStays
      <4>4. logged[First(w)] = 0
        BY <2>2, <4>3, <1>0 DEF Known, Counts
      <4>5. Asked(v)'
        BY <2>0, <3>1, <3>2, <4>3, <4>4 DEF Asked
      <4>. QED  BY <4>2, <4>5
    <3>. QED  BY <3>1, <3>2, <1>01
  <2>. QED  BY <2>1, <2>2
<1>22. ASSUME NEW w \in Workers, LogTouch(w)
      PROVE  Reading(v)' /\ Asked(v)'
  <2>0. /\ work[w].at \in {"log", "relog"} /\ UNCHANGED <<row, passed, ids>>
        /\ logged' = [logged EXCEPT ![First(w)] = logged[First(w)] + 1]
        /\ Set(w, With(w, Next1(work[w].at), work[w].todo \ {First(w)}, work[w].head))
    BY <1>22 DEF LogTouch
  <2>1. /\ work'[w].at = Next1(work[w].at) /\ work'[w].todo = work[w].todo \ {First(w)}
        /\ work'[w].head = work[w].head /\ work'[w].cursor = work[w].cursor
        /\ work'[w].id = work[w].id /\ work'[w].grant = work[w].grant
        /\ \A u \in Workers : u # w => work'[u] = work[u]
    BY <2>0, <1>0, Moves
  <2>2. CASE v = w
    <3>1. First(w) \in Messages
      BY <2>0, <2>2, <1>0, <1>04, FirstIsDue DEF Asked
    <3>2. First(w) \in Seen'
      BY <2>0, <3>1, <1>0 DEF Seen, Counts
    <3>3. \/ work'[v].at = "apply" /\ work[v].at = "log"
          \/ work'[v].at = "replay" /\ work[v].at = "relog"
      BY <2>0, <2>1, <2>2 DEF Next1
    <3>4. Reading(v)'
      BY <2>0, <2>1, <2>2, <3>2, <3>3, <1>0, <1>03 DEF Reading
    <3>5. Asked(v)'
      BY <3>3 DEF Asked
    <3>. QED  BY <3>4, <3>5
  <2>. QED  BY <2>1, <2>2, <1>01
<1>23. ASSUME NEW w \in Workers, BeginBackfill(w)
      PROVE  Reading(v)' /\ Asked(v)'
  <2>0. Goto(w, "search") \/ Leave(w)
    BY <1>23 DEF BeginBackfill
  <2>1. work'[w].at \in {"idle", "search"} /\ \A u \in Workers : u # w => work'[u] = work[u]
    BY <2>0, <1>0, Moves, Ends DEF Goto, Idle
  <2>. QED  BY <2>1, <1>01, <1>02
<1>24. ASSUME NEW w \in Workers, Search(w)
      PROVE  Reading(v)' /\ Asked(v)'
  <2>. DEFINE todo == {m \in 1..arrived : m >= WindowStart}
  <2>0. Set(w, With(w, "replay", todo, work[w].head)) /\ UNCHANGED <<row, logged>>
    BY <1>24 DEF Search
  <2>. HIDE DEF todo
  <2>1. /\ work'[w].at = "replay" /\ work'[w].todo = todo /\ work'[w].head = work[w].head
        /\ work'[w].id = work[w].id /\ work'[w].grant = work[w].grant /\ work'[w].cursor = work[w].cursor
        /\ \A u \in Workers : u # w => work'[u] = work[u]
    BY <2>0, <1>0, Moves DEF Search, Goto
  <2>2. 1..arrived \subseteq Seen' \cup passed' \cup todo
    <3>1. \A m \in 1..arrived : m >= WindowStart \/ m < WindowStart
      BY WindowOpens, <1>04
    <3>2. passed' = passed \cup {m \in Unseen(arrived) : m < WindowStart} /\ Seen' = Seen
      BY <1>24 DEF Search, Seen
    <3>. QED  BY <3>1, <3>2 DEF todo, Unseen
  <2>3. 1..row'.cursor \subseteq 1..arrived
    BY <2>0, <1>0, <1>04 DEF Arrived
  <2>4. CASE v = w
    <3>1. Reading(v)'
      BY <2>1, <2>2, <2>3, <2>4 DEF Reading
    <3>2. Asked(v)'
      BY <2>1, <2>4 DEF Asked
    <3>. QED  BY <3>1, <3>2
  <2>. QED  BY <2>1, <2>4, <1>01
<1>25. ASSUME NEW w \in Workers, FinishBackfill(w)
      PROVE  Reading(v)' /\ Asked(v)'
  <2>1. work'[w].at = "idle" /\ \A u \in Workers : u # w => work'[u] = work[u]
    BY <1>25, <1>0, Ends DEF FinishBackfill, Idle
  <2>. QED  BY <2>1, <1>01, <1>02
<1>26. ASSUME NEW w \in Workers, FailBackfill(w)
      PROVE  Reading(v)' /\ Asked(v)'
  <2>1. work'[w].at = "idle" /\ \A u \in Workers : u # w => work'[u] = work[u]
    BY <1>26, <1>0, Ends DEF FailBackfill, Idle
  <2>. QED  BY <2>1, <1>01, <1>02
<1>. QED
  BY <1>1, <1>2, <1>3, <1>4, <1>5, <1>6, <1>7, <1>8, <1>9, <1>10, <1>11, <1>12,
     <1>13, <1>14, <1>15, <1>16, <1>17, <1>18, <1>19, <1>20, <1>21, <1>22, <1>23, <1>24,
     <1>25, <1>26
     DEF Next, Sync, Backfill, Apply, Connection

-----------------------------------------------------------------------------
(* Each step is a step of Mailbox or changes nothing it speaks of.          *)

\* Where nothing is logged nothing new is seen.
LEMMA SeenStays ==
    ASSUME logged' = logged
    PROVE  Seen' = Seen
BY DEF Seen

\* Nothing Mailbox speaks of changes.
LEMMA MapsQuiet ==
    ASSUME UNCHANGED <<arrived, logged, passed, grants>>,
           row'.cursor = row.cursor, row'.backfill = row.backfill
    PROVE  UNCHANGED Promise!mvars
BY SeenStays DEF Promise!mvars

\* A pass becomes owed, or stays so.
LEMMA MapsOwed ==
    ASSUME UNCHANGED <<arrived, logged, passed, grants>>,
           row'.cursor \in row.cursor..arrived, row'.backfill # "done"
    PROVE  Promise!Reanchor
BY SeenStays DEF Promise!Reanchor

\* A step of the workers, the connection or the mailbox, seen as a step of Mailbox.
LEMMA MailboxStep ==
    ASSUME SyncInv, Next
    PROVE  Promise!Next \/ UNCHANGED Promise!mvars
<1>. USE SyncAssumption DEF outside
<1>0. /\ RowOK /\ Counts /\ Working /\ Arrived /\ Given
      /\ row.cursor \in row.cursor..arrived /\ row.cursor \in Nat /\ arrived \in Nat
  BY SyncParts DEF RowOK, RowSet, Counts, Arrived
<1>1. ASSUME Arrive
      PROVE  Promise!Next \/ UNCHANGED Promise!mvars
  <2>1. Promise!Arrive
    BY <1>1, SeenStays DEF Arrive, Promise!Arrive
  <2>. QED  BY <2>1 DEF Promise!Next
<1>2. ASSUME GoStale
      PROVE  Promise!Next \/ UNCHANGED Promise!mvars
  <2>1. CASE row.backfill = "running"
    <3>1. row'.cursor = row.cursor /\ row'.backfill # "done"
      BY <1>2, <2>1, <1>0 DEF GoStale, RowOK, RowSet
    <3>2. Promise!Reanchor
      BY <1>2, <3>1, <1>0, MapsOwed DEF GoStale
    <3>. QED  BY <3>2 DEF Promise!Next
  <2>2. CASE ~ (row.backfill = "running")
    BY <1>2, <2>2, <1>0, MapsQuiet DEF GoStale, RowOK, RowSet
  <2>. QED  BY <2>1, <2>2
<1>3. ASSUME GiveConsent
      PROVE  Promise!Next \/ UNCHANGED Promise!mvars
  <2>1. Promise!Ask
    BY <1>3, SeenStays DEF GiveConsent, Promise!Ask
  <2>. QED  BY <2>1 DEF Promise!Next
<1>4. ASSUME StoreConnection
      PROVE  Promise!Next \/ UNCHANGED Promise!mvars
  <2>1. /\ row'.cursor = consent.head /\ consent.head \in 0..arrived /\ Seen' = Seen
        /\ UNCHANGED <<arrived, grants>>
    BY <1>4, <1>0, SeenStays DEF StoreConnection, Arrived, Counts, ConsentSet
  <2>2. CASE consent.sticky
    <3>1. grants > 1 /\ row'.backfill = "done" /\ passed' = passed \cup (1..row'.cursor \ Seen)
      BY <1>4, <2>1, <2>2, <1>0 DEF StoreConnection, Given, Unseen
    <3>. QED  BY <2>1, <3>1 DEF Promise!Next, Promise!Consent
  <2>3. CASE ~ consent.sticky
    <3>1. row'.backfill # "done" /\ passed' = passed
      BY <1>4, <2>3 DEF StoreConnection
    <3>. QED  BY <2>1, <3>1 DEF Promise!Next, Promise!Consent
  <2>. QED  BY <2>2, <2>3
<1>5. ASSUME NEW s \in {"gmail", "calendar"}, StartParting(s)
      PROVE  Promise!Next \/ UNCHANGED Promise!mvars
  BY <1>5, <1>0, MapsQuiet DEF StartParting, RowOK, RowSet
<1>6. ASSUME Revoke
      PROVE  Promise!Next \/ UNCHANGED Promise!mvars
  BY <1>6, <1>0, MapsQuiet DEF Revoke, RowOK, RowSet
<1>7. ASSUME Unconfirmed
      PROVE  Promise!Next \/ UNCHANGED Promise!mvars
  BY <1>7, <1>0, MapsQuiet DEF Unconfirmed, RowOK, RowSet
<1>8. ASSUME DeleteRow
      PROVE  Promise!Next \/ UNCHANGED Promise!mvars
  <2>1. CASE SameToken
    <3>1. row'.cursor = 0 /\ row'.backfill # "done" /\ Seen' = Seen /\ 0 \in 0..arrived
          /\ UNCHANGED <<arrived, grants, passed>>
      BY <1>8, <2>1, <1>0, SeenStays DEF DeleteRow, NoRow
    <3>. QED  BY <3>1 DEF Promise!Next, Promise!Consent
  <2>2. CASE ~ SameToken
    BY <1>8, <2>2, MapsQuiet DEF DeleteRow
  <2>. QED  BY <2>1, <2>2
<1>9. ASSUME ClearSibling
      PROVE  Promise!Next \/ UNCHANGED Promise!mvars
  BY <1>9, <1>0, MapsQuiet DEF ClearSibling, RowOK, RowSet
<1>10. ASSUME NEW w \in Workers, NEW job \in {"sync", "backfill"}, Load(w, job)
      PROVE  Promise!Next \/ UNCHANGED Promise!mvars
  BY <1>10, <1>0, MapsQuiet DEF Load, RowOK, RowSet
<1>11. ASSUME NEW w \in Workers, TryLock(w)
      PROVE  Promise!Next \/ UNCHANGED Promise!mvars
  BY <1>11, <1>0, MapsQuiet DEF TryLock, RowOK, RowSet
<1>12. ASSUME NEW w \in Workers, Skip(w)
      PROVE  Promise!Next \/ UNCHANGED Promise!mvars
  BY <1>12, <1>0, MapsQuiet DEF Skip, RowOK, RowSet
<1>13. ASSUME NEW w \in Workers, Crash(w)
      PROVE  Promise!Next \/ UNCHANGED Promise!mvars
  BY <1>13, <1>0, MapsQuiet DEF Crash, RowOK, RowSet
<1>14. ASSUME NEW w \in Workers, Defer(w)
      PROVE  Promise!Next \/ UNCHANGED Promise!mvars
  BY <1>14, <1>0, MapsQuiet DEF Defer, RowOK, RowSet
<1>15. ASSUME NEW w \in Workers, Refused(w)
      PROVE  Promise!Next \/ UNCHANGED Promise!mvars
  <2>1. CASE work[w].at = "search" /\ row.id = work[w].id
    <3>1. row'.cursor = row.cursor /\ row'.backfill # "done"
      BY <1>15, <2>1, <1>0 DEF Refused, RowOK, RowSet
    <3>2. Promise!Reanchor
      BY <1>15, <3>1, <1>0, MapsOwed DEF Refused
    <3>. QED  BY <3>2 DEF Promise!Next
  <2>2. CASE ~ (work[w].at = "search" /\ row.id = work[w].id)
    BY <1>15, <2>2, <1>0, MapsQuiet DEF Refused, RowOK, RowSet
  <2>. QED  BY <2>1, <2>2
<1>16. ASSUME NEW w \in Workers, List(w)
      PROVE  Promise!Next \/ UNCHANGED Promise!mvars
  BY <1>16, <1>0, MapsQuiet DEF List, RowOK, RowSet
<1>17. ASSUME NEW w \in Workers, Expired(w)
      PROVE  Promise!Next \/ UNCHANGED Promise!mvars
  BY <1>17, <1>0, MapsQuiet DEF Expired, RowOK, RowSet
<1>18. ASSUME NEW w \in Workers, Reanchor(w)
      PROVE  Promise!Next \/ UNCHANGED Promise!mvars
  <2>1. CASE OwnedRow(w)
    <3>1. row'.cursor = work[w].head /\ row'.backfill # "done"
      BY <1>18, <2>1, <1>0 DEF Reanchor, Requeued, RowOK, RowSet
    <3>2. row'.cursor \in row.cursor..arrived
      BY <1>18, <2>1, <3>1, <1>0, SyncParts DEF Reanchor, OwnedRow, Reading, Arrived, Working, WorkSet
    <3>3. Promise!Reanchor
      BY <1>18, <3>1, <3>2, MapsOwed DEF Reanchor
    <3>. QED  BY <3>3 DEF Promise!Next
  <2>2. CASE ~ OwnedRow(w)
    BY <1>18, <2>2, MapsQuiet DEF Reanchor
  <2>. QED  BY <2>1, <2>2
<1>19. ASSUME NEW w \in Workers, CheckOwned(w)
      PROVE  Promise!Next \/ UNCHANGED Promise!mvars
  BY <1>19, <1>0, MapsQuiet DEF CheckOwned, RowOK, RowSet
<1>20. ASSUME NEW w \in Workers, Checkpoint(w)
      PROVE  Promise!Next \/ UNCHANGED Promise!mvars
  <2>1. CASE OwnedRow(w)
    <3>1. row'.cursor = work[w].head /\ row'.backfill = row.backfill /\ Seen' = Seen
          /\ UNCHANGED <<arrived, passed, grants>>
      BY <1>20, <2>1, <1>0, SeenStays DEF Checkpoint, RowOK, RowSet
    <3>2. work[w].cursor = row.cursor /\ work[w].head \in row.cursor..arrived
      BY <1>20, <2>1, <1>0, SyncParts DEF Checkpoint, OwnedRow, Reading, Arrived, Working, WorkSet
    <3>3. (row.cursor + 1)..work[w].head \subseteq Seen
      BY <1>20, <3>2, SyncParts DEF Checkpoint, Reading
    <3>. QED  BY <3>1, <3>2, <3>3 DEF Promise!Next, Promise!Advance
  <2>2. CASE ~ OwnedRow(w)
    BY <1>20, <2>2, MapsQuiet DEF Checkpoint
  <2>. QED  BY <2>1, <2>2
<1>21. ASSUME NEW w \in Workers, AskLogged(w)
      PROVE  Promise!Next \/ UNCHANGED Promise!mvars
  BY <1>21, <1>0, MapsQuiet DEF AskLogged, RowOK, RowSet
<1>22. ASSUME NEW w \in Workers, LogTouch(w)
      PROVE  Promise!Next \/ UNCHANGED Promise!mvars
  <2>1. First(w) \in 1..arrived /\ First(w) \in Messages
    BY <1>22, <1>0, SyncParts, FirstIsDue DEF LogTouch, Asked, Arrived, Working, WorkSet
  <2>2. logged' = [logged EXCEPT ![First(w)] = logged[First(w)] + 1]
        /\ UNCHANGED <<arrived, row, passed, grants>>
    BY <1>22 DEF LogTouch
  <2>3. /\ logged'[First(w)] = logged[First(w)] + 1 /\ logged[First(w)] \in Nat
        /\ \A m \in Messages \ {First(w)} : logged'[m] = logged[m]
    BY <2>1, <2>2, <1>0 DEF Counts
  <2>4. Seen' = Seen \cup {First(w)}
    BY <2>1, <2>3 DEF Seen
  <2>. QED  BY <2>1, <2>2, <2>4 DEF Promise!Next, Promise!Capture
<1>23. ASSUME NEW w \in Workers, BeginBackfill(w)
      PROVE  Promise!Next \/ UNCHANGED Promise!mvars
  <2>1. \/ row' = [row EXCEPT !.backfill = "running"]
        \/ row' = row
    BY <1>23 DEF BeginBackfill
  <2>2. CASE row' = [row EXCEPT !.backfill = "running"]
    <3>1. row'.cursor = row.cursor /\ row'.backfill # "done"
      BY <2>2, <1>0 DEF RowOK, RowSet
    <3>2. Promise!Reanchor
      BY <1>23, <3>1, <1>0, MapsOwed DEF BeginBackfill
    <3>. QED  BY <3>2 DEF Promise!Next
  <2>3. CASE row' = row
    BY <1>23, <2>3, MapsQuiet DEF BeginBackfill
  <2>. QED  BY <2>1, <2>2, <2>3
<1>24. ASSUME NEW w \in Workers, Search(w)
      PROVE  Promise!Next \/ UNCHANGED Promise!mvars
  <2>1. /\ passed' = passed \cup {m \in Unseen(arrived) : m < WindowStart} /\ Seen' = Seen
        /\ UNCHANGED <<arrived, row, grants>>
    BY <1>24, SeenStays DEF Search
  <2>2. Unseen(arrived) \subseteq Messages
    BY <1>0 DEF Counts, Unseen, Messages
  <2>3. \A m \in passed' \ passed : \E n \in Seen : m < n
    BY <2>1, <2>2, WindowHasTouch
  <2>. QED  BY <2>1, <2>3 DEF Promise!Next, Promise!Narrow
<1>25. ASSUME NEW w \in Workers, FinishBackfill(w)
      PROVE  Promise!Next \/ UNCHANGED Promise!mvars
  <2>0. work[w].todo = {} /\ Seen' = Seen /\ UNCHANGED <<arrived, grants>>
    BY <1>25, SeenStays DEF FinishBackfill
  <2>1. CASE row.id # work[w].id
    BY <1>25, <2>1, MapsQuiet DEF FinishBackfill
  <2>2. CASE row.id = work[w].id
    <3>1. row'.cursor = row.cursor /\ row'.backfill = "done"
      BY <1>25, <2>2, <1>0 DEF FinishBackfill, RowOK, RowSet
    <3>2. CASE row.grant = work[w].grant
      <4>1. passed' = passed /\ 1..row.cursor \subseteq Seen \cup passed
        BY <1>25, <2>0, <2>2, <3>2, SyncParts DEF FinishBackfill, Reading
      <4>. QED  BY <2>0, <3>1, <4>1 DEF Promise!Next, Promise!Settle, Promise!Behind
    <3>3. CASE row.grant # work[w].grant
      <4>1. passed' = passed \cup (1..row.cursor \ Seen)
        BY <1>25, <2>2, <3>3 DEF FinishBackfill, Unseen
      <4>2. grants > 1
        <5>1. /\ work[w].grant \in Nat /\ row.grant \in Nat /\ grants \in Nat
              /\ work[w].grant >= 1 /\ work[w].grant <= grants /\ row.grant <= grants /\ work[w].id # 0
          BY <1>25, <1>0, SyncParts DEF FinishBackfill, Given, Loaded, Counts, Ids,
             Working, WorkSet, RowOK, RowSet
        <5>2. row.grant >= 1
          BY <5>1, <2>2, <1>0 DEF Given
        <5>. QED  BY <5>1, <5>2, <3>3
      <4>. QED  BY <2>0, <3>1, <4>1, <4>2 DEF Promise!Next, Promise!Settle, Promise!Behind
    <3>. QED  BY <3>2, <3>3
  <2>. QED  BY <2>1, <2>2
<1>26. ASSUME NEW w \in Workers, FailBackfill(w)
      PROVE  Promise!Next \/ UNCHANGED Promise!mvars
  <2>1. CASE row.id = work[w].id
    <3>1. row'.cursor = row.cursor /\ row'.backfill # "done"
      BY <1>26, <2>1, <1>0 DEF FailBackfill, RowOK, RowSet
    <3>2. Promise!Reanchor
      BY <1>26, <3>1, <1>0, MapsOwed DEF FailBackfill
    <3>. QED  BY <3>2 DEF Promise!Next
  <2>2. CASE ~ (row.id = work[w].id)
    BY <1>26, <2>2, <1>0, MapsQuiet DEF FailBackfill, RowOK, RowSet
  <2>. QED  BY <2>1, <2>2
<1>. QED
  BY <1>1, <1>2, <1>3, <1>4, <1>5, <1>6, <1>7, <1>8, <1>9, <1>10, <1>11, <1>12,
     <1>13, <1>14, <1>15, <1>16, <1>17, <1>18, <1>19, <1>20, <1>21, <1>22, <1>23, <1>24,
     <1>25, <1>26
     DEF Next, Sync, Backfill, Apply, Connection

-----------------------------------------------------------------------------
(* The properties.                                                         *)

\* Nothing behind the cursor is forgotten by a step of Mailbox.
LEMMA GapStep ==
    ASSUME SyncInv, Next
    PROVE  NoGap'
<1>0. /\ NoGap /\ row.cursor \in Nat /\ arrived \in Nat
  BY SyncParts DEF RowOK, RowSet, Counts, SyncInv
<1>. USE DEF NoGap, Promise!NoGap, Promise!Behind
<1>1. CASE UNCHANGED Promise!mvars
  BY <1>1, <1>0 DEF Promise!mvars
<1>2. CASE Promise!Arrive
  BY <1>2, <1>0 DEF Promise!Arrive
<1>3. CASE Promise!Capture
  BY <1>3, <1>0 DEF Promise!Capture
<1>4. CASE Promise!Advance
  <2>1. PICK h \in row.cursor..arrived :
            /\ (row.cursor + 1)..h \subseteq Seen /\ row'.cursor = h
            /\ Seen' = Seen /\ passed' = passed
            /\ (row'.backfill # "done") = (row.backfill # "done")
    BY <1>4 DEF Promise!Advance
  <2>2. 1..h \subseteq 1..row.cursor \cup (row.cursor + 1)..h
    BY <1>0
  <2>. QED  BY <2>1, <2>2, <1>0
<1>5. CASE Promise!Reanchor
  BY <1>5 DEF Promise!Reanchor
<1>6. CASE Promise!Narrow
  BY <1>6, <1>0 DEF Promise!Narrow
<1>7. CASE Promise!Settle
  BY <1>7, <1>0 DEF Promise!Settle
<1>8. CASE Promise!Ask
  BY <1>8, <1>0 DEF Promise!Ask
<1>9. CASE Promise!Consent
  BY <1>9, <1>0 DEF Promise!Consent
<1>. QED
  BY <1>1, <1>2, <1>3, <1>4, <1>5, <1>6, <1>7, <1>8, <1>9, MailboxStep DEF Promise!Next

\* A touch is logged only where none is, while there has been one row.
LEMMA OnceStep ==
    ASSUME SyncInv, Next
    PROVE  LoggedOnce'
<1>0. LoggedOnce /\ Counts /\ Counts' /\ ids <= ids' /\ Working
  BY SyncParts, CursorStep, TypeStep DEF SyncInv, Forward, Counts, TypeOK
<1>. SUFFICES ASSUME ids' <= 1
              PROVE  \A m \in Messages : logged'[m] <= 1
  BY DEF LoggedOnce
<1>1. ids <= 1
  BY <1>0 DEF Counts, Ids
<1>2. CASE logged' = logged
  BY <1>0, <1>1, <1>2 DEF LoggedOnce
<1>3. ASSUME NEW w \in Workers, LogTouch(w)
      PROVE  \A m \in Messages : logged'[m] <= 1
  <2>1. logged[First(w)] = 0
    BY <1>1, <1>3, SyncParts DEF LogTouch, Asked
  <2>2. logged' = [logged EXCEPT ![First(w)] = logged[First(w)] + 1]
    BY <1>3 DEF LogTouch
  <2>. QED  BY <2>1, <2>2, <1>0, <1>1 DEF Counts, LoggedOnce
<1>. QED  BY <1>2, <1>3, LoggedStep

\* The invariant holds before anything is connected.
LEMMA SyncInitially == Init => SyncInv
<1>. SUFFICES ASSUME Init
              PROVE  SyncInv
  OBVIOUS
<1>. USE SyncAssumption DEF Init
<1>1. TypeOK
  BY DEF TypeOK, RowSet, NoRow, Ids, WorkSet, Idle, ConsentSet, NoConsent,
     PartingSet, NoParting, Holders, Held, Messages
<1>2. Arrived /\ Given
  BY DEF Arrived, Given, NoRow, Idle, NoConsent, NoParting
<1>3. ASSUME NEW w \in Workers
      PROVE  Loaded(w) /\ Reading(w) /\ Asked(w)
  BY DEF Loaded, Reading, Asked, Idle, NoConsent
<1>4. NoGap
  BY DEF NoGap, Promise!NoGap, NoRow
<1>5. LoggedOnce
  BY DEF LoggedOnce, Messages
<1>. QED  BY <1>1, <1>2, <1>3, <1>4, <1>5 DEF SyncInv

\* Every step keeps the invariant.
LEMMA SyncStep == SyncInv /\ [Next]_vars => SyncInv'
<1>. SUFFICES ASSUME SyncInv, [Next]_vars
              PROVE  SyncInv'
  OBVIOUS
<1>1. CASE Next
  BY <1>1, TypeStep, ArrivedStep, GivenStep, LoadedStep, ReadStep, GapStep, OnceStep DEF SyncInv
<1>2. CASE UNCHANGED vars
  <2>1. TypeOK'
    BY <1>2, TypeStep DEF SyncInv
  <2>2. Arrived' /\ Given' /\ \A w \in Workers : Loaded(w)' /\ Reading(w)' /\ Asked(w)'
    BY <1>2 DEF vars, SyncInv, Arrived, Given, Loaded, Reading, Asked, Seen, First
  <2>3. NoGap' /\ LoggedOnce'
    BY <1>2 DEF vars, SyncInv, NoGap, Promise!NoGap, Promise!Behind, LoggedOnce, Seen
  <2>. QED  BY <2>1, <2>2, <2>3 DEF SyncInv
<1>. QED  BY <1>1, <1>2

\* The invariant always holds.
LEMMA SyncAlways == Spec => []SyncInv
BY SyncInitially, SyncStep, PTL DEF Spec

\* Live capture keeps the promise of Mailbox: each step of a sync, a pass, a
\* consent or a disconnect is one of its steps, or changes nothing it speaks of.
THEOREM MailboxSpecHolds == Spec => MailboxSpec
<1>1. Init => Promise!Init
  BY DEF Init, Promise!Init, NoRow, Seen
<1>2. SyncInv /\ [Next]_vars => [Promise!Next]_(Promise!mvars)
  <2>. SUFFICES ASSUME SyncInv, [Next]_vars
                PROVE  Promise!Next \/ UNCHANGED Promise!mvars
    OBVIOUS
  <2>1. CASE Next
    BY <2>1, MailboxStep
  <2>2. CASE UNCHANGED vars
    BY <2>2, MapsQuiet DEF vars
  <2>. QED  BY <2>1, <2>2
<1>. QED  BY <1>1, <1>2, SyncAlways, PTL DEF Spec, MailboxSpec, Promise!Spec

\* Nothing behind the cursor is forgotten, whatever crashes and reconnects.
THEOREM NoGapHolds == Spec => []NoGap
BY SyncAlways, PTL DEF SyncInv

\* A message is logged once while the mailbox keeps its row.
THEOREM LoggedOnceHolds == Spec => []LoggedOnce
BY SyncAlways, PTL DEF SyncInv

\* Revoked is said only of a token Google no longer honours.
DeadRevoked ==
    row.status = "active" /\ row'.id = row.id /\ row'.status = "revoked"
        => row.grant \notin honoured /\ row'.grant = row.grant

\* A step that marks the row revoked had a dead token in it.
LEMMA RevokeStep ==
    ASSUME SyncInv, Next
    PROVE  DeadRevoked
<1>. USE DEF outside
<1>0. RowOK /\ Counts /\ Given
  BY SyncParts
<1>1. ASSUME Arrive
      PROVE  DeadRevoked
  BY <1>1, <1>0 DEF Arrive, DeadRevoked, RowOK, RowSet
<1>2. ASSUME GoStale
      PROVE  DeadRevoked
  BY <1>2, <1>0 DEF GoStale, DeadRevoked, RowOK, RowSet
<1>3. ASSUME GiveConsent
      PROVE  DeadRevoked
  BY <1>3, <1>0 DEF GiveConsent, DeadRevoked, RowOK, RowSet
<1>4. ASSUME StoreConnection
      PROVE  DeadRevoked
  BY <1>4, <1>0 DEF StoreConnection, DeadRevoked, RowOK, RowSet
<1>5. ASSUME NEW s \in {"gmail", "calendar"}, StartParting(s)
      PROVE  DeadRevoked
  BY <1>5, <1>0 DEF StartParting, DeadRevoked, RowOK, RowSet
<1>6. ASSUME Revoke
      PROVE  DeadRevoked
  BY <1>6, <1>0 DEF Revoke, DeadRevoked, RowOK, RowSet
<1>7. ASSUME Unconfirmed
      PROVE  DeadRevoked
  BY <1>7, <1>0 DEF Unconfirmed, DeadRevoked, RowOK, RowSet
<1>8. ASSUME DeleteRow
      PROVE  DeadRevoked
  BY <1>8, <1>0 DEF DeleteRow, DeadRevoked, RowOK, RowSet, NoRow
<1>9. ASSUME ClearSibling
      PROVE  DeadRevoked
  BY <1>9, <1>0 DEF ClearSibling, DeadRevoked, RowOK, RowSet, SameToken, Given
<1>10. ASSUME NEW w \in Workers, NEW job \in {"sync", "backfill"}, Load(w, job)
      PROVE  DeadRevoked
  BY <1>10, <1>0 DEF Load, DeadRevoked, RowOK, RowSet
<1>11. ASSUME NEW w \in Workers, TryLock(w)
      PROVE  DeadRevoked
  BY <1>11, <1>0 DEF TryLock, DeadRevoked, RowOK, RowSet
<1>12. ASSUME NEW w \in Workers, Skip(w)
      PROVE  DeadRevoked
  BY <1>12, <1>0 DEF Skip, DeadRevoked, RowOK, RowSet
<1>13. ASSUME NEW w \in Workers, Crash(w)
      PROVE  DeadRevoked
  BY <1>13, <1>0 DEF Crash, DeadRevoked, RowOK, RowSet
<1>14. ASSUME NEW w \in Workers, Defer(w)
      PROVE  DeadRevoked
  BY <1>14, <1>0 DEF Defer, DeadRevoked, RowOK, RowSet
<1>15. ASSUME NEW w \in Workers, Refused(w)
      PROVE  DeadRevoked
  BY <1>15, <1>0 DEF Refused, DeadRevoked, RowOK, RowSet, OwnedRow, OwnedGrant
<1>16. ASSUME NEW w \in Workers, List(w)
      PROVE  DeadRevoked
  BY <1>16, <1>0 DEF List, DeadRevoked, RowOK, RowSet
<1>17. ASSUME NEW w \in Workers, Expired(w)
      PROVE  DeadRevoked
  BY <1>17, <1>0 DEF Expired, DeadRevoked, RowOK, RowSet
<1>18. ASSUME NEW w \in Workers, Reanchor(w)
      PROVE  DeadRevoked
  BY <1>18, <1>0 DEF Reanchor, DeadRevoked, RowOK, RowSet
<1>19. ASSUME NEW w \in Workers, CheckOwned(w)
      PROVE  DeadRevoked
  BY <1>19, <1>0 DEF CheckOwned, DeadRevoked, RowOK, RowSet
<1>20. ASSUME NEW w \in Workers, Checkpoint(w)
      PROVE  DeadRevoked
  BY <1>20, <1>0 DEF Checkpoint, DeadRevoked, RowOK, RowSet
<1>21. ASSUME NEW w \in Workers, AskLogged(w)
      PROVE  DeadRevoked
  BY <1>21, <1>0 DEF AskLogged, DeadRevoked, RowOK, RowSet
<1>22. ASSUME NEW w \in Workers, LogTouch(w)
      PROVE  DeadRevoked
  BY <1>22, <1>0 DEF LogTouch, DeadRevoked, RowOK, RowSet
<1>23. ASSUME NEW w \in Workers, BeginBackfill(w)
      PROVE  DeadRevoked
  BY <1>23, <1>0 DEF BeginBackfill, DeadRevoked, RowOK, RowSet
<1>24. ASSUME NEW w \in Workers, Search(w)
      PROVE  DeadRevoked
  BY <1>24, <1>0 DEF Search, DeadRevoked, RowOK, RowSet
<1>25. ASSUME NEW w \in Workers, FinishBackfill(w)
      PROVE  DeadRevoked
  BY <1>25, <1>0 DEF FinishBackfill, DeadRevoked, RowOK, RowSet
<1>26. ASSUME NEW w \in Workers, FailBackfill(w)
      PROVE  DeadRevoked
  BY <1>26, <1>0 DEF FailBackfill, DeadRevoked, RowOK, RowSet
<1>. QED
  BY <1>1, <1>2, <1>3, <1>4, <1>5, <1>6, <1>7, <1>8, <1>9, <1>10, <1>11, <1>12,
     <1>13, <1>14, <1>15, <1>16, <1>17, <1>18, <1>19, <1>20, <1>21, <1>22, <1>23, <1>24,
     <1>25, <1>26
     DEF Next, Sync, Backfill, Apply, Connection

\* A live token is never cleared, by a late disconnect or by a refused one's answer.
THEOREM OnlyDeadRevokedHolds == Spec => OnlyDeadRevoked
<1>1. SyncInv /\ [Next]_vars => [DeadRevoked]_vars
  BY RevokeStep
<1>. QED  BY <1>1, SyncAlways, PTL DEF Spec, OnlyDeadRevoked, DeadRevoked

=============================================================================
