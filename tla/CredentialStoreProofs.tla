------------------------ MODULE CredentialStoreProofs ------------------------
(***************************************************************************)
(* Proofs about CredentialStore, for any number of handlers, keys, ids and *)
(* operations.                                                             *)
(***************************************************************************)
EXTENDS CredentialStore, FiniteSetTheorems, WellFoundedInduction, TLAPS

(* Where a credential that was durable may be: in the pool, or in the      *)
(* hands of a roll back, or in the bin and then on disk as well, or about  *)
(* to be.                                                                  *)
At(place, i) == \E t \in Threads : pc[t] = place /\ on[t] = i
StoredSafe ==
    \A i \in stored :
        pool[i] > 0 \/ At("putBack", i) \/ (bin[i] > 0 /\ (binFile[i] > 0 \/ At("deleteTrash", i)))

(* The file has the pool's property too, because a restart loads it.       *)
NoTwinsOnDisk ==
    \A i, j \in Holds(poolFile) : (i # j /\ keyOf[i] = keyOf[j]) => {i, j} \cap twins # {}

IInv == TypeOK /\ NextIdFresh /\ StoredSafe /\ NoUnwantedTwins /\ NoTwinsOnDisk

(* The Max of the community modules is a maximum.                          *)
LEMMA MaxOfBounded ==
    ASSUME NEW n \in Nat, NEW S \in SUBSET (0..n), S # {}
    PROVE  Max(S) \in S /\ \A y \in S : Max(S) >= y
<1> DEFINE D == {n - y : y \in S}
<1>1. D \subseteq Nat /\ D # {}
  <2>1. \A y \in S : n - y \in Nat
    OBVIOUS
  <2>2. PICK y \in S : TRUE
    OBVIOUS
  <2>3. n - y \in D
    OBVIOUS
  <2> QED
    BY <2>1, <2>3, Zenon
<1>2. PICK d \in D : \A e \in D : ~ (<<e, d>> \in OpToRel(<, Nat))
  BY <1>1, NatLessThanWellFounded, WFMin
<1>3. \A e \in D : ~ (e < d)
  BY <1>1, <1>2 DEF OpToRel
<1>4. PICK x \in S : d = n - x
  OBVIOUS
<1>5. ASSUME NEW y \in S PROVE x >= y
  <2>1. n - y \in D /\ ~ (n - y < n - x)
    BY <1>3, <1>4
  <2> QED
    BY <2>1
<1> QED
  BY <1>5 DEF Max

(* new() hands out ids above every id it has read.                         *)
LEMMA FirstIdAbove ==
    ASSUME TypeOK
    PROVE  /\ FirstId \in 1..MaxId + 1
           /\ \A i \in Holds(poolFile) \cup Holds(binFile) : i < FirstId
<1> DEFINE S == {0} \cup Holds(poolFile) \cup Holds(binFile)
<1>1. S \in SUBSET (0..MaxId) /\ S # {}
  BY StoreBounds DEF Holds, Ids
<1>2. Max(S) \in S /\ \A y \in S : Max(S) >= y
  BY <1>1, StoreBounds, MaxOfBounded
<1>3. FirstId = Max(S) + 1
  BY Zenon DEF FirstId
<1> DEFINE m == Max(S)
<1> HIDE DEF m
<1>4. m \in S /\ (\A y \in S : m >= y) /\ FirstId = m + 1
  BY <1>2, <1>3 DEF m
<1>5. m \in 0..MaxId /\ FirstId \in 1..MaxId + 1
  BY <1>1, <1>4, StoreBounds
<1>6. ASSUME NEW i \in S PROVE i < FirstId
  BY <1>1, <1>4, <1>5
<1> QED
  BY <1>5, <1>6

(* No step leaves the types.                                               *)
LEMMA TypeKept ==
    ASSUME IInv, [Next]_vars
    PROVE  TypeOK'
<1>0. TypeOK
  BY DEF IInv
<1> USE <1>0, StoreBounds DEF TypeOK, Steps, Start
<1>a. 1 \in Ids /\ 0 \in Nat /\ 1 \in Nat
  BY DEF Ids
<1>1. ASSUME NEW t \in Threads, NEW k \in Keys, NEW d \in BOOLEAN, AddChecks(t, k, d) PROVE TypeOK'
  <2>1. [key |-> k, duplicate |-> d] \in [key : Keys, duplicate : BOOLEAN]
    OBVIOUS
  <2>2. request' \in [Threads -> SUBSET [key : Keys, duplicate : BOOLEAN]]
    BY <1>1, <2>1 DEF AddChecks
  <2> QED
    BY <1>1, <1>a, <2>2 DEF AddChecks, places, files, ids, requests, history
<1>b. ASSUME NEW t \in Threads, AddInvalid(t) PROVE TypeOK'
  BY <1>b DEF AddInvalid, places, files, ids, requests, history
<1>2. ASSUME NEW t \in Threads, NEW r \in request[t], NEW k \in Keys, AddPushes(t, r, k) PROVE TypeOK'
  <2>1. nextId' \in 1..MaxId + 1 /\ nextId \in Ids /\ request' \in [Threads -> SUBSET [key : Keys, duplicate : BOOLEAN]]
    BY <1>2 DEF AddPushes, Ids
  <2>2. CASE RefusedNow(r, k)
    BY <1>2, <2>1, <2>2 DEF AddPushes, files, requests
  <2>3. CASE ~RefusedNow(r, k)
    <3>1. pool' \in [Ids -> Nat] /\ keyOf' \in [Ids -> Keys] /\ twins' \subseteq Ids
      <4>1. pool' = [pool EXCEPT ![nextId] = 1] /\ keyOf' = [keyOf EXCEPT ![nextId] = k]
        BY <1>2, <2>3 DEF AddPushes
      <4>2. twins' \subseteq twins \cup {nextId}
        BY <1>2, <2>3 DEF AddPushes
      <4> QED
        BY <1>a, <2>1, <4>1, <4>2
    <3>2. pc' \in [Threads -> Steps] /\ on' \in [Threads -> Ids]
      BY <1>2, <2>1, <2>3 DEF AddPushes
    <3> QED
      BY <1>2, <2>1, <3>1, <3>2 DEF AddPushes, files, requests
  <2> QED
    BY <2>2, <2>3
<1>3. ASSUME NEW t \in Threads, NEW i \in Ids, DeleteCredential(t, i) PROVE TypeOK'
  BY <1>3 DEF DeleteCredential, Found, files, ids, history
<1>4. ASSUME NEW t \in Threads, NEW i \in Ids, NEW force \in BOOLEAN, RestoreCredential(t, i, force)
      PROVE TypeOK'
  BY <1>4 DEF RestoreCredential, Found, files, ids, requests
<1>5. ASSUME NEW t \in Threads, NEW i \in Ids, PurgeCredential(t, i) PROVE TypeOK'
  BY <1>5 DEF PurgeCredential, Found, files, ids, requests
<1>6. ASSUME NEW t \in Threads, NEW gone \in SUBSET Ids, PurgeTrash(t, gone) PROVE TypeOK'
  BY <1>6 DEF PurgeTrash, files, ids, requests
<1>7. ASSUME NEW t \in Threads, PersistElsewhere(t, 1) PROVE TypeOK'
  BY <1>7, <1>a DEF PersistElsewhere, places, files, ids, requests, history
<1>8. ASSUME NEW t \in Threads, PersistOnly(t) \/ DeleteWritesPool(t) PROVE TypeOK'
  BY <1>8 DEF PersistOnly, DeleteWritesPool, PoolWritten, PoolNotWritten, Holds, places, ids, requests
<1>9. ASSUME NEW t \in Threads, DeleteWritesTrash(t) PROVE TypeOK'
  <2>1. CASE binFile' = bin /\ pc' = [pc EXCEPT ![t] = "deletePool"] /\ UNCHANGED bin
    BY <1>9, <2>1 DEF DeleteWritesTrash, ids, requests, history
  <2>2. CASE AfterTrashFails(t) /\ UNCHANGED binFile
    <3>1. bin' \in [Ids -> Nat] /\ pc' \in [Threads -> Steps]
      <4>1. on[t] \in Ids
        OBVIOUS
      <4>2. CASE bin[on[t]] > 0
        BY <2>2, <4>1, <4>2 DEF AfterTrashFails, RollBack
      <4>3. CASE ~(bin[on[t]] > 0)
        BY <2>2, <4>3 DEF AfterTrashFails, RollBack
      <4> QED
        BY <4>2, <4>3
    <3> QED
      BY <1>9, <2>2, <3>1 DEF DeleteWritesTrash, ids, requests, history
  <2> QED
    BY <1>9, <2>1, <2>2 DEF DeleteWritesTrash
<1>c. ASSUME NEW t \in Threads, PutBack(t) PROVE TypeOK'
  BY <1>c DEF PutBack, files, ids, requests
<1>10. ASSUME NEW t \in Threads, RestoreWritesPool(t) PROVE TypeOK'
  BY <1>10 DEF RestoreWritesPool, PoolWritten, PoolNotWritten, Holds, places, ids, requests
<1>11. ASSUME NEW t \in Threads, WritesTrash(t) PROVE TypeOK'
  BY <1>11 DEF WritesTrash, places, ids, requests, history
<1>12. ASSUME NEW i \in Ids, BeginRequest(i) \/ ReportCooldown(i) \/ CooldownExpires(i) PROVE TypeOK'
  <2>1. ops < MaxOps => ops + 1 \in 0..MaxOps
    OBVIOUS
  <2> QED
    BY <1>12, <2>1 DEF BeginRequest, ReportCooldown, CooldownExpires, places, files, ids, threads, history
<1>13. CASE SaveCooldowns
  BY <1>13 DEF SaveCooldowns, places, files, ids, threads, history
<1>14. CASE CrashAndStart
  BY <1>14, FirstIdAbove DEF CrashAndStart, files, Holds
<1>15. CASE UNCHANGED vars
  BY <1>15 DEF vars, places, files, ids, requests, threads, history
<1> QED
  BY <1>1, <1>b, <1>2, <1>3, <1>4, <1>5, <1>6, <1>7, <1>8, <1>9, <1>c, <1>10, <1>11, <1>12, <1>13, <1>14, <1>15
     DEF Next, Operation, Write

(* Only add_credential brings an id into a place; all other operations and *)
(* writes move ids that are already in one.                                *)
Held == Holds(pool) \cup Holds(bin) \cup InHands \cup Holds(poolFile) \cup Holds(binFile)

(* What a step that leaves thread t at s has in hand, it had before.       *)
LEMMA HandsKept ==
    ASSUME TypeOK, NEW t \in Threads, NEW s, s # "putBack", pc' = [pc EXCEPT ![t] = s],
           on' = on \/ \E k \in Ids : on' = [on EXCEPT ![t] = k]
    PROVE  InHands' \subseteq InHands
<1> SUFFICES ASSUME NEW i \in Ids, NEW u \in Threads, pc'[u] = "putBack", on'[u] = i
             PROVE i \in InHands
  BY DEF InHands, Carrying
<1>1. u # t
  BY DEF TypeOK
<1>2. pc[u] = "putBack" /\ on[u] = i
  BY <1>1 DEF TypeOK
<1> QED
  BY <1>2 DEF InHands, Carrying

LEMMA MovedIdsAreOld ==
    ASSUME IInv, [Next]_vars,
           ~ \E t \in Threads : \E r \in request[t], k \in Keys : AddPushes(t, r, k)
    PROVE  Held' \subseteq Held
<1> DEFINE Placed == Holds(pool) \cup Holds(bin) \cup Holds(poolFile) \cup Holds(binFile)
<1>0. TypeOK
  BY DEF IInv
<1>a. 1 \in Ids
  BY StoreBounds DEF Ids
<1>b. ASSUME Placed' \subseteq Held, InHands' \subseteq Held PROVE Held' \subseteq Held
  BY <1>b DEF Held
<1>c. ASSUME NEW t \in Threads, NEW s, s # "putBack", pc' = [pc EXCEPT ![t] = s],
             on' = on \/ \E k \in Ids : on' = [on EXCEPT ![t] = k], Placed' \subseteq Placed
      PROVE  Held' \subseteq Held
  BY <1>0, <1>c, HandsKept DEF Held
<1>d. ASSUME UNCHANGED <<pc, on>>, Placed' \subseteq Placed PROVE Held' \subseteq Held
  BY <1>d DEF Held, InHands, Carrying
<1>1. ASSUME NEW t \in Threads, NEW k \in Keys, NEW d \in BOOLEAN, AddChecks(t, k, d) PROVE Held' \subseteq Held
  BY <1>1, <1>a, <1>c DEF AddChecks, Start, places, files, Holds
<1>2. ASSUME NEW t \in Threads, AddInvalid(t) PROVE Held' \subseteq Held
  BY <1>2, <1>c DEF AddInvalid, places, files, Holds
<1>3. ASSUME NEW t \in Threads, NEW i \in Ids, DeleteCredential(t, i) PROVE Held' \subseteq Held
  <2>1. Placed' \subseteq Placed
    BY <1>0, <1>3 DEF DeleteCredential, Found, files, TypeOK, Holds
  <2> QED
    BY <1>3, <1>c, <2>1 DEF DeleteCredential, Start
<1>4. ASSUME NEW t \in Threads, NEW i \in Ids, NEW force \in BOOLEAN, RestoreCredential(t, i, force)
      PROVE Held' \subseteq Held
  <2>1. Placed' \subseteq Placed
    BY <1>0, <1>4 DEF RestoreCredential, Found, files, TypeOK, Holds
  <2> QED
    BY <1>4, <1>c, <2>1 DEF RestoreCredential, Start
<1>5. ASSUME NEW t \in Threads, NEW i \in Ids, PurgeCredential(t, i) PROVE Held' \subseteq Held
  <2>1. Placed' \subseteq Placed
    BY <1>0, <1>5 DEF PurgeCredential, Found, files, TypeOK, Holds
  <2> QED
    BY <1>5, <1>c, <2>1 DEF PurgeCredential, Start
<1>6. ASSUME NEW t \in Threads, NEW gone \in SUBSET Ids, PurgeTrash(t, gone) PROVE Held' \subseteq Held
  <2>1. Placed' \subseteq Placed
    BY <1>0, <1>6 DEF PurgeTrash, files, TypeOK, Holds
  <2>2. (CHOOSE i \in gone : TRUE) \in Ids
    BY <1>6 DEF PurgeTrash
  <2> QED
    BY <1>6, <1>c, <2>1, <2>2 DEF PurgeTrash, Start
<1>7. ASSUME NEW t \in Threads, PersistElsewhere(t, 1) PROVE Held' \subseteq Held
  BY <1>7, <1>a, <1>c DEF PersistElsewhere, Start, places, files, Holds
<1>8. ASSUME NEW t \in Threads, PersistOnly(t) \/ DeleteWritesPool(t) \/ RestoreWritesPool(t)
      PROVE Held' \subseteq Held
  <2>1. Placed' \subseteq Placed
    BY <1>8 DEF PersistOnly, DeleteWritesPool, RestoreWritesPool, PoolWritten, PoolNotWritten, places, Holds
  <2> QED
    BY <1>8, <1>c, <2>1 DEF PersistOnly, DeleteWritesPool, RestoreWritesPool
<1>9. ASSUME NEW t \in Threads, DeleteWritesTrash(t) PROVE Held' \subseteq Held
  <2>0. UNCHANGED <<pool, poolFile, on>> /\ on[t] \in Ids
    BY <1>0, <1>9 DEF DeleteWritesTrash, TypeOK
  <2>1. CASE binFile' = bin /\ pc' = [pc EXCEPT ![t] = "deletePool"] /\ UNCHANGED bin
    BY <2>0, <2>1, <1>c DEF Holds
  <2>2. CASE bin[on[t]] > 0 /\ RollBack(t) /\ UNCHANGED binFile
    <3>1. Placed' \subseteq Placed /\ on[t] \in Placed
      BY <1>0, <2>0, <2>2 DEF RollBack, TypeOK, Holds
    <3>2. ASSUME NEW i \in InHands' PROVE i \in Held
      <4>1. PICK u \in Threads : pc'[u] = "putBack" /\ on'[u] = i
        BY DEF InHands, Carrying
      <4>2. CASE u = t
        BY <2>0, <3>1, <4>1, <4>2 DEF Held
      <4>3. CASE u # t
        <5>1. pc[u] = "putBack" /\ on[u] = i
          BY <1>0, <2>0, <2>2, <4>1, <4>3 DEF RollBack, TypeOK
        <5> QED
          BY <5>1 DEF Held, InHands, Carrying
      <4> QED
        BY <4>2, <4>3
    <3> QED
      BY <3>1, <3>2, <1>b DEF Held
  <2>3. CASE ~(bin[on[t]] > 0) /\ RollBack(t) /\ UNCHANGED binFile
    BY <2>0, <2>3, <1>c DEF RollBack, Holds
  <2> QED
    BY <1>9, <2>1, <2>2, <2>3 DEF DeleteWritesTrash, AfterTrashFails
<1>10. ASSUME NEW t \in Threads, PutBack(t) PROVE Held' \subseteq Held
  <2>1. on[t] \in InHands /\ on[t] \in Ids
    BY <1>0, <1>10 DEF PutBack, InHands, Carrying, TypeOK
  <2>2. Placed' \subseteq Placed \cup {on[t]}
    BY <1>0, <1>10, <2>1 DEF PutBack, files, TypeOK, Holds
  <2>3. InHands' \subseteq InHands
    BY <1>0, <1>10, HandsKept DEF PutBack
  <2> QED
    BY <2>1, <2>2, <2>3 DEF Held
<1>11. ASSUME NEW t \in Threads, WritesTrash(t) PROVE Held' \subseteq Held
  BY <1>11, <1>c DEF WritesTrash, places, Holds
<1>12. ASSUME NEW i \in Ids, BeginRequest(i) \/ ReportCooldown(i) \/ CooldownExpires(i) PROVE Held' \subseteq Held
  BY <1>12, <1>d DEF BeginRequest, ReportCooldown, CooldownExpires, places, files, threads, Holds
<1>13. CASE SaveCooldowns
  BY <1>13, <1>d DEF SaveCooldowns, places, files, threads, Holds
<1>14. CASE CrashAndStart
  <2>1. InHands' = {}
    BY <1>14 DEF CrashAndStart, InHands, Carrying
  <2>2. Placed' \subseteq Placed
    BY <1>14 DEF CrashAndStart, files, Holds
  <2> QED
    BY <2>1, <2>2 DEF Held
<1>15. CASE UNCHANGED vars
  BY <1>15, <1>d DEF vars, places, files, threads, Holds
<1> QED
  BY <1>1, <1>2, <1>3, <1>4, <1>5, <1>6, <1>7, <1>8, <1>9, <1>10, <1>11, <1>12, <1>13, <1>14, <1>15
     DEF Next, Operation, Write

(* next_id goes back only at a restart, and then not below an id that was  *)
(* read.                                                                   *)
LEMMA FreshKept ==
    ASSUME IInv, [Next]_vars, TypeOK'
    PROVE  NextIdFresh'
<1>0. TypeOK /\ NextIdFresh
  BY DEF IInv
<1>1. ASSUME NEW t \in Threads, NEW r \in request[t], NEW k \in Keys, AddPushes(t, r, k) PROVE NextIdFresh'
  <2>1. nextId' = nextId + 1 /\ UNCHANGED <<bin, poolFile, binFile>>
    BY <1>1 DEF AddPushes, files
  <2>2. \A i \in Ids : pool'[i] > 0 => pool[i] > 0 \/ i = nextId
    BY <1>0, <1>1 DEF AddPushes, TypeOK
  <2>3. InHands' \subseteq InHands
    <3>1. CASE RefusedNow(r, k)
      BY <1>0, <1>1, <3>1, HandsKept DEF AddPushes
    <3>2. CASE ~RefusedNow(r, k)
      BY <1>0, <1>1, <3>2, HandsKept DEF AddPushes
    <3> QED
      BY <3>1, <3>2
  <2>4. ASSUME NEW i \in Held' PROVE i < nextId'
    <3>1. i \in Ids /\ (i \in Held \/ i = nextId)
      BY <2>1, <2>2, <2>3 DEF Held, Holds, InHands
    <3>2. i \in Held => i < nextId
      BY <1>0 DEF NextIdFresh, Held
    <3>3. i \in Nat /\ nextId \in Nat
      BY <1>0, <3>1, StoreBounds DEF TypeOK, Ids
    <3> QED
      BY <2>1, <3>1, <3>2, <3>3
  <2> QED
    BY <2>4 DEF NextIdFresh, Held
<1>2. CASE CrashAndStart
  <2>1. InHands' = {}
    BY <1>2 DEF CrashAndStart, InHands, Carrying
  <2> QED
    BY <1>0, <1>2, <2>1, FirstIdAbove DEF CrashAndStart, files, NextIdFresh, Holds
<1>3. CASE ~CrashAndStart /\ ~ \E t \in Threads : \E r \in request[t], k \in Keys : AddPushes(t, r, k)
  <2>1. Held' \subseteq Held
    BY <1>3, MovedIdsAreOld
  <2>2. nextId' = nextId
    BY <1>3 DEF Next, Operation, Write, vars, ids, AddChecks, AddInvalid, DeleteCredential, RestoreCredential,
       PurgeCredential, PurgeTrash, PersistElsewhere, PersistOnly, DeleteWritesTrash, PutBack, DeleteWritesPool,
       RestoreWritesPool, WritesTrash, BeginRequest, ReportCooldown, CooldownExpires, SaveCooldowns
  <2> QED
    BY <1>0, <2>1, <2>2 DEF NextIdFresh, Held
<1> QED
  BY <1>1, <1>2, <1>3

(* A thread stays where it is while others move.                           *)
LEMMA AtStays ==
    ASSUME TypeOK, NEW t \in Threads, NEW s, NEW place, pc[t] # place,
           pc' = [pc EXCEPT ![t] = s], NEW i \in Ids, At(place, i),
           on' = on \/ \E k \in Ids : on' = [on EXCEPT ![t] = k]
    PROVE  At(place, i)'
<1>1. PICK u \in Threads : pc[u] = place /\ on[u] = i
  BY DEF At
<1>2. u # t /\ pc'[u] = pc[u] /\ on'[u] = on[u]
  BY <1>1 DEF TypeOK
<1> QED
  BY <1>1, <1>2 DEF At

(* What was durable stays safe.                                            *)
LEMMA StoredKept ==
    ASSUME IInv, [Next]_vars, TypeOK'
    PROVE  StoredSafe'
<1> DEFINE Stays == \A j \in Ids : (At("deleteTrash", j) => At("deleteTrash", j)')
                                  /\ (At("putBack", j) => At("putBack", j)')
<1>0. TypeOK /\ StoredSafe /\ \A i \in stored : i \in Ids
  BY DEF IInv, TypeOK
<1>a. 1 \in Ids
  BY StoreBounds DEF Ids
<1>b. ASSUME NEW t \in Threads, NEW s, pc[t] \notin {"deleteTrash", "putBack"}, pc' = [pc EXCEPT ![t] = s],
             on' = on \/ \E k \in Ids : on' = [on EXCEPT ![t] = k]
      PROVE  Stays
  BY <1>0, <1>b, AtStays
<1>c. ASSUME UNCHANGED <<pc, on>> PROVE Stays
  BY <1>c DEF At
<1> USE <1>0 DEF StoredSafe
<1>1. ASSUME NEW t \in Threads, NEW k \in Keys, NEW d \in BOOLEAN, AddChecks(t, k, d) PROVE StoredSafe'
  <2>1. Stays
    BY <1>1, <1>a, <1>b DEF AddChecks, Start
  <2> QED
    BY <1>1, <2>1 DEF AddChecks, places, files, history
<1>d. ASSUME NEW t \in Threads, AddInvalid(t) PROVE StoredSafe'
  <2>1. Stays
    BY <1>d, <1>b DEF AddInvalid
  <2> QED
    BY <1>d, <2>1 DEF AddInvalid, places, files, history
<1>2. ASSUME NEW t \in Threads, NEW r \in request[t], NEW k \in Keys, AddPushes(t, r, k) PROVE StoredSafe'
  <2>1. Stays
    <3>1. CASE RefusedNow(r, k)
      BY <1>2, <3>1, <1>b DEF AddPushes
    <3>2. CASE ~RefusedNow(r, k)
      BY <1>2, <3>2, <1>b DEF AddPushes
    <3> QED
      BY <3>1, <3>2
  <2>2. \A i \in Ids : pool[i] > 0 => pool'[i] > 0
    BY <1>2 DEF AddPushes, TypeOK
  <2> QED
    BY <1>2, <2>1, <2>2 DEF AddPushes, files
<1>3. ASSUME NEW t \in Threads, NEW i \in Ids, DeleteCredential(t, i) PROVE StoredSafe'
  <2>1. Stays
    BY <1>3, <1>b DEF DeleteCredential, Start
  <2>2. At("deleteTrash", i)'
    BY <1>3 DEF DeleteCredential, Start, At, TypeOK
  <2>3. \A j \in Ids : (j # i => pool'[j] = pool[j] /\ bin'[j] = bin[j]) /\ (j = i => bin'[j] > 0)
    BY <1>3 DEF DeleteCredential, TypeOK
  <2> QED
    BY <1>3, <2>1, <2>2, <2>3 DEF DeleteCredential, files, history
<1>4. ASSUME NEW t \in Threads, NEW i \in Ids, NEW force \in BOOLEAN, RestoreCredential(t, i, force)
      PROVE StoredSafe'
  <2>1. Stays
    BY <1>4, <1>b DEF RestoreCredential, Start
  <2>2. \A j \in Ids : (j # i => pool'[j] = pool[j] /\ bin'[j] = bin[j]) /\ (j = i => pool'[j] > 0)
    BY <1>4 DEF RestoreCredential, TypeOK
  <2> QED
    BY <1>4, <2>1, <2>2 DEF RestoreCredential, files
<1>5. ASSUME NEW t \in Threads, NEW i \in Ids, PurgeCredential(t, i) PROVE StoredSafe'
  <2>1. Stays
    BY <1>5, <1>b DEF PurgeCredential, Start
  <2>2. \A j \in Ids : j # i => bin'[j] = bin[j]
    BY <1>5 DEF PurgeCredential, TypeOK
  <2>3. \A j \in stored' : j \in stored /\ (j # i \/ pool[j] > 0 \/ At("putBack", j))
    BY <1>5 DEF PurgeCredential, Holds, InHands, Carrying, At
  <2> QED
    BY <1>5, <2>1, <2>2, <2>3 DEF PurgeCredential, files
<1>6. ASSUME NEW t \in Threads, NEW gone \in SUBSET Ids, PurgeTrash(t, gone) PROVE StoredSafe'
  <2>1. Stays
    <3>1. (CHOOSE i \in gone : TRUE) \in Ids
      BY <1>6 DEF PurgeTrash
    <3> QED
      BY <1>6, <3>1, <1>b DEF PurgeTrash, Start
  <2>2. \A j \in Ids : j \notin gone => bin'[j] = bin[j]
    BY <1>6 DEF PurgeTrash
  <2>3. \A j \in stored' : j \in stored /\ (j \notin gone \/ pool[j] > 0 \/ At("putBack", j))
    BY <1>6 DEF PurgeTrash, Holds, InHands, Carrying, At
  <2> QED
    BY <1>6, <2>1, <2>2, <2>3 DEF PurgeTrash, files
<1>7. ASSUME NEW t \in Threads, PersistElsewhere(t, 1) PROVE StoredSafe'
  <2>1. Stays
    BY <1>7, <1>a, <1>b DEF PersistElsewhere, Start
  <2> QED
    BY <1>7, <2>1 DEF PersistElsewhere, places, files, history
<1>8. ASSUME NEW t \in Threads, PersistOnly(t) \/ DeleteWritesPool(t) \/ RestoreWritesPool(t)
      PROVE StoredSafe'
  <2>1. Stays
    BY <1>8, <1>b DEF PersistOnly, DeleteWritesPool, RestoreWritesPool
  <2>2. stored' \subseteq stored \cup Holds(pool)
    BY <1>8 DEF PersistOnly, DeleteWritesPool, RestoreWritesPool, PoolWritten, PoolNotWritten
  <2>3. UNCHANGED <<pool, bin, binFile>>
    BY <1>8 DEF PersistOnly, DeleteWritesPool, RestoreWritesPool, places
  <2> QED
    BY <2>1, <2>2, <2>3 DEF Holds
<1>9. ASSUME NEW t \in Threads, DeleteWritesTrash(t) PROVE StoredSafe'
  <2>0. UNCHANGED <<pool, on, stored>> /\ on[t] \in Ids /\ pc[t] = "deleteTrash"
    BY <1>9 DEF DeleteWritesTrash, TypeOK, history
  <2>1. ASSUME NEW s, pc' = [pc EXCEPT ![t] = s], NEW j \in Ids
        PROVE  /\ At("putBack", j) => At("putBack", j)'
               /\ At("deleteTrash", j) /\ j # on[t] => At("deleteTrash", j)'
    BY <2>0, <2>1 DEF At, TypeOK
  <2>2. CASE binFile' = bin /\ pc' = [pc EXCEPT ![t] = "deletePool"] /\ UNCHANGED bin
    BY <2>0, <2>1, <2>2
  <2>3. CASE AfterTrashFails(t) /\ UNCHANGED binFile
    <3>1. CASE bin[on[t]] > 0
      <4>1. pc' = [pc EXCEPT ![t] = "putBack"] /\ \A j \in Ids : j # on[t] => bin'[j] = bin[j]
        BY <2>0, <2>3, <3>1 DEF AfterTrashFails, RollBack, TypeOK
      <4>2. At("putBack", on[t])'
        BY <2>0, <4>1 DEF At, TypeOK
      <4> QED
        BY <2>0, <2>1, <2>3, <4>1, <4>2
    <3>2. CASE ~(bin[on[t]] > 0)
      BY <2>0, <2>1, <2>3, <3>2 DEF AfterTrashFails, RollBack
    <3> QED
      BY <3>1, <3>2
  <2> QED
    BY <1>9, <2>2, <2>3 DEF DeleteWritesTrash
<1>10. ASSUME NEW t \in Threads, PutBack(t) PROVE StoredSafe'
  <2>0. UNCHANGED <<bin, binFile, on, stored>> /\ on[t] \in Ids /\ pc[t] = "putBack"
        /\ pc' = [pc EXCEPT ![t] = "idle"]
    BY <1>10 DEF PutBack, TypeOK, files
  <2>1. \A j \in Ids : (At("deleteTrash", j) => At("deleteTrash", j)')
                       /\ (At("putBack", j) /\ j # on[t] => At("putBack", j)')
    BY <2>0 DEF At, TypeOK
  <2>2. \A j \in Ids : (j # on[t] => pool'[j] = pool[j]) /\ (j = on[t] => pool'[j] > 0)
    BY <1>10, <2>0 DEF PutBack, TypeOK
  <2> QED
    BY <2>0, <2>1, <2>2
<1>11. ASSUME NEW t \in Threads, WritesTrash(t) PROVE StoredSafe'
  <2>1. Stays
    BY <1>11, <1>b DEF WritesTrash
  <2> QED
    BY <1>11, <2>1 DEF WritesTrash, places, history
<1>12. ASSUME NEW i \in Ids, BeginRequest(i) \/ ReportCooldown(i) \/ CooldownExpires(i) PROVE StoredSafe'
  BY <1>12, <1>c DEF BeginRequest, ReportCooldown, CooldownExpires, places, files, threads, history
<1>13. CASE SaveCooldowns
  BY <1>13, <1>c DEF SaveCooldowns, places, files, threads, history
<1>14. CASE CrashAndStart
  BY <1>14 DEF CrashAndStart, files, Holds
<1>15. CASE UNCHANGED vars
  BY <1>15, <1>c DEF vars, places, files, threads, history
<1> QED
  BY <1>1, <1>d, <1>2, <1>3, <1>4, <1>5, <1>6, <1>7, <1>8, <1>9, <1>10, <1>11, <1>12, <1>13, <1>14, <1>15
     DEF Next, Operation, Write

(* A key enters the pool a second time only on request; what else moves    *)
(* keeps its key and its place among the twins.                            *)
LEMMA TwinsKept ==
    ASSUME IInv, [Next]_vars, TypeOK'
    PROVE  NoUnwantedTwins' /\ NoTwinsOnDisk'
<1>0. TypeOK /\ NextIdFresh /\ NoUnwantedTwins /\ NoTwinsOnDisk
  BY DEF IInv
<1> DEFINE Fewer == Holds(pool)' \subseteq Holds(pool) /\ Holds(poolFile)' \subseteq Holds(poolFile) \cup Holds(pool)
                    /\ keyOf' = keyOf /\ twins \subseteq twins'
<1>a. ASSUME Fewer, poolFile' = poolFile \/ poolFile' = pool PROVE NoUnwantedTwins' /\ NoTwinsOnDisk'
  BY <1>0, <1>a DEF NoUnwantedTwins, NoTwinsOnDisk, Holds
<1>1. ASSUME NEW t \in Threads, NEW k \in Keys, NEW d \in BOOLEAN, AddChecks(t, k, d)
      PROVE NoUnwantedTwins' /\ NoTwinsOnDisk'
  BY <1>0, <1>1, <1>a DEF AddChecks, places, files, ids, history, Holds
<1>b. ASSUME NEW t \in Threads, AddInvalid(t) PROVE NoUnwantedTwins' /\ NoTwinsOnDisk'
  BY <1>b, <1>a DEF AddInvalid, places, files, ids, history, Holds
<1>2. ASSUME NEW t \in Threads, NEW r \in request[t], NEW k \in Keys, AddPushes(t, r, k)
      PROVE NoUnwantedTwins' /\ NoTwinsOnDisk'
  <2>1. CASE RefusedNow(r, k)
    BY <1>2, <2>1, <1>a DEF AddPushes, files, Holds
  <2>2. CASE ~RefusedNow(r, k)
    <3>1. nextId \in Ids /\ nextId \notin Holds(pool) \cup Holds(poolFile)
      BY <1>0, <1>2, StoreBounds DEF AddPushes, NextIdFresh, Ids
    <3>2. Holds(pool)' \subseteq Holds(pool) \cup {nextId} /\ poolFile' = poolFile
      BY <1>0, <1>2, <2>2 DEF AddPushes, files, Holds, TypeOK
    <3>3. \A i \in Ids : i # nextId => keyOf'[i] = keyOf[i] /\ (i \in twins' <=> i \in twins)
      BY <1>0, <1>2, <2>2 DEF AddPushes, TypeOK
    <3>4. nextId \in twins' \/ \A i \in Holds(pool) : keyOf[i] # keyOf'[nextId]
      BY <1>0, <1>2, <2>2, <3>1 DEF AddPushes, RefusedNow, InPool, TypeOK
    <3>5. NoTwinsOnDisk'
      BY <1>0, <3>1, <3>2, <3>3 DEF NoTwinsOnDisk, Holds
    <3>6. NoUnwantedTwins'
      <4> SUFFICES ASSUME NEW i \in Holds(pool)', NEW j \in Holds(pool)', i # j, keyOf'[i] = keyOf'[j]
                   PROVE {i, j} \cap twins' # {}
        BY DEF NoUnwantedTwins
      <4>1. CASE i = nextId \/ j = nextId
        BY <3>1, <3>2, <3>3, <3>4, <4>1 DEF Holds
      <4>2. CASE i # nextId /\ j # nextId
        BY <1>0, <3>1, <3>2, <3>3, <4>2 DEF NoUnwantedTwins, Holds
      <4> QED
        BY <4>1, <4>2
    <3> QED
      BY <3>5, <3>6
  <2> QED
    BY <2>1, <2>2
<1>3. ASSUME NEW t \in Threads, NEW i \in Ids, DeleteCredential(t, i) PROVE NoUnwantedTwins' /\ NoTwinsOnDisk'
  <2>1. Holds(pool)' \subseteq Holds(pool)
    BY <1>0, <1>3 DEF DeleteCredential, Found, Holds, TypeOK
  <2> QED
    BY <1>3, <2>1, <1>a DEF DeleteCredential, files, ids, history, Holds
<1>4. ASSUME NEW t \in Threads, NEW i \in Ids, NEW force \in BOOLEAN, RestoreCredential(t, i, force)
      PROVE NoUnwantedTwins' /\ NoTwinsOnDisk'
  <2>1. Holds(pool)' \subseteq Holds(pool) \cup {i} /\ keyOf' = keyOf /\ poolFile' = poolFile
        /\ twins \subseteq twins'
    BY <1>0, <1>4 DEF RestoreCredential, Found, Holds, files, ids, TypeOK
  <2>2. i \in twins' \/ \A j \in Holds(pool) : keyOf[j] # keyOf[i]
    BY <1>4 DEF RestoreCredential, Unchecked, InPool
  <2>3. NoTwinsOnDisk'
    BY <1>0, <2>1 DEF NoTwinsOnDisk, Holds
  <2>4. NoUnwantedTwins'
    BY <1>0, <2>1, <2>2 DEF NoUnwantedTwins, Holds
  <2> QED
    BY <2>3, <2>4
<1>5. ASSUME NEW t \in Threads, NEW i \in Ids, PurgeCredential(t, i) PROVE NoUnwantedTwins' /\ NoTwinsOnDisk'
  BY <1>5, <1>a DEF PurgeCredential, files, ids, Holds
<1>6. ASSUME NEW t \in Threads, NEW gone \in SUBSET Ids, PurgeTrash(t, gone) PROVE NoUnwantedTwins' /\ NoTwinsOnDisk'
  BY <1>6, <1>a DEF PurgeTrash, files, ids, Holds
<1>7. ASSUME NEW t \in Threads, PersistElsewhere(t, 1) PROVE NoUnwantedTwins' /\ NoTwinsOnDisk'
  BY <1>7, <1>a DEF PersistElsewhere, places, files, ids, history, Holds
<1>8. ASSUME NEW t \in Threads, PersistOnly(t) \/ DeleteWritesPool(t) \/ RestoreWritesPool(t)
      PROVE NoUnwantedTwins' /\ NoTwinsOnDisk'
  BY <1>8, <1>a DEF PersistOnly, DeleteWritesPool, RestoreWritesPool, PoolWritten, PoolNotWritten, places,
     ids, Holds
<1>9. ASSUME NEW t \in Threads, DeleteWritesTrash(t) PROVE NoUnwantedTwins' /\ NoTwinsOnDisk'
  BY <1>9, <1>a DEF DeleteWritesTrash, ids, history, Holds
<1>10. ASSUME NEW t \in Threads, PutBack(t) PROVE NoUnwantedTwins' /\ NoTwinsOnDisk'
  <2>1. poolFile' = poolFile /\ keyOf' = keyOf
    BY <1>10 DEF PutBack, ids, files
  <2>2. Holds(pool)' \subseteq Holds(pool) \cup {on[t]} /\ twins' = twins \cup {on[t]}
    BY <1>0, <1>10 DEF PutBack, Holds, TypeOK
  <2>3. NoTwinsOnDisk'
    BY <1>0, <2>1, <2>2 DEF NoTwinsOnDisk, Holds
  <2>4. NoUnwantedTwins'
    BY <1>0, <2>1, <2>2 DEF NoUnwantedTwins, Holds
  <2> QED
    BY <2>3, <2>4
<1>11. ASSUME NEW t \in Threads, WritesTrash(t) PROVE NoUnwantedTwins' /\ NoTwinsOnDisk'
  BY <1>11, <1>a DEF WritesTrash, places, ids, history, Holds
<1>12. ASSUME NEW i \in Ids, BeginRequest(i) \/ ReportCooldown(i) \/ CooldownExpires(i)
       PROVE NoUnwantedTwins' /\ NoTwinsOnDisk'
  BY <1>12, <1>a DEF BeginRequest, ReportCooldown, CooldownExpires, places, files, ids, history, Holds
<1>13. CASE SaveCooldowns
  BY <1>13, <1>a DEF SaveCooldowns, places, files, ids, history, Holds
<1>14. CASE CrashAndStart
  BY <1>0, <1>14 DEF CrashAndStart, files, NoUnwantedTwins, NoTwinsOnDisk, Holds
<1>15. CASE UNCHANGED vars
  BY <1>15, <1>a DEF vars, places, files, ids, history, Holds
<1> QED
  BY <1>1, <1>b, <1>2, <1>3, <1>4, <1>5, <1>6, <1>7, <1>8, <1>9, <1>10, <1>11, <1>12, <1>13, <1>14, <1>15
     DEF Next, Operation, Write

(* One credential, in the pool and on disk.                                *)
LEMMA InitHolds == Init => IInv
<1> SUFFICES ASSUME Init PROVE IInv
  OBVIOUS
<1>0. 1 \in Ids
  BY StoreBounds DEF Ids
<1>1. /\ pool \in [Ids -> Nat] /\ poolFile = pool /\ Holds(pool) = {1}
      /\ bin \in [Ids -> Nat] /\ binFile = bin /\ Holds(bin) = {}
  BY <1>0 DEF Init, Nothing, Holds
<1>2. TypeOK
  <2>1. nextId \in 1..MaxId + 1 /\ ops \in 0..MaxOps
    BY StoreBounds DEF Init
  <2>2. PICK k \in Keys : keyOf = [i \in Ids |-> k]
    BY DEF Init
  <2>4. keyOf \in [Ids -> Keys]
    BY <2>2
  <2> QED
    BY <1>0, <1>1, <2>1, <2>4 DEF Init, TypeOK, Steps
<1>3. NextIdFresh
  BY <1>1 DEF Init, NextIdFresh, InHands, Carrying
<1>4. StoredSafe
  BY <1>0, <1>1 DEF Init, StoredSafe, Holds
<1>5. NoUnwantedTwins /\ NoTwinsOnDisk
  BY <1>1 DEF NoUnwantedTwins, NoTwinsOnDisk
<1> QED
  BY <1>2, <1>3, <1>4, <1>5 DEF IInv

(* The invariant holds in every reachable state.                           *)
LEMMA Inductive == Spec => []IInv
<1>1. IInv /\ [Next]_vars => IInv'
  BY TypeKept, FreshKept, StoredKept, TwinsKept DEF IInv
<1> QED
  BY <1>1, InitHolds, PTL DEF Spec

(* Every reachable state has the declared types: no place ever holds a     *)
(* negative number of entries.                                             *)
THEOREM TypeCorrect == Spec => []TypeOK
<1>1. IInv => TypeOK
  BY DEF IInv
<1> QED
  BY <1>1, Inductive, PTL

(* A durable credential that is in neither file is in the pool in memory   *)
(* or about to be written to the bin, whatever was written or failed.      *)
THEOREM NothingForgotten == Spec => []MissingIsPending
<1>1. IInv => MissingIsPending
  BY DEF IInv, StoredSafe, MissingIsPending, At, Holds, TypeOK
<1> QED
  BY <1>1, Inductive, PTL

(* next_id is above every id in memory and on disk, over restarts too.     *)
THEOREM IdsAreFresh == Spec => []NextIdFresh
<1>1. IInv => NextIdFresh
  BY DEF IInv
<1> QED
  BY <1>1, Inductive, PTL

(* Concurrent adds of one key cannot both enter the pool unasked.          *)
THEOREM TwinsAreWanted == Spec => []NoUnwantedTwins
<1>1. IInv => NoUnwantedTwins
  BY DEF IInv
<1> QED
  BY <1>1, Inductive, PTL

(* What a roll back takes in hand is one thread more in the finite set of  *)
(* those that carry, and what it puts back one less.                       *)
LEMMA CarryingCounted ==
    ASSUME TypeOK, NEW t \in Threads, NEW s, pc' = [pc EXCEPT ![t] = s], on' = on, NEW i \in Ids
    PROVE  LET n == Cardinality(Carrying(i)) IN
           /\ n \in Nat
           /\ (i # on[t] \/ (pc[t] = "putBack" <=> s = "putBack")) => Cardinality(Carrying(i)') = n
           /\ (i = on[t] /\ pc[t] # "putBack" /\ s = "putBack") => Cardinality(Carrying(i)') = n + 1
           /\ (i = on[t] /\ pc[t] = "putBack" /\ s # "putBack") => n = Cardinality(Carrying(i)') + 1
               /\ Cardinality(Carrying(i)') \in Nat
<1>1. IsFiniteSet(Carrying(i)) /\ Cardinality(Carrying(i)) \in Nat
  BY StoreBounds, FS_Subset, FS_CardinalityType DEF Carrying
<1>2. \A u \in Threads : u # t => (u \in Carrying(i)' <=> u \in Carrying(i))
  BY DEF Carrying, TypeOK
<1>3. /\ t \in Carrying(i) <=> pc[t] = "putBack" /\ on[t] = i
      /\ t \in Carrying(i)' <=> s = "putBack" /\ on[t] = i
  BY DEF Carrying, TypeOK
<1>4. Carrying(i) \subseteq Threads /\ Carrying(i)' \subseteq Threads
  BY DEF Carrying
<1>5. CASE t \in Carrying(i)' <=> t \in Carrying(i)
  <2>1. Carrying(i)' = Carrying(i)
    BY <1>2, <1>4, <1>5
  <2> QED
    BY <1>1, <1>3, <1>5, <2>1
<1>6. CASE t \in Carrying(i)' /\ t \notin Carrying(i)
  <2>1. Carrying(i)' = Carrying(i) \cup {t}
    BY <1>2, <1>4, <1>6
  <2>2. Cardinality(Carrying(i)') = Cardinality(Carrying(i)) + 1
    BY <1>1, <1>6, <2>1, FS_AddElement
  <2> QED
    BY <1>1, <1>3, <1>6, <2>2
<1>7. CASE t \notin Carrying(i)' /\ t \in Carrying(i)
  <2>1. Carrying(i)' = Carrying(i) \ {t}
    BY <1>2, <1>4, <1>7
  <2>2. Cardinality(Carrying(i)') = Cardinality(Carrying(i)) - 1
    BY <1>1, <1>7, <2>1, FS_RemoveElement
  <2>3. Cardinality(Carrying(i)') \in Nat
    BY <1>1, <2>1, FS_RemoveElement, FS_CardinalityType
  <2> QED
    BY <1>1, <1>3, <1>7, <2>2, <2>3
<1> QED
  BY <1>5, <1>6, <1>7

(* A write, the roll back of a failed one included, keeps how many entries *)
(* of each id there are in memory, those between two locks included.       *)
THEOREM WritesConserve == Spec => WritesMoveNothing
<1> DEFINE Sum(i) == pool[i] + bin[i] + Cardinality(Carrying(i))
           Moved == \A t \in Threads : Write(t) =>
                        \A i \in Ids : pool'[i] + bin'[i] + Cardinality(Carrying(i)')
                                        = pool[i] + bin[i] + Cardinality(Carrying(i))
<1>1. ASSUME IInv, NEW t \in Threads, Write(t), NEW i \in Ids
      PROVE  Sum(i)' = Sum(i)
  <2>0. TypeOK
    BY <1>1 DEF IInv
  <2>1. on[t] \in Ids /\ pool[i] \in Nat /\ bin[i] \in Nat
    BY <2>0 DEF TypeOK
  <2>2. ASSUME UNCHANGED <<places, on>>, NEW s, pc' = [pc EXCEPT ![t] = s],
               pc[t] # "putBack", s # "putBack"
        PROVE  Sum(i)' = Sum(i)
    BY <2>0, <2>2, CarryingCounted DEF places
  <2>3. CASE PersistOnly(t) \/ DeleteWritesPool(t) \/ RestoreWritesPool(t) \/ WritesTrash(t)
    BY <2>2, <2>3 DEF PersistOnly, DeleteWritesPool, RestoreWritesPool, WritesTrash
  <2>4. CASE PutBack(t)
    <3>1. /\ pc[t] = "putBack" /\ pc' = [pc EXCEPT ![t] = "idle"] /\ on' = on /\ bin' = bin
          /\ pool' = [pool EXCEPT ![on[t]] = @ + 1]
      BY <2>4 DEF PutBack
    <3>2. CASE i = on[t]
      <4>1. pool'[i] = pool[i] + 1
        BY <2>0, <2>1, <3>1, <3>2 DEF TypeOK
      <4>2. /\ Cardinality(Carrying(i)) = Cardinality(Carrying(i)') + 1
            /\ Cardinality(Carrying(i)') \in Nat
        <5>1. pc[t] = "putBack" /\ "idle" # "putBack"
          BY <3>1
        <5> QED
          BY <2>0, <3>1, <3>2, <5>1, CarryingCounted
      <4> QED
        BY <2>1, <3>1, <4>1, <4>2
    <3>3. CASE i # on[t]
      <4>1. pool'[i] = pool[i]
        BY <2>0, <3>1, <3>3 DEF TypeOK
      <4> QED
        BY <2>0, <3>1, <3>3, <4>1, CarryingCounted
    <3> QED
      BY <3>2, <3>3
  <2>5. CASE DeleteWritesTrash(t)
    <3>0. pc[t] = "deleteTrash" /\ on' = on /\ pool' = pool
      BY <2>5 DEF DeleteWritesTrash
    <3>1. CASE pc' = [pc EXCEPT ![t] = "deletePool"] /\ UNCHANGED bin
      BY <3>0, <3>1, <2>2 DEF places
    <3>2. CASE bin[on[t]] > 0 /\ RollBack(t)
      <4>1. bin' = [bin EXCEPT ![on[t]] = @ - 1] /\ pc' = [pc EXCEPT ![t] = "putBack"]
        BY <3>2 DEF RollBack
      <4>2. CASE i = on[t]
        <5>1. bin'[i] = bin[i] - 1
          BY <2>0, <2>1, <4>1, <4>2 DEF TypeOK
        <5>2. /\ Cardinality(Carrying(i)') = Cardinality(Carrying(i)) + 1
              /\ Cardinality(Carrying(i)) \in Nat
          BY <2>0, <3>0, <4>1, <4>2, CarryingCounted
        <5> QED
          BY <2>1, <3>0, <5>1, <5>2
      <4>3. CASE i # on[t]
        <5>1. bin'[i] = bin[i]
          BY <2>0, <4>1, <4>3 DEF TypeOK
        <5> QED
          BY <2>0, <3>0, <4>1, <4>3, <5>1, CarryingCounted
      <4> QED
        BY <4>2, <4>3
    <3>3. CASE ~(bin[on[t]] > 0) /\ RollBack(t)
      BY <3>0, <3>3, <2>2 DEF RollBack, places
    <3> QED
      BY <2>5, <3>1, <3>2, <3>3 DEF DeleteWritesTrash, AfterTrashFails
  <2> QED
    BY <1>1, <2>3, <2>4, <2>5 DEF Write
<1>2. IInv /\ [Next]_vars => [Moved]_vars
  BY <1>1
<1> QED
  BY <1>2, Inductive, PTL DEF Spec, WritesMoveNothing
=============================================================================
