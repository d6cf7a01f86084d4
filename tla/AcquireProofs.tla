---------------------------- MODULE AcquireProofs ----------------------------
(***************************************************************************)
(* Proofs about Acquire, for any credentials, gates, limits and number of  *)
(* requests.                                                               *)
(***************************************************************************)
EXTENDS Acquire, FiniteSetTheorems, WellFoundedInduction, TLAPS

(* Where a request holds a credential's InflightGuard.                     *)
Holding == {"token", "fallbackToken", "using"}
GuardHeld == \A t \in Threads : guard[t] # NoCred <=> pc[t] \in Holding

Holders(i) == {t \in Threads : guard[t] = i}

(* The loop's budget of attempts is checked where an iteration begins.     *)
AttemptLeft ==
    \A t \in Threads : pc[t] \notin {"idle", "select", "using"}
                           => used[t].attempts < MaxAttempts

IInv == TypeOK /\ GuardHeld /\ InflightExact /\ AttemptLeft

(* A nonempty set of ids has a smallest one.                               *)
LEMMA Smallest ==
    ASSUME NEW S \in SUBSET Nat, S # {}
    PROVE  \E i \in S : \A j \in S : i <= j
<1>1. PICK i \in S : \A j \in S : ~ (<<j, i>> \in OpToRel(<, Nat))
  BY NatLessThanWellFounded, WFMin
<1>2. \A j \in S : ~ (j < i)
  BY <1>1 DEF OpToRel
<1>3. \A j \in S : i <= j
  BY <1>2
<1> QED
  BY <1>3

(* The selection and the fallback only give what has a free slot.          *)
LEMMA PicksAreFree ==
    /\ \A E : Picks(E) \subseteq Fallbacks
    /\ \A E : BestTier(Prefer(Fallbacks, E)) \subseteq Fallbacks
    /\ \A S \in SUBSET Creds : S # {} => NextAfter(S) \in S
<1>1. \A E : Picks(E) \subseteq Fallbacks
  BY DEF Picks, SaturationPool, Prefer, Selectable
<1>2. \A E : BestTier(Prefer(Fallbacks, E)) \subseteq Fallbacks
  BY DEF BestTier, Prefer
<1>3. ASSUME NEW S \in SUBSET Creds, S # {} PROVE NextAfter(S) \in S
  <2> DEFINE from == IF {i \in S : i > cursor} = {} THEN S ELSE {i \in S : i > cursor}
  <2>1. from \in SUBSET Nat /\ from # {} /\ from \subseteq S
    BY <1>3, AcquireConstants
  <2>2. \E i \in from : \A j \in from : i <= j
    BY <2>1, Smallest
  <2>3. NextAfter(S) = CHOOSE i \in from : \A j \in from : i <= j
    BY DEF NextAfter
  <2> QED
    BY <2>1, <2>2, <2>3
<1> QED
  BY <1>1, <1>2, <1>3

(* A guard taken or dropped moves the count and the holders together.      *)
LEMMA CommitKeeps ==
    ASSUME IInv, NEW t \in Threads, NEW i \in Fallbacks, guard[t] = NoCred, Commit(t, i)
    PROVE  /\ inflight' \in [Creds -> 0..MaxInflight]
           /\ rpm' \in [Creds -> 0..RpmLimit + 1]
           /\ guard' = [guard EXCEPT ![t] = i] /\ i \in Creds /\ i # NoCred
           /\ InflightExact'
<1> USE AcquireConstants
<1>1. i \in Creds /\ i # NoCred /\ inflight[i] < MaxInflight
  BY DEF Fallbacks, NoCred
<1>2. inflight' \in [Creds -> 0..MaxInflight]
  BY <1>1 DEF Commit, IInv, TypeOK
<1>3. rpm' \in [Creds -> 0..RpmLimit + 1]
  BY <1>1 DEF Commit, IInv, TypeOK
<1>4. ASSUME NEW j \in Creds
      PROVE  inflight'[j] = Cardinality({u \in Threads : guard'[u] = j})
  <2>1. Holders(j) \subseteq Threads /\ IsFiniteSet(Holders(j))
    BY FS_Subset DEF Holders
  <2>2. inflight[j] = Cardinality(Holders(j))
    BY DEF IInv, InflightExact, Holders
  <2>3. CASE j = i
    <3>1. {u \in Threads : guard'[u] = j} = Holders(j) \cup {t}
      BY <2>3 DEF Commit, IInv, TypeOK, Holders
    <3>2. t \notin Holders(j)
      BY <1>1, <2>3 DEF Holders
    <3>3. Cardinality(Holders(j) \cup {t}) = Cardinality(Holders(j)) + 1
      BY <2>1, <3>2, FS_AddElement
    <3> QED
      BY <2>2, <2>3, <3>1, <3>3 DEF Commit, IInv, TypeOK
  <2>4. CASE j # i
    <3>1. {u \in Threads : guard'[u] = j} = Holders(j)
      BY <2>4, <1>1 DEF Commit, IInv, TypeOK, Holders, NoCred
    <3> QED
      BY <2>2, <2>4, <3>1 DEF Commit, IInv, TypeOK
  <2> QED
    BY <2>3, <2>4
<1> QED
  BY <1>1, <1>2, <1>3, <1>4 DEF Commit, InflightExact

(* A guard dropped takes its holder and its count away together.            *)
LEMMA DropKeeps ==
    ASSUME IInv, NEW t \in Threads, pc[t] \in Holding, Drop(t)
    PROVE  /\ inflight' \in [Creds -> 0..MaxInflight]
           /\ rpm' \in [Creds -> 0..RpmLimit + 1]
           /\ guard' = [guard EXCEPT ![t] = NoCred]
           /\ InflightExact'
<1> USE AcquireConstants
<1> DEFINE i == guard[t]
<1>1. i \in Creds /\ i # NoCred /\ guard \in [Threads -> Creds \cup {NoCred}]
  BY DEF IInv, TypeOK, GuardHeld
<1>2. \A j \in Creds : IsFiniteSet(Holders(j)) /\ inflight[j] = Cardinality(Holders(j))
  BY FS_Subset DEF Holders, IInv, InflightExact
<1>3. t \in Holders(i)
  BY <1>1 DEF Holders
<1>4. Cardinality(Holders(i) \ {t}) = Cardinality(Holders(i)) - 1
  BY <1>1, <1>2, <1>3, FS_RemoveElement
<1>5. Cardinality(Holders(i) \ {t}) \in Nat
  BY <1>1, <1>2, FS_RemoveElement, FS_CardinalityType
<1>6. inflight' \in [Creds -> 0..MaxInflight]
  <2>1. inflight[i] \in 0..MaxInflight /\ inflight[i] - 1 \in Nat
    BY <1>1, <1>2, <1>4, <1>5 DEF IInv, TypeOK
  <2> QED
    BY <1>1, <2>1 DEF Drop, IInv, TypeOK
<1>7. ASSUME NEW j \in Creds
      PROVE  inflight'[j] = Cardinality({u \in Threads : guard'[u] = j})
  <2>1. CASE j = i
    <3>1. {u \in Threads : guard'[u] = j} = Holders(j) \ {t}
      BY <2>1, <1>1 DEF Drop, Holders
    <3> QED
      BY <1>2, <1>4, <2>1, <3>1 DEF Drop, IInv, TypeOK
  <2>2. CASE j # i
    <3>1. {u \in Threads : guard'[u] = j} = Holders(j)
      BY <2>2, <1>1 DEF Drop, Holders, NoCred
    <3> QED
      BY <1>2, <2>2, <3>1 DEF Drop, IInv, TypeOK
  <2> QED
    BY <2>1, <2>2
<1> QED
  BY <1>6, <1>7 DEF Drop, IInv, TypeOK, InflightExact

Locals == [attempts : 0..MaxAttempts, races : 0..MaxRaces, waits : 0..MaxWaits]

(* What a move of the request does to its own variables.                   *)
LEMMA GoKeeps ==
    ASSUME IInv, NEW t \in Threads, NEW p \in Places, Go(t, p)
    PROVE  /\ pc' = [pc EXCEPT ![t] = p] /\ pc' \in [Threads -> Places]
           /\ excl' \in [Threads -> SUBSET Creds]
           /\ used' = used /\ used' \in [Threads -> Locals]
BY DEF Go, IInv, TypeOK, Locals

(* A request that leaves the loop forgets what it excluded and used up.    *)
LEMMA LeaveKeeps ==
    ASSUME IInv, NEW t \in Threads, NEW p \in Places, Leave(t, p)
    PROVE  /\ pc' = [pc EXCEPT ![t] = p] /\ pc' \in [Threads -> Places]
           /\ excl' \in [Threads -> SUBSET Creds]
           /\ used' = [used EXCEPT ![t] = Nothing] /\ used' \in [Threads -> Locals]
<1>1. Nothing \in Locals
  BY AcquireConstants DEF Nothing, Locals
<1>2. used \in [Threads -> Locals]
  BY DEF IInv, TypeOK, Locals
<1>3. used' = [used EXCEPT ![t] = Nothing]
  BY DEF Leave
<1>4. used' \in [Threads -> Locals]
  BY <1>1, <1>2, <1>3
<1> QED
  BY <1>3, <1>4 DEF Leave, IInv, TypeOK

(* A round of the loop that had a budget left stays within it.             *)
LEMMA SpendKeeps ==
    ASSUME IInv, NEW t \in Threads,
           \/ used[t].attempts < MaxAttempts /\ Spend(t, "attempts")
           \/ used[t].races < MaxRaces /\ Spend(t, "races")
           \/ used[t].waits < MaxWaits /\ Spend(t, "waits")
    PROVE  /\ pc' = [pc EXCEPT ![t] = "select"] /\ pc' \in [Threads -> Places]
           /\ excl' \in [Threads -> SUBSET Creds]
           /\ \A u \in Threads \ {t} : used'[u] = used[u]
           /\ used' \in [Threads -> Locals]
<1> USE AcquireConstants
<1>1. used \in [Threads -> Locals] /\ used[t] \in Locals
  BY DEF IInv, TypeOK, Locals
<1>2. ASSUME NEW w \in {"attempts", "races", "waits"},
             [used[t] EXCEPT ![w] = @ + 1] \in Locals, Spend(t, w)
      PROVE  /\ \A u \in Threads \ {t} : used'[u] = used[u]
             /\ used' \in [Threads -> Locals]
  <2>1. used' = [used EXCEPT ![t] = [used[t] EXCEPT ![w] = @ + 1]]
    BY <1>2 DEF Spend
  <2> QED
    BY <1>1, <1>2, <2>1
<1>3. used[t].attempts < MaxAttempts => [used[t] EXCEPT !["attempts"] = @ + 1] \in Locals
  BY <1>1 DEF Locals
<1>4. used[t].races < MaxRaces => [used[t] EXCEPT !["races"] = @ + 1] \in Locals
  BY <1>1 DEF Locals
<1>5. used[t].waits < MaxWaits => [used[t] EXCEPT !["waits"] = @ + 1] \in Locals
  BY <1>1 DEF Locals
<1>6. /\ \A u \in Threads \ {t} : used'[u] = used[u]
      /\ used' \in [Threads -> Locals]
  BY <1>2, <1>3, <1>4, <1>5
<1>7. /\ pc' = [pc EXCEPT ![t] = "select"] /\ pc' \in [Threads -> Places]
      /\ excl' \in [Threads -> SUBSET Creds]
  BY DEF Spend, IInv, TypeOK, Places
<1> QED
  BY <1>6, <1>7

(* The variables the request shares, but for the in-flight counts.         *)
SharedOK ==
    /\ off \in [Creds -> BOOLEAN] /\ blocked \in [Creds -> BOOLEAN]
    /\ cool \in [Creds -> Tiers] /\ limited \in [Creds -> BOOLEAN]
    /\ cursor \in Creds \cup {NoCred} /\ turns \in [Creds -> SUBSET Creds]

(* Variables that a step leaves alone keep their types.                    *)
LEMMA SharedKept ==
    ASSUME IInv
    PROVE  /\ SharedOK
           /\ UNCHANGED <<gates, cursor, turns>> => SharedOK'
BY DEF IInv, TypeOK, SharedOK, gates

(* A request that moves to p with the guard g keeps the invariant, if the  *)
(* in-flight counts follow.                                                *)
LEMMA Assemble ==
    ASSUME IInv, NEW t \in Threads, NEW p \in Places, NEW g \in Creds \cup {NoCred},
           SharedOK',
           pc' = [pc EXCEPT ![t] = p], pc' \in [Threads -> Places],
           excl' \in [Threads -> SUBSET Creds],
           used' \in [Threads -> Locals], \A u \in Threads \ {t} : used'[u] = used[u],
           p \notin {"idle", "select", "using"} => used'[t].attempts < MaxAttempts,
           guard' = [guard EXCEPT ![t] = g], g # NoCred <=> p \in Holding,
           inflight' \in [Creds -> 0..MaxInflight], rpm' \in [Creds -> 0..RpmLimit + 1],
           InflightExact'
    PROVE  IInv'
<1>1. TypeOK'
  BY DEF IInv, TypeOK, SharedOK, Locals
<1>2. GuardHeld'
  BY DEF IInv, TypeOK, GuardHeld
<1>3. AttemptLeft'
  BY DEF IInv, TypeOK, AttemptLeft
<1> QED
  BY <1>1, <1>2, <1>3 DEF IInv

(* A move that leaves the guards alone.                                    *)
LEMMA MoveKeeps ==
    ASSUME IInv, NEW t \in Threads, NEW p \in Places, SharedOK',
           \/ Go(t, p) /\ (used[t].attempts < MaxAttempts \/ p \in {"idle", "select", "using"})
           \/ Leave(t, p) /\ p \in {"idle", "using"}
           \/ p = "select" /\ used[t].races < MaxRaces /\ Spend(t, "races")
           \/ p = "select" /\ used[t].waits < MaxWaits /\ Spend(t, "waits"),
           p \in Holding <=> pc[t] \in Holding,
           UNCHANGED <<inflight, rpm, guard>>
    PROVE  IInv'
<1>1. /\ pc' = [pc EXCEPT ![t] = p] /\ pc' \in [Threads -> Places]
      /\ excl' \in [Threads -> SUBSET Creds]
      /\ used' \in [Threads -> Locals] /\ \A u \in Threads \ {t} : used'[u] = used[u]
      /\ p \notin {"idle", "select", "using"} => used'[t].attempts < MaxAttempts
  <2>1. CASE Go(t, p) /\ (used[t].attempts < MaxAttempts \/ p \in {"idle", "select", "using"})
    BY <2>1, GoKeeps
  <2>2. CASE Leave(t, p) /\ p \in {"idle", "using"}
    <3>1. used' = [used EXCEPT ![t] = Nothing] /\ used \in [Threads -> Locals]
      BY <2>2, LeaveKeeps DEF IInv, TypeOK, Locals
    <3> QED
      BY <2>2, <3>1, LeaveKeeps
  <2>3. CASE p = "select" /\ used[t].races < MaxRaces /\ Spend(t, "races")
    BY <2>3, SpendKeeps
  <2>4. CASE p = "select" /\ used[t].waits < MaxWaits /\ Spend(t, "waits")
    BY <2>4, SpendKeeps
  <2> QED
    BY <2>1, <2>2, <2>3, <2>4
<1>2. /\ guard[t] \in Creds \cup {NoCred} /\ guard' = [guard EXCEPT ![t] = guard[t]]
      /\ guard[t] # NoCred <=> p \in Holding
      /\ inflight' \in [Creds -> 0..MaxInflight] /\ rpm' \in [Creds -> 0..RpmLimit + 1]
      /\ InflightExact'
  BY DEF IInv, TypeOK, GuardHeld, InflightExact
<1> QED
  BY <1>1, <1>2, Assemble

(* One step of a request keeps the invariant.                              *)
LEMMA StepKeeps ==
    ASSUME IInv, NEW t \in Threads, Step(t)
    PROVE  IInv'
<1> USE AcquireConstants
<1> DEFINE Same == UNCHANGED <<gates, inflight, rpm, cursor, guard, turns>>
           Room == used[t].attempts < MaxAttempts
<1>a. SharedOK /\ (UNCHANGED <<gates, cursor, turns>> => SharedOK')
  BY SharedKept
<1>b. pc[t] \notin {"idle", "select", "using"} => Room
  BY DEF IInv, AttemptLeft
<1>c. guard[t] \in Creds \cup {NoCred} /\ (guard[t] # NoCred <=> pc[t] \in Holding)
  BY DEF IInv, TypeOK, GuardHeld
<1>1. CASE OutOfAttempts(t)
  BY <1>1, <1>a, MoveKeeps DEF OutOfAttempts, Places, Holding
<1>2. ASSUME NEW i \in Creds, Select(t, i) PROVE IInv'
  <2>1. i \in Fallbacks /\ guard[t] = NoCred /\ Commit(t, i) /\ Go(t, "token") /\ Room
    BY <1>2, <1>b, <1>c, PicksAreFree DEF Select, MaySelect, Holding
  <2>2. SharedOK'
    BY <1>2, <1>a DEF Select
  <2>3. "token" \in Places /\ "token" \in Holding
    BY DEF Places, Holding
  <2>4. used' = used /\ used \in [Threads -> Locals]
    BY <2>1, <2>3, GoKeeps
  <2> QED
    BY <2>1, <2>2, <2>3, <2>4, CommitKeeps, GoKeeps, Assemble
<1>3. CASE SelectNone(t)
  <2> DEFINE p == CASE pc[t] = "select" -> "none" [] pc[t] = "again" -> "heal"
                    [] pc[t] = "last" -> "outcome"
  <2>1. /\ Go(t, p) /\ Room /\ UNCHANGED <<gates, inflight, rpm, cursor, guard, turns>>
        /\ p \in Places /\ p \notin Holding /\ pc[t] \notin Holding
    BY <1>3, <1>b DEF SelectNone, MaySelect, Places, Holding
  <2> QED
    BY <2>1, <1>a, MoveKeeps
<1>4. ASSUME NEW back \in SUBSET Creds, Revive(t, back) PROVE IInv'
  <2>1. SharedOK'
    BY <1>4, <1>a DEF Revive, SharedOK, Tiers
  <2> DEFINE p == IF pc[t] = "none" THEN "again" ELSE "last"
  <2>2. /\ Go(t, p) /\ Room /\ UNCHANGED <<inflight, rpm, guard>>
        /\ p \in Places /\ p \notin Holding /\ pc[t] \notin Holding
    BY <1>4, <1>b DEF Revive, Places, Holding
  <2> QED
    BY <2>1, <2>2, MoveKeeps
<1>5. ASSUME NEW p \in Places, Go(t, p), p \notin Holding, Same,
             pc[t] \in {"none", "heal", "outcome"}
      PROVE  IInv'
  BY <1>5, <1>a, <1>b, MoveKeeps DEF Holding
<1>6. CASE NothingRevived(t)
  BY <1>5, <1>6 DEF NothingRevived, Places, Holding
<1>7. CASE WaitCooling(t)
  BY <1>5, <1>7 DEF WaitCooling, Places, Holding
<1>8. CASE NoCandidate(t)
  BY <1>8, <1>a, MoveKeeps DEF NoCandidate, Places, Holding
<1>9. ASSUME Same, pc[t] \in {"outcome", "fallen"},
             \/ Leave(t, "idle")
             \/ used[t].races < MaxRaces /\ Spend(t, "races")
             \/ used[t].waits < MaxWaits /\ Spend(t, "waits")
      PROVE  IInv'
  <2>1. /\ "idle" \in Places /\ "select" \in Places
        /\ "idle" \notin Holding /\ "select" \notin Holding /\ pc[t] \notin Holding
    BY <1>9 DEF Places, Holding
  <2> QED
    BY <1>9, <2>1, <1>a, MoveKeeps
<1>10. CASE Available(t)
  <2>1. used[t].races >= MaxRaces \/ used[t].races < MaxRaces
    BY DEF IInv, TypeOK
  <2> QED
    BY <1>9, <1>10, <2>1 DEF Available
<1>11. CASE WaitBusy(t)
  BY <1>9, <1>11 DEF WaitBusy, SleepOrGiveUp
<1>12. ASSUME NEW long \in BOOLEAN, Fallen(t, long) PROVE IInv'
  BY <1>9, <1>12 DEF Fallen, SleepOrGiveUp
<1>13. CASE Fallback(t)
  <2> DEFINE best == BestTier(Prefer(Fallbacks, excl[t]))
             i == NextAfter(best)
  <2>1. best \subseteq Creds /\ best \subseteq Fallbacks
    BY PicksAreFree DEF Fallbacks
  <2>2. pc[t] = "cooling" /\ UNCHANGED gates /\ Room
    BY <1>13, <1>b DEF Fallback
  <2>3. CASE best = {}
    <3>1. Go(t, "fallen") /\ UNCHANGED <<inflight, rpm, guard, cursor, turns>>
      BY <1>13, <2>3 DEF Fallback
    <3> QED
      BY <2>2, <3>1, <1>a, MoveKeeps DEF Places, Holding
  <2>4. CASE best # {}
    <3>1. /\ Commit(t, i) /\ Go(t, "fallbackToken") /\ cursor' = i
          /\ turns' = [j \in Creds |-> IF j \in best \ {i} THEN turns[j] \cup {i} ELSE {}]
      BY <1>13, <2>4 DEF Fallback
    <3>2. i \in Fallbacks /\ i \in Creds /\ guard[t] = NoCred
      BY <2>1, <2>2, <2>4, <1>c, PicksAreFree DEF Holding
    <3> HIDE DEF i, best
    <3>3. SharedOK'
      BY <2>2, <3>1, <3>2, <1>a DEF SharedOK, gates
    <3>4. "fallbackToken" \in Places /\ "fallbackToken" \in Holding
      BY DEF Places, Holding
    <3>5. used' = used /\ used \in [Threads -> Locals]
      BY <3>1, <3>4, GoKeeps
    <3> QED
      BY <2>2, <3>1, <3>2, <3>3, <3>4, <3>5, CommitKeeps, GoKeeps, Assemble
  <2> QED
    BY <2>3, <2>4
<1>14. ASSUME NEW p \in {"idle", "select", "fallen"}, pc[t] \in Holding, Drop(t), SharedOK',
              \/ p = "fallen" /\ Room /\ Go(t, p)
              \/ p = "idle" /\ Leave(t, p)
              \/ p = "select" /\ Room /\ Spend(t, "attempts")
       PROVE  IInv'
  <2>1. p \in Places /\ p \notin Holding
    BY <1>14 DEF Places, Holding
  <2>2. /\ pc' = [pc EXCEPT ![t] = p] /\ pc' \in [Threads -> Places]
        /\ excl' \in [Threads -> SUBSET Creds]
        /\ used' \in [Threads -> Locals] /\ \A u \in Threads \ {t} : used'[u] = used[u]
        /\ p \notin {"idle", "select", "using"} => used'[t].attempts < MaxAttempts
    <3>1. CASE p = "fallen" /\ Room /\ Go(t, p)
      BY <3>1, <2>1, GoKeeps
    <3>2. CASE p = "idle" /\ Leave(t, p)
      <4>1. used' = [used EXCEPT ![t] = Nothing] /\ used \in [Threads -> Locals]
        BY <2>1, <3>2, LeaveKeeps DEF IInv, TypeOK, Locals
      <4> QED
        BY <2>1, <3>2, <4>1, LeaveKeeps
    <3>3. CASE p = "select" /\ Room /\ Spend(t, "attempts")
      BY <3>3, SpendKeeps
    <3> QED
      BY <1>14, <3>1, <3>2, <3>3
  <2> QED
    BY <1>14, <2>1, <2>2, DropKeeps, Assemble
<1>15. ASSUME NEW ok \in BOOLEAN, FallbackToken(t, ok) PROVE IInv'
  <2>1. /\ pc[t] = "fallbackToken" /\ Room /\ SharedOK' /\ pc[t] \in Holding
    BY <1>15, <1>a, <1>b DEF FallbackToken, Holding
  <2>2. CASE ok
    BY <1>15, <2>1, <2>2, MoveKeeps DEF FallbackToken, Places, Holding
  <2>3. CASE ~ok
    BY <1>14, <1>15, <2>1, <2>3 DEF FallbackToken
  <2> QED
    BY <2>2, <2>3
<1>16. CASE Token(t)
  <2>1. /\ pc[t] = "token" /\ Room /\ SharedOK' /\ pc[t] \in Holding
    BY <1>16, <1>a, <1>b DEF Token, Holding
  <2>2. CASE limited[guard[t]]
    BY <1>14, <1>16, <2>1, <2>2 DEF Token
  <2>3. CASE ~limited[guard[t]]
    BY <1>16, <2>1, <2>3, MoveKeeps DEF Token, Places, Holding
  <2> QED
    BY <2>2, <2>3
<1>17. ASSUME NEW d \in BOOLEAN, NEW c \in BOOLEAN, TokenFails(t, d, c) PROVE IInv'
  <2>1. pc[t] = "token" /\ Room /\ pc[t] \in Holding /\ Drop(t)
    BY <1>17, <1>b DEF TokenFails, Holding
  <2>2. SharedOK'
    BY <1>17, <1>a DEF TokenFails, SharedOK, Tiers
  <2> QED
    BY <1>14, <1>17, <2>1, <2>2 DEF TokenFails
<1>18. CASE Finish(t)
  <2>1. pc[t] \in Holding /\ SharedOK'
    BY <1>18, <1>a DEF Finish, Holding
  <2> QED
    BY <1>14, <1>18, <2>1 DEF Finish
<1> QED
  BY <1>1, <1>2, <1>3, <1>4, <1>6, <1>7, <1>8, <1>10, <1>11, <1>12, <1>13, <1>15, <1>16,
     <1>17, <1>18 DEF Step

(* The invariant holds at start and every step keeps it.                   *)
THEOREM Inductive == Spec => []IInv
<1> USE AcquireConstants
<1>1. Init => IInv
  <2> SUFFICES ASSUME Init PROVE IInv
    OBVIOUS
  <2>1. TypeOK
    BY DEF Init, TypeOK, Tiers, Places, Nothing
  <2>2. GuardHeld /\ AttemptLeft
    BY DEF Init, GuardHeld, Holding, AttemptLeft
  <2>3. InflightExact
    <3>1. \A i \in Creds : {t \in Threads : guard[t] = i} = {}
      BY DEF Init, NoCred
    <3>2. inflight = [i \in Creds |-> 0]
      BY DEF Init
    <3> QED
      BY <3>1, <3>2, FS_EmptySet DEF InflightExact
  <2> QED
    BY <2>1, <2>2, <2>3 DEF IInv
<1>2. IInv /\ [Next]_vars => IInv'
  <2> SUFFICES ASSUME IInv, [Next]_vars PROVE IInv'
    OBVIOUS
  <2>1. ASSUME NEW t \in Threads, Step(t) PROVE IInv'
    BY <2>1, StepKeeps
  <2>2. ASSUME NEW t \in Threads, NEW E \in SUBSET Creds, Begin(t, E) PROVE IInv'
    <3>1. TypeOK'
      BY <2>2 DEF Begin, IInv, TypeOK, gates, Places
    <3>2. GuardHeld' /\ AttemptLeft'
      BY <2>2 DEF Begin, IInv, TypeOK, GuardHeld, AttemptLeft, Holding
    <3>3. InflightExact'
      BY <2>2 DEF Begin, IInv, InflightExact
    <3> QED
      BY <3>1, <3>2, <3>3 DEF IInv
  <2>3. ASSUME NEW i \in Creds, Environment(i) PROVE IInv'
    <3>1. UNCHANGED others
      BY <2>3 DEF Environment, MoveOff, MoveBlocked, MoveLimited, MoveCool, RpmExpires
    <3>2. TypeOK'
      <4> USE <3>1 DEF others, request, IInv, TypeOK
      <4>1. CASE MoveOff(i)
        BY <4>1 DEF MoveOff
      <4>2. CASE MoveBlocked(i)
        BY <4>2 DEF MoveBlocked
      <4>3. CASE MoveLimited(i)
        BY <4>3 DEF MoveLimited
      <4>4. CASE RpmExpires(i)
        BY <4>4 DEF RpmExpires, gates
      <4>5. ASSUME NEW k \in Tiers, MoveCool(i, k) PROVE TypeOK'
        BY <4>5 DEF MoveCool
      <4> QED
        BY <2>3, <4>1, <4>2, <4>3, <4>4, <4>5 DEF Environment
    <3>3. GuardHeld' /\ AttemptLeft' /\ InflightExact'
      BY <3>1 DEF others, request, IInv, GuardHeld, AttemptLeft, InflightExact
    <3> QED
      BY <3>2, <3>3 DEF IInv
  <2>4. CASE UNCHANGED vars
    BY <2>4 DEF vars, gates, request, IInv, TypeOK, GuardHeld, AttemptLeft, InflightExact
  <2> QED
    BY <2>1, <2>2, <2>3, <2>4 DEF Next
<1> QED
  BY <1>1, <1>2, PTL DEF Spec

(* The state of the selection is always of its type: no budget of the loop *)
(* is overrun.                                                             *)
THEOREM TypeCorrect == Spec => []TypeOK
<1>1. IInv => TypeOK
  BY DEF IInv
<1> QED
  BY <1>1, Inductive, PTL

(* Every path through acquire_context_excluding, the fallback and each     *)
(* error path included, keeps the in-flight counts exact and within the    *)
(* limit, for any number of concurrent requests.                           *)
THEOREM InflightCorrect == Spec => []InflightExact
<1>1. IInv => InflightExact
  BY DEF IInv
<1> QED
  BY <1>1, Inductive, PTL

(* select_next_credential and transient_wait_outcome agree for every pool, *)
(* every set of excluded credentials and every state of the gates: the     *)
(* busy loop that MAX_RACE_RESELECT cuts off needs the gates to move       *)
(* between the two calls each time round.                                  *)
THEOREM GatesAlwaysAgree == Spec => []GatesAgree
<1>1. IInv => GatesAgree
  <2> SUFFICES ASSUME IInv, NEW E \in SUBSET Creds, NEW i \in Immediate
               PROVE  Picks(E) # {}
    BY DEF GatesAgree
  <2>1. i \in Selectable /\ (HardGate => ~Saturated(i))
    BY AcquireConstants DEF Immediate, Candidates, Cooling, RpmRecovery, ConcurrencyFull,
                            Selectable, Fallbacks, IInv, TypeOK, Tiers
  <2>2. Prefer(Selectable, E) # {}
    BY <2>1 DEF Prefer
  <2>3. CASE HardGate
    <3>1. \E j \in SaturationPool(E) : ~Saturated(j)
      BY <2>1, <2>3 DEF SaturationPool
    <3> QED
      BY <3>1 DEF Picks
  <2>4. CASE ~HardGate
    BY <2>2, <2>4 DEF Picks
  <2> QED
    BY <2>3, <2>4
<1> QED
  BY <1>1, Inductive, PTL

(***************************************************************************)
(* The rotation of the fallback.                                           *)
(***************************************************************************)

(* Going up from the cursor and round from the top, k comes before j.      *)
Before(k, j) == IF cursor < j THEN cursor < k /\ k < j ELSE cursor < k \/ k < j

(* What was picked while j was passed over does not come before j again.   *)
Rotating ==
    \A j \in Creds : \A k \in turns[j] : cursor # j /\ ~Before(k, j)

(* The fallback's pick comes before every other of the pool it chose from. *)
LEMMA PickIsNext ==
    ASSUME TypeOK, NEW S \in SUBSET Creds, S # {}
    PROVE  /\ NextAfter(S) \in S
           /\ \A j \in S \ {NextAfter(S)} : j # cursor => Before(NextAfter(S), j)
<1> DEFINE ahead == {i \in S : i > cursor}
           from == IF ahead = {} THEN S ELSE ahead
<1>1. S \subseteq Nat /\ cursor \in Nat
  BY AcquireConstants DEF TypeOK, NoCred
<1>2. from \in SUBSET Nat /\ from # {}
  BY <1>1
<1>3. NextAfter(S) \in from /\ \A j \in from : NextAfter(S) <= j
  BY <1>2, Smallest DEF NextAfter
<1>4. NextAfter(S) \in S /\ NextAfter(S) \in Nat
  BY <1>1, <1>3
<1> HIDE DEF from
<1>5. CASE ahead = {}
  <2>1. from = S /\ \A j \in S : j <= cursor
    BY <1>1, <1>5 DEF from
  <2> QED
    BY <1>1, <1>3, <1>4, <2>1 DEF Before
<1>6. CASE ahead # {}
  <2>1. from = ahead
    BY <1>6 DEF from
  <2>2. NextAfter(S) > cursor
    BY <1>3, <2>1
  <2>3. \A j \in S : j > cursor => NextAfter(S) <= j
    BY <1>3, <2>1
  <2> QED
    BY <1>1, <1>4, <2>2, <2>3 DEF Before
<1> QED
  BY <1>5, <1>6

(* Only the fallback moves the cursor.                                     *)
LEMMA CursorMoves ==
    ASSUME [Next]_vars
    PROVE  UNCHANGED <<cursor, turns>> \/ \E t \in Threads : Fallback(t)
<1>1. ASSUME NEW t \in Threads, Step(t) PROVE UNCHANGED <<cursor, turns>> \/ Fallback(t)
  BY <1>1 DEF Step, OutOfAttempts, Select, SelectNone, Revive, NothingRevived, NoCandidate, Available,
     WaitBusy, WaitCooling, FallbackToken, Fallen, Token, TokenFails, Finish
<1>2. ASSUME NEW i \in Creds, Environment(i) PROVE UNCHANGED <<cursor, turns>>
  BY <1>2 DEF Environment, MoveOff, MoveBlocked, MoveLimited, MoveCool, RpmExpires, others
<1> QED
  BY <1>1, <1>2 DEF Next, Begin, vars

(* What a pick of the fallback is.                                         *)
LEMMA AtPick ==
    ASSUME IInv, NEW t \in Threads, Fallback(t), pc'[t] # "fallen"
    PROVE  \E best \in SUBSET Creds :
              /\ best # {} /\ guard'[t] = NextAfter(best) /\ cursor' = NextAfter(best)
              /\ turns' = [j \in Creds |-> IF j \in best \ {NextAfter(best)}
                                           THEN turns[j] \cup {NextAfter(best)} ELSE {}]
<1> DEFINE best == BestTier(Prefer(Fallbacks, excl[t]))
<1>1. best \subseteq Creds
  BY PicksAreFree DEF Fallbacks
<1>2. best # {}
  <2>1. SUFFICES ASSUME best = {} PROVE FALSE
    OBVIOUS
  <2>2. Go(t, "fallen")
    BY <2>1 DEF Fallback
  <2> QED
    BY <2>2 DEF Go, IInv, TypeOK
<1>3. /\ Commit(t, NextAfter(best)) /\ cursor' = NextAfter(best)
      /\ turns' = [j \in Creds |-> IF j \in best \ {NextAfter(best)}
                                   THEN turns[j] \cup {NextAfter(best)} ELSE {}]
  BY <1>2 DEF Fallback
<1> HIDE DEF best
<1>4. guard'[t] = NextAfter(best)
  BY <1>3 DEF Commit, IInv, TypeOK
<1> QED
  BY <1>1, <1>2, <1>3, <1>4

(* The rotation is kept.                                                   *)
LEMMA RotationKept ==
    ASSUME IInv, Rotating, [Next]_vars
    PROVE  Rotating'
<1>1. CASE UNCHANGED <<cursor, turns>>
  BY <1>1 DEF Rotating, Before
<1>2. ASSUME NEW t \in Threads, Fallback(t) PROVE Rotating'
  <2>1. CASE pc'[t] = "fallen"
    <3>1. UNCHANGED <<cursor, turns>>
      BY <1>2, <2>1 DEF Fallback, Go, IInv, TypeOK
    <3> QED
      BY <1>1, <3>1
  <2>2. CASE pc'[t] # "fallen"
    <3>1. PICK best \in SUBSET Creds :
              /\ best # {} /\ cursor' = NextAfter(best)
              /\ turns' = [j \in Creds |-> IF j \in best \ {NextAfter(best)}
                                           THEN turns[j] \cup {NextAfter(best)} ELSE {}]
      BY <1>2, <2>2, AtPick
    <3> DEFINE i == NextAfter(best)
    <3>2. /\ i \in best /\ cursor \in Nat /\ Creds \subseteq Nat /\ i \in Nat
          /\ \A j \in best \ {i} : j # cursor => Before(i, j)
      <4>1. i \in best /\ \A j \in best \ {i} : j # cursor => Before(i, j)
        BY <3>1, PickIsNext DEF IInv
      <4>2. cursor \in Nat /\ Creds \subseteq Nat
        BY AcquireConstants DEF IInv, TypeOK, NoCred
      <4> QED
        BY <4>1, <4>2
    <3>3. \A j \in Creds : turns[j] \subseteq Nat
      BY <3>2 DEF IInv, TypeOK
    <3> HIDE DEF i
    <3>4. ASSUME NEW j \in Creds, NEW k \in turns'[j] PROVE cursor' # j /\ ~(Before(k, j))'
      <4>1. j \in best \ {i} /\ k \in turns[j] \cup {i} /\ j \in Nat /\ k \in Nat
        BY <3>1, <3>2, <3>3, <3>4 DEF i
      <4>2. cursor' = i /\ i # j
        BY <3>1, <4>1 DEF i
      <4>3. k = i => ~(Before(k, j))'
        BY <3>2, <4>1, <4>2 DEF Before
      <4>4. k # i => ~(Before(k, j))'
        <5>1. k # i => j # cursor /\ ~Before(k, j)
          BY <4>1 DEF Rotating
        <5>2. j # cursor => Before(i, j)
          BY <3>2, <4>1
        <5> QED
          BY <3>2, <4>1, <4>2, <5>1, <5>2 DEF Before
      <4> QED
        BY <4>2, <4>3, <4>4
    <3> QED
      BY <3>4 DEF Rotating
  <2> QED
    BY <2>1, <2>2
<1> QED
  BY <1>1, <1>2, CursorMoves

(* A request that gets its credential from the fallback does so in the     *)
(* fallback's own step.                                                    *)
LEMMA OnlyFallbackPicks ==
    ASSUME IInv, [Next]_vars, NEW t \in Threads, pc[t] = "cooling", pc'[t] = "fallbackToken"
    PROVE  Fallback(t)
<1>1. pc \in [Threads -> Places] /\ pc' # pc
  BY DEF IInv, TypeOK
<1>2. ASSUME NEW u \in Threads, Step(u), u # t PROVE pc'[t] = pc[t]
  <2>1. \E p \in Places : pc' = [pc EXCEPT ![u] = p]
    BY <1>2 DEF Step, OutOfAttempts, Select, SelectNone, MaySelect, Revive, NothingRevived, NoCandidate,
       Available, WaitBusy, WaitCooling, Fallback, FallbackToken, Fallen, SleepOrGiveUp, Token, TokenFails,
       Finish, Go, Spend, Leave, Places
  <2> QED
    BY <1>1, <1>2, <2>1
<1>3. ASSUME Step(t) PROVE Fallback(t)
  BY <1>3 DEF Step, OutOfAttempts, Select, SelectNone, MaySelect, Revive, NothingRevived, NoCandidate,
     Available, WaitBusy, WaitCooling, FallbackToken, Fallen, Token, TokenFails, Finish
<1>4. ASSUME NEW u \in Threads, NEW E, Begin(u, E) PROVE FALSE
  BY <1>1, <1>4 DEF Begin
<1>5. ASSUME NEW i \in Creds, Environment(i) PROVE FALSE
  BY <1>1, <1>5 DEF Environment, MoveOff, MoveBlocked, MoveLimited, MoveCool, RpmExpires, others, request
<1> QED
  BY <1>1, <1>2, <1>3, <1>4, <1>5 DEF Next, vars, request

(* select_ignoring_cooldown spreads over the equally good: none of them is *)
(* passed over twice for the same other one.                               *)
THEOREM FallbackSpreads == Spec => FallbackRotates
<1>1. Init => Rotating
  BY DEF Init, Rotating
<1>2. IInv /\ Rotating /\ [Next]_vars => Rotating'
  BY RotationKept
<1>3. IInv /\ Rotating /\ [Next]_vars =>
         [\A t \in Threads :
            (pc[t] = "cooling" /\ pc'[t] = "fallbackToken")
                => \A j \in Creds : (j # guard'[t] /\ guard'[t] \in turns[j]) => turns'[j] = {}]_vars
  <2> SUFFICES ASSUME IInv, Rotating, [Next]_vars, NEW t \in Threads,
                      pc[t] = "cooling", pc'[t] = "fallbackToken",
                      NEW j \in Creds, j # guard'[t], guard'[t] \in turns[j]
               PROVE  turns'[j] = {}
    OBVIOUS
  <2>1. PICK best \in SUBSET Creds :
            /\ best # {} /\ guard'[t] = NextAfter(best)
            /\ turns' = [k \in Creds |-> IF k \in best \ {NextAfter(best)}
                                         THEN turns[k] \cup {NextAfter(best)} ELSE {}]
    BY OnlyFallbackPicks, AtPick
  <2>2. j # cursor /\ ~Before(guard'[t], j)
    BY DEF Rotating
  <2>3. j \notin best
    BY <2>1, <2>2, PickIsNext DEF IInv
  <2> QED
    BY <2>1, <2>3
<1> QED
  BY <1>1, <1>2, <1>3, Inductive, PTL DEF Spec, FallbackRotates
=============================================================================
