------------------------- MODULE TokenRefreshProofs -------------------------
(***************************************************************************)
(* Proofs about TokenRefresh, for any number of calls, logins, rotations   *)
(* and attempts, and for every auth method; and about ProfileArn, for any  *)
(* number of tasks and ARNs.                                               *)
(***************************************************************************)
EXTENDS TokenRefresh, ProfileArn, TLAPS

(* A token is accepted by the provider, or its login's successor was lost. *)
Good(t) == Live(t) \/ t.root \in lost

(* The provider is only called, and its answer only written, under the lock. *)
LockHeld == \A f \in Flights : pc[f] \in {"calling", "answered"} => holder = f

(* While a call holds its copy, the entry changes only to a newer login. *)
CopyFollowed ==
    \A f \in Flights : pc[f] \in {"calling", "answered"} =>
        entry.refresh = snap[f].refresh \/ entry.refresh.root > snap[f].refresh.root

CopyGood == \A f \in Flights : pc[f] = "calling" => Good(snap[f].refresh)

AnswerGood ==
    \A f \in Flights : pc[f] = "answered" =>
        Good(answer[f]) /\ answer[f].root = snap[f].refresh.root

(* The entry's token is good, or the call that has its successor is about to write it. *)
EntryGood ==
    Good(entry.refresh)
    \/ \E f \in Flights : pc[f] = "answered" /\ snap[f].refresh = entry.refresh

RejectedLost == \A f \in Flights : pc[f] = "rejected" => lost # {}

Kept == /\ LockHeld /\ CopyFollowed /\ CopyGood /\ AnswerGood
        /\ EntryGood /\ RejectedLost /\ InvalidOnlyIfLost

IInv == TypeOK /\ Kept

(* The part of TypeOK that the end of a call moves. *)
LocalsOK ==
    /\ holder \in Flights \cup {NoFlight}
    /\ pc \in [Flights -> Places]
    /\ snap \in [Flights -> Creds] /\ tries \in [Flights -> 0..MaxTries - 1]
    /\ answer \in [Flights -> Tokens]

LEMMA FirstOK == First \in Creds /\ First.refresh \in Tokens /\ 0 \in 0..MaxTries - 1
BY TokenRefreshConstants DEF First, Creds, Tokens

(* A call that leaves, ends or tries again keeps the types of its locals. *)
LEMMA LeaveTypes ==
    ASSUME TypeOK, NEW f \in Flights, NEW place \in Places, Leave(f, place)
    PROVE  LocalsOK'
BY FirstOK DEF TypeOK, Leave, LocalsOK

LEMMA EndTypes ==
    ASSUME TypeOK, NEW f \in Flights, End(f)
    PROVE  LocalsOK' /\ kind' \in [Flights -> Kinds]
<1>1. LocalsOK'
  BY LeaveTypes DEF End, Places
<1> QED
  BY <1>1 DEF End, TypeOK, Kinds

LEMMA NextAttemptTypes ==
    ASSUME TypeOK, NEW f \in Flights, NEW r, NextAttempt(f, r)
    PROVE  LocalsOK' /\ kind' \in [Flights -> Kinds]
<1>1. CASE End(f)
  BY <1>1, EndTypes
<1>2. CASE ~End(f)
  BY <1>2, TokenRefreshConstants DEF NextAttempt, TypeOK, LocalsOK
<1> QED
  BY <1>1, <1>2

LEMMA TypeStep ==
    ASSUME TypeOK, [Next]_vars
    PROVE  TypeOK'
<1>1. ASSUME NEW f \in Flights, RequestNeeds(f) \/ PrefetchDue(f) \/ ForceRefresh(f) PROVE TypeOK'
  BY <1>1 DEF RequestNeeds, PrefetchDue, ForceRefresh, TypeOK, Places, Kinds
<1>2. ASSUME NEW f \in Flights, LockTimeout(f) PROVE TypeOK'
  BY <1>2, EndTypes DEF LockTimeout, TypeOK, LocalsOK
<1>3. ASSUME NEW f \in Flights, TakeLock(f) PROVE TypeOK'
  <2>1. CASE End(f)
    BY <1>3, <2>1, EndTypes DEF TakeLock, TypeOK, LocalsOK
  <2>2. CASE ~End(f)
    BY <1>3, <2>2 DEF TakeLock, TypeOK, Places
  <2> QED
    BY <2>1, <2>2
<1>4. ASSUME NEW f \in Flights, Accepted(f) PROVE TypeOK'
  <2> DEFINE t == snap[f].refresh
  <2>1. t.root \in Roots /\ t.gen \in 0..MaxGens /\ t \in Tokens
    BY DEF TypeOK, Creds, Tokens
  <2>2. PICK rotate \in BOOLEAN :
            LET next == IF rotate THEN [t EXCEPT !.gen = @ + 1] ELSE t IN
            /\ rotate => t.gen < MaxGens
            /\ idp' = [idp EXCEPT ![t.root] = next.gen]
            /\ answer' = [answer EXCEPT ![f] = next]
    BY <1>4 DEF Accepted
  <2> DEFINE next == IF rotate THEN [t EXCEPT !.gen = @ + 1] ELSE t
  <2>3. next \in Tokens /\ next.gen \in 0..MaxGens
    BY <2>1, <2>2, TokenRefreshConstants DEF Tokens
  <2> HIDE DEF next, t
  <2>4. idp' \in [Roots -> 0..MaxGens] /\ answer' \in [Flights -> Tokens]
    BY <2>2, <2>3 DEF TypeOK, next, t
  <2> QED
    BY <1>4, <2>4 DEF Accepted, TypeOK, Places
<1>5. ASSUME NEW f \in Flights, AnswerLost(f) PROVE TypeOK'
  <2>1. snap[f].refresh.root \in Roots /\ snap[f].refresh.gen \in 0..MaxGens
    BY DEF TypeOK, Creds, Tokens
  <2>2. idp[snap[f].refresh.root] + 1 \in 0..MaxGens
    BY <1>5, <2>1, TokenRefreshConstants DEF AnswerLost, Live
  <2>3. idp' \in [Roots -> 0..MaxGens]
    BY <1>5, <2>1, <2>2 DEF AnswerLost, TypeOK
  <2>4. lost' \subseteq Roots
    BY <1>5, <2>1 DEF AnswerLost, TypeOK
  <2> QED
    BY <1>5, <2>3, <2>4, NextAttemptTypes DEF AnswerLost, TypeOK, LocalsOK
<1>6. ASSUME NEW f \in Flights, Failed(f) PROVE TypeOK'
  BY <1>6, NextAttemptTypes DEF Failed, TypeOK, LocalsOK
<1>7. ASSUME NEW f \in Flights, Rejected(f) PROVE TypeOK'
  BY <1>7, LeaveTypes DEF Rejected, TypeOK, LocalsOK, Places
<1>8. ASSUME NEW f \in Flights, ReportInvalid(f) PROVE TypeOK'
  BY <1>8, EndTypes DEF ReportInvalid, TypeOK, LocalsOK
<1>9. ASSUME NEW f \in Flights, WriteBack(f) PROVE TypeOK'
  <2>1. CASE IsStale(f)
    BY <1>9, <2>1, EndTypes DEF WriteBack, TypeOK, LocalsOK
  <2>2. CASE ~IsStale(f)
    <3>1. entry' \in Creds
      <4>1. entry' = [refresh |-> answer[f], valid |-> TRUE]
        BY <1>9, <2>2 DEF WriteBack
      <4>2. answer[f] \in Tokens
        BY DEF TypeOK
      <4> QED
        BY <4>1, <4>2 DEF Creds
    <3>2. LocalsOK'
      BY <1>9, <2>2, LeaveTypes DEF WriteBack, Places
    <3> QED
      BY <1>9, <2>2, <3>1, <3>2 DEF WriteBack, TypeOK, LocalsOK
  <2> QED
    BY <2>1, <2>2
<1>10. ASSUME NEW f \in Flights, RegionDone(f) PROVE TypeOK'
  BY <1>10 DEF RegionDone, TypeOK, Places
<1>11. ASSUME NEW f \in Flights, Persist(f) PROVE TypeOK'
  BY <1>11, EndTypes DEF Persist, TypeOK, LocalsOK
<1>12. ASSUME NEW f \in Flights, Abandon(f) PROVE TypeOK'
  <2>1. snap[f].refresh.root \in Roots
    BY DEF TypeOK, Creds, Tokens
  <2>2. lost' \subseteq Roots
    BY <1>12, <2>1 DEF Abandon, TypeOK
  <2> QED
    BY <1>12, <2>2, EndTypes DEF Abandon, TypeOK, LocalsOK
<1>13. ASSUME NEW r \in Roots, StoreToken(r) PROVE TypeOK'
  <2>1. entry' = [refresh |-> [root |-> r, gen |-> idp[r]], valid |-> FALSE]
    BY <1>13 DEF StoreToken, TypeOK, Creds
  <2>2. entry' \in Creds
    BY <2>1 DEF TypeOK, Creds, Tokens
  <2> QED
    BY <1>13, <2>2 DEF StoreToken, TypeOK, call
<1>14. CASE Expire
  BY <1>14 DEF Expire, TypeOK, call, Creds
<1>15. CASE Enable
  BY <1>15 DEF Enable, TypeOK, call
<1>16. CASE Restart
  BY <1>16, FirstOK DEF Restart, TypeOK, Places, Kinds
<1>17. CASE UNCHANGED vars
  BY <1>17 DEF vars, call, TypeOK
<1> QED
  BY <1>1, <1>2, <1>3, <1>4, <1>5, <1>6, <1>7, <1>8, <1>9, <1>10, <1>11, <1>12, <1>13, <1>14,
     <1>15, <1>16, <1>17 DEF Next, Step

(* The strengthening is inductive: one step per action. *)
LEMMA KeptStep ==
    ASSUME IInv, [Next]_vars
    PROVE  Kept'
<1> USE TokenRefreshConstants, NoFlightIsNone
    DEF IInv, Kept, TypeOK, LockHeld, CopyFollowed, CopyGood, AnswerGood, EntryGood, RejectedLost,
        InvalidOnlyIfLost, Good, Live, Creds, Tokens
<1>1. ASSUME NEW f \in Flights, RequestNeeds(f) \/ PrefetchDue(f) \/ ForceRefresh(f) PROVE Kept'
  <2>1. pc' = [pc EXCEPT ![f] = "waiting"] /\ pc[f] = "idle"
    BY <1>1 DEF RequestNeeds, PrefetchDue, ForceRefresh
  <2>2. UNCHANGED <<entry, invalid, holder, snap, answer, idp, lost>>
    BY <1>1 DEF RequestNeeds, PrefetchDue, ForceRefresh
  <2> QED
    BY <2>1, <2>2
<1>2. ASSUME NEW f \in Flights, LockTimeout(f) PROVE Kept'
  BY <1>2 DEF LockTimeout, End, Leave
<1>3. ASSUME NEW f \in Flights, TakeLock(f) PROVE Kept'
  <2>1. LockHeld'
    BY <1>3 DEF TakeLock, End, Leave
  <2>2. CopyFollowed'
    BY <1>3 DEF TakeLock, End, Leave
  <2>3. CopyGood'
    BY <1>3 DEF TakeLock, End, Leave
  <2>4. AnswerGood'
    BY <1>3 DEF TakeLock, End, Leave
  <2>5. EntryGood'
    BY <1>3 DEF TakeLock, End, Leave
  <2>6. RejectedLost'
    BY <1>3 DEF TakeLock, End, Leave
  <2>7. InvalidOnlyIfLost'
    BY <1>3 DEF TakeLock, End, Leave
  <2> QED
    BY <2>1, <2>2, <2>3, <2>4, <2>5, <2>6, <2>7
<1>4. ASSUME NEW f \in Flights, Accepted(f) PROVE Kept'
  <2>1. LockHeld'
    BY <1>4 DEF Accepted
  <2>2. CopyFollowed'
    BY <1>4 DEF Accepted
  <2>3. CopyGood'
    BY <1>4 DEF Accepted
  <2>4. AnswerGood'
    BY <1>4 DEF Accepted
  <2>5. EntryGood'
    BY <1>4 DEF Accepted
  <2>6. RejectedLost'
    BY <1>4 DEF Accepted
  <2>7. InvalidOnlyIfLost'
    BY <1>4 DEF Accepted
  <2> QED
    BY <2>1, <2>2, <2>3, <2>4, <2>5, <2>6, <2>7
<1>5. ASSUME NEW f \in Flights, AnswerLost(f) PROVE Kept'
  <2>1. LockHeld'
    BY <1>5 DEF AnswerLost, NextAttempt, End, Leave
  <2>2. CopyFollowed'
    BY <1>5 DEF AnswerLost, NextAttempt, End, Leave
  <2>3. CopyGood'
    BY <1>5 DEF AnswerLost, NextAttempt, End, Leave
  <2>4. AnswerGood'
    BY <1>5 DEF AnswerLost, NextAttempt, End, Leave
  <2>5. EntryGood'
    BY <1>5 DEF AnswerLost, NextAttempt, End, Leave
  <2>6. RejectedLost'
    BY <1>5 DEF AnswerLost, NextAttempt, End, Leave
  <2>7. InvalidOnlyIfLost'
    BY <1>5 DEF AnswerLost, NextAttempt, End, Leave
  <2> QED
    BY <2>1, <2>2, <2>3, <2>4, <2>5, <2>6, <2>7
<1>6. ASSUME NEW f \in Flights, Failed(f) PROVE Kept'
  <2>1. LockHeld'
    BY <1>6 DEF Failed, NextAttempt, End, Leave
  <2>2. CopyFollowed'
    BY <1>6 DEF Failed, NextAttempt, End, Leave
  <2>3. CopyGood'
    BY <1>6 DEF Failed, NextAttempt, End, Leave
  <2>4. AnswerGood'
    BY <1>6 DEF Failed, NextAttempt, End, Leave
  <2>5. EntryGood'
    BY <1>6 DEF Failed, NextAttempt, End, Leave
  <2>6. RejectedLost'
    BY <1>6 DEF Failed, NextAttempt, End, Leave
  <2>7. InvalidOnlyIfLost'
    BY <1>6 DEF Failed, NextAttempt, End, Leave
  <2> QED
    BY <2>1, <2>2, <2>3, <2>4, <2>5, <2>6, <2>7
<1>7. ASSUME NEW f \in Flights, Rejected(f) PROVE Kept'
  BY <1>7 DEF Rejected, Leave
<1>8. ASSUME NEW f \in Flights, ReportInvalid(f) PROVE Kept'
  BY <1>8 DEF ReportInvalid, End, Leave
<1>9. ASSUME NEW f \in Flights, WriteBack(f) PROVE Kept'
  <2>1. LockHeld'
    BY <1>9 DEF WriteBack, End, Leave, IsStale
  <2>2. CopyFollowed'
    BY <1>9 DEF WriteBack, End, Leave, IsStale
  <2>3. CopyGood'
    BY <1>9 DEF WriteBack, End, Leave, IsStale
  <2>4. AnswerGood'
    BY <1>9 DEF WriteBack, End, Leave, IsStale
  <2>5. EntryGood'
    BY <1>9 DEF WriteBack, End, Leave, IsStale
  <2>6. RejectedLost'
    BY <1>9, SMTT(30) DEF WriteBack, End, Leave, IsStale
  <2>7. InvalidOnlyIfLost'
    BY <1>9 DEF WriteBack, End, Leave, IsStale
  <2> QED
    BY <2>1, <2>2, <2>3, <2>4, <2>5, <2>6, <2>7
<1>10. ASSUME NEW f \in Flights, RegionDone(f) PROVE Kept'
  BY <1>10 DEF RegionDone
<1>11. ASSUME NEW f \in Flights, Persist(f) PROVE Kept'
  BY <1>11 DEF Persist, End, Leave
<1>12. ASSUME NEW f \in Flights, Abandon(f) PROVE Kept'
  BY <1>12 DEF Abandon, End, Leave
<1>13. ASSUME NEW r \in Roots, StoreToken(r) PROVE Kept'
  BY <1>13 DEF StoreToken, call
<1>14. CASE Expire
  BY <1>14 DEF Expire, call
<1>15. CASE Enable
  BY <1>15 DEF Enable, call
<1>16. CASE Restart
  BY <1>16 DEF Restart
<1>17. CASE UNCHANGED vars
  BY <1>17 DEF vars, call
<1> QED
  BY <1>1, <1>2, <1>3, <1>4, <1>5, <1>6, <1>7, <1>8, <1>9, <1>10, <1>11, <1>12, <1>13, <1>14,
     <1>15, <1>16, <1>17 DEF Next, Step

LEMMA Invariance == Spec => []IInv
<1>1. Init => IInv
  <2> SUFFICES ASSUME Init PROVE IInv
    OBVIOUS
  <2>1. TypeOK
    <3>1. /\ method \in Methods /\ entry \in Creds /\ disk \in Creds /\ invalid \in BOOLEAN
          /\ holder \in Flights \cup {NoFlight} /\ lost \subseteq Roots
      BY FirstOK DEF Init
    <3>2. pc \in [Flights -> Places] /\ kind \in [Flights -> Kinds]
      BY DEF Init, Places, Kinds
    <3>3. /\ snap \in [Flights -> Creds] /\ tries \in [Flights -> 0..MaxTries - 1]
          /\ answer \in [Flights -> Tokens]
      BY FirstOK DEF Init
    <3>4. idp \in [Roots -> 0..MaxGens]
      BY TokenRefreshConstants DEF Init
    <3> QED
      BY <3>1, <3>2, <3>3, <3>4 DEF TypeOK
  <2>2. Kept
    BY TokenRefreshConstants DEF Init, Kept, LockHeld, CopyFollowed, CopyGood, AnswerGood, EntryGood,
       RejectedLost, InvalidOnlyIfLost, Good, Live, First
  <2> QED
    BY <2>1, <2>2 DEF IInv
<1>2. IInv /\ [Next]_vars => IInv'
  BY TypeStep, KeptStep DEF IInv
<1> QED
  BY <1>1, <1>2, PTL DEF Spec

(* The types of TokenRefresh: no generation passes what the provider issued, no call passes its     *)
(* attempts.                                                                                        *)
THEOREM TypeCorrect == Spec => []TypeOK
<1>1. IInv => TypeOK
  BY DEF IInv
<1> QED
  BY <1>1, Invariance, PTL

(* refresh_token_locked presents a consumed refresh token only if its successor was really lost:    *)
(* for any number of concurrent requests, prefetches and forced refreshes of one credential.        *)
THEOREM NoReplayHolds == Spec => []NoReplay
<1>1. IInv => NoReplay
  BY DEF IInv, Kept, CopyGood, Good, Live, NoReplay
<1> QED
  BY <1>1, Invariance, PTL

(* A credential is disabled as invalid only after a rotation was really lost, however late the      *)
(* report (report_refresh_token_invalid) comes.                                                     *)
THEOREM InvalidEarned == Spec => []InvalidOnlyIfLost
<1>1. IInv => InvalidOnlyIfLost
  BY DEF IInv, Kept
<1> QED
  BY <1>1, Invariance, PTL

(* The write-back of a refresh never puts an older login over a newer one; only a restart from an   *)
(* unwritten file goes back.                                                                        *)
THEOREM AdminTokenStays == Spec => AdminTokenKept
<1> DEFINE Keeps == entry'.refresh.root >= entry.refresh.root
                    \/ (entry' = disk /\ \A f \in Flights : pc'[f] = "idle")
<1>1. IInv /\ [Next]_vars => [Keeps]_vars
  <2> SUFFICES ASSUME IInv, Next PROVE Keeps
    OBVIOUS
  <2>1. entry \in Creds /\ entry.refresh.root \in Nat
    BY TokenRefreshConstants DEF IInv, TypeOK, Creds, Tokens
  <2>2. ASSUME NEW f \in Flights, WriteBack(f) PROVE Keeps
    BY <2>1, <2>2 DEF WriteBack, IsStale, IInv, Kept, AnswerGood
  <2>3. ASSUME NEW r \in Roots, StoreToken(r) PROVE Keeps
    BY <2>1, <2>3, TokenRefreshConstants DEF StoreToken, Creds
  <2>4. CASE Expire
    BY <2>1, <2>4 DEF Expire, Creds
  <2>5. CASE Restart
    BY <2>5 DEF Restart
  <2>6. CASE entry' = entry
    BY <2>1, <2>6
  <2> QED
    BY <2>2, <2>3, <2>4, <2>5, <2>6
    DEF Next, Step, RequestNeeds, PrefetchDue, ForceRefresh, LockTimeout, TakeLock, Accepted, AnswerLost,
        Failed, Rejected, ReportInvalid, RegionDone, Persist, Abandon, Enable
<1> QED
  BY <1>1, Invariance, PTL DEF Spec, AdminTokenKept

(***************************************************************************)
(* The profile ARN: who holds the flag of the background probe, and who    *)
(* has still to write the file.                                            *)
(***************************************************************************)

(* One call at a time waits for the provider, and one task at a time has the flag. *)
ArnInv == ArnTypeOK /\ ProbeFlagHasTask /\ UnsavedArnIsOwed

LEMMA InitArnInv == ArnInit => ArnInv
BY DEF ArnInit, ArnInv, ArnTypeOK, AnyArn, ArnPlaces, ProbeFlagHasTask, UnsavedArnIsOwed

(* What the ends of an await have in common.                               *)
LEMMA ArnMoves ==
    ASSUME ArnTypeOK, NEW t \in Tasks, NEW p \in ArnPlaces \ {"refreshing"},
           \/ Copy(t, p) /\ arn' = arn
           \/ \E a \in AnyArn : Write(t, a, p)
           \/ Drop(t, p)
    PROVE  /\ arn' \in AnyArn /\ at' = [at EXCEPT ![t] = p]
           /\ at' \in [Tasks -> ArnPlaces] /\ seen' \in [Tasks -> AnyArn]
           /\ \A u, v \in Tasks : at'[u] = "refreshing" /\ at'[v] = "refreshing" => u = v
<1>1. /\ at' = [at EXCEPT ![t] = p] /\ at \in [Tasks -> ArnPlaces]
      /\ arn' \in AnyArn
  BY DEF ArnTypeOK, Copy, Write, Drop
<1>2. seen' = seen \/ \E a \in AnyArn : seen' = [seen EXCEPT ![t] = a]
  BY DEF ArnTypeOK, Copy, Write, Drop, AnyArn
<1>3. seen' \in [Tasks -> AnyArn]
  BY <1>2 DEF ArnTypeOK
<1>5. \A u, v \in Tasks : at'[u] = "refreshing" /\ at'[v] = "refreshing" => u = v
  BY <1>1 DEF ArnTypeOK
<1> QED
  BY <1>1, <1>3, <1>5

(* Who owed a write of the file owes it still after a step of another task.  *)
Owes(t) == at[t] \in {"after", "persist"} \/ WroteBack(t)

LEMMA OthersOwe ==
    ASSUME ArnTypeOK, NEW t \in Tasks, NEW p, at' = [at EXCEPT ![t] = p],
           \A u \in Tasks \ {t} : u \in bg' => u \in bg,
           NEW u \in Tasks, u # t, Owes(u)
    PROVE  Owes(u)'
BY DEF ArnTypeOK, Owes, WroteBack

LEMMA StepArnTypes == ArnInv /\ [ArnNext]_arnVars => ArnTypeOK' /\ ProbeFlagHasTask'
<1> DEFINE Typed == ArnTypeOK /\ ProbeFlagHasTask
<1> SUFFICES ASSUME ArnTypeOK, ProbeFlagHasTask, [ArnNext]_arnVars PROVE Typed'
  BY DEF ArnInv
<1> USE DEF ProbeFlagHasTask
<1>1. ASSUME NEW t \in Tasks, RefreshStart(t) PROVE Typed'
  BY <1>1 DEF RefreshStart, Copy, ArnTypeOK, ArnPlaces, AnyArn
<1>2. ASSUME NEW t \in Tasks, RefreshAnswer(t) PROVE Typed'
  <2>1. (\E a \in AnyArn : Write(t, a, "after")) \/ Drop(t, "after")
    BY <1>2 DEF RefreshAnswer, ArnTypeOK, AnyArn
  <2> QED
    BY <1>2, <2>1, ArnMoves DEF RefreshAnswer, ArnTypeOK, ArnPlaces
<1>3. ASSUME NEW t \in Tasks, AfterRefresh(t) PROVE Typed'
  <2>1. \E p \in {"resolving", "probing", "persist"} : Copy(t, p)
    BY <1>3 DEF AfterRefresh
  <2> QED
    BY <1>3, <2>1, ArnMoves DEF AfterRefresh, ArnTypeOK, ArnPlaces
<1>4. ASSUME NEW t \in Tasks, Resolved(t) PROVE Typed'
  <2>1. (\E a \in AnyArn : Write(t, a, "persist")) \/ Drop(t, "persist")
    BY <1>4 DEF Resolved, AnyArn
  <2> QED
    BY <1>4, <2>1, ArnMoves DEF Resolved, ArnTypeOK, ArnPlaces
<1>5. ASSUME NEW t \in Tasks, BackgroundProbe(t) PROVE Typed'
  BY <1>5, ArnMoves DEF BackgroundProbe, ArnTypeOK, ArnPlaces
<1>6. ASSUME NEW t \in Tasks, TokenValidated(t) PROVE Typed'
  <2>1. CASE Copy(t, "probing") /\ UNCHANGED <<arn, bg>>
    BY <1>6, <2>1, ArnMoves DEF TokenValidated, ArnTypeOK, ArnPlaces
  <2>2. CASE Drop(t, "idle") /\ bg' = bg \ {t}
    BY <1>6, <2>2, ArnMoves DEF TokenValidated, ArnTypeOK, ArnPlaces
  <2> QED
    BY <1>6, <2>1, <2>2 DEF TokenValidated
<1>7. ASSUME NEW t \in Tasks, Probed(t) PROVE Typed'
  <2>1. \/ (\E a \in AnyArn : Write(t, a, "persist")) /\ bg' = bg
        \/ Drop(t, "persist") /\ (bg' = bg \/ bg' = bg \ {t})
        \/ Drop(t, "idle") /\ bg' = bg \ {t}
    BY <1>7 DEF Probed, AnyArn
  <2>2. usage403' \in BOOLEAN /\ allBad' \in BOOLEAN
    BY <1>7, Zenon DEF Probed, ArnTypeOK
  <2>3. at[t] = "probing" /\ UNCHANGED <<authMethod, arnOnDisk, missed>>
    BY <1>7 DEF Probed
  <2> QED
    BY <2>1, <2>2, <2>3, ArnMoves DEF ArnTypeOK, ArnPlaces
<1>8. ASSUME NEW t \in Tasks, PersistArn(t) \/ AbandonTask(t) PROVE Typed'
  <2>1. missed' \in BOOLEAN
    BY <1>8, Zenon DEF PersistArn, AbandonTask, ArnTypeOK
  <2>2. Drop(t, "idle") /\ bg' = bg \ {t} /\ arnOnDisk' \in {arn, arnOnDisk}
        /\ UNCHANGED <<authMethod, usage403, allBad>>
    BY <1>8 DEF PersistArn, AbandonTask
  <2> QED
    BY <2>1, <2>2, ArnMoves DEF ArnTypeOK, ArnPlaces
<1>9. ASSUME NEW t \in Tasks, BackfillStart(t) \/ SwitchStart(t) PROVE Typed'
  BY <1>9, ArnMoves DEF BackfillStart, SwitchStart, ArnTypeOK, ArnPlaces
<1>10. ASSUME NEW t \in Tasks, Backfilled(t) \/ Switched(t) PROVE Typed'
  <2>1. (\E a \in AnyArn : Write(t, a, "persist")) \/ Drop(t, "idle")
    BY <1>10 DEF Backfilled, Switched, AnyArn
  <2>2. usage403' \in BOOLEAN /\ allBad' \in BOOLEAN
    BY <1>10, Zenon DEF Backfilled, Switched, ArnTypeOK
  <2>3. at[t] \in {"backfilling", "switching"} /\ UNCHANGED <<authMethod, arnOnDisk, bg, missed>>
    BY <1>10 DEF Backfilled, Switched
  <2> QED
    BY <2>1, <2>2, <2>3, ArnMoves DEF ArnTypeOK, ArnPlaces
<1>11. ASSUME Usage403 \/ PauseEnds PROVE Typed'
  <2>1. usage403' \in BOOLEAN /\ allBad' \in BOOLEAN
    BY <1>11, Zenon DEF Usage403, PauseEnds, ArnTypeOK
  <2>2. UNCHANGED <<authMethod, arn, arnOnDisk, at, seen, bg, missed>>
    BY <1>11 DEF Usage403, PauseEnds
  <2> QED
    BY <2>1, <2>2 DEF ArnTypeOK
<1>12. CASE RestartTasks
  BY <1>12 DEF RestartTasks, ArnTypeOK, AnyArn, ArnPlaces
<1>13. CASE UNCHANGED arnVars
  BY <1>13 DEF arnVars, ArnTypeOK
<1> QED
  BY <1>1, <1>2, <1>3, <1>4, <1>5, <1>6, <1>7, <1>8, <1>9, <1>10, <1>11, <1>12, <1>13 DEF ArnNext

(* Whoever writes an ARN owes the file a write from then on. A task gives  *)
(* up what it owes only by writing the file, in vain too, or by being      *)
(* dropped, and `missed' knows of the last two.                            *)
LEMMA StepUnsaved == ArnInv /\ [ArnNext]_arnVars => UnsavedArnIsOwed'
<1> DEFINE Owed == arn = arnOnDisk \/ missed \/ \E u \in Tasks : Owes(u)
<1> SUFFICES ASSUME ArnInv, [ArnNext]_arnVars PROVE Owed'
  BY DEF UnsavedArnIsOwed, Owes, WroteBack
<1>0. ArnTypeOK /\ Owed
  BY DEF ArnInv, UnsavedArnIsOwed, Owes
<1>a. ASSUME NEW t \in Tasks, NEW p \in {"after", "persist"}, at' = [at EXCEPT ![t] = p] PROVE Owed'
  <2>1. at'[t] = p
    BY <1>0, <1>a DEF ArnTypeOK
  <2> QED
    BY <2>1 DEF Owes
<1>b. ASSUME NEW t \in Tasks, NEW p, at' = [at EXCEPT ![t] = p], ~Owes(t), bg' \subseteq bg \cup {t},
             UNCHANGED <<arn, arnOnDisk, missed>>
      PROVE  Owed'
  BY <1>0, <1>b, OthersOwe
<1>1. ASSUME NEW t \in Tasks, RefreshStart(t) \/ BackfillStart(t) \/ SwitchStart(t) \/ BackgroundProbe(t)
      PROVE Owed'
  <2>1. at[t] = "idle" /\ (\E p \in ArnPlaces : Copy(t, p)) /\ bg' \subseteq bg \cup {t}
        /\ UNCHANGED <<arn, arnOnDisk, missed>>
    BY <1>1 DEF RefreshStart, BackfillStart, SwitchStart, BackgroundProbe, ArnPlaces
  <2> QED
    BY <2>1, <1>b DEF Copy, Owes, WroteBack
<1>2. ASSUME NEW t \in Tasks, RefreshAnswer(t) \/ Resolved(t) PROVE Owed'
  BY <1>2, <1>a DEF RefreshAnswer, Resolved, Write, Drop
<1>3. ASSUME NEW t \in Tasks, AfterRefresh(t) PROVE Owed'
  <2>1. PICK p \in {"resolving", "probing", "persist"} : Copy(t, p)
    BY <1>3 DEF AfterRefresh
  <2>2. t \notin bg /\ bg' = bg
    BY <1>3 DEF AfterRefresh, ArnInv, ProbeFlagHasTask
  <2>3. Owes(t)'
    BY <1>0, <2>1, <2>2 DEF Copy, Owes, WroteBack, ArnTypeOK
  <2> QED
    BY <2>3
<1>4. ASSUME NEW t \in Tasks, TokenValidated(t) PROVE Owed'
  BY <1>4, <1>b DEF TokenValidated, Copy, Drop, Owes, WroteBack
<1>5. ASSUME NEW t \in Tasks, Probed(t) PROVE Owed'
  <2>1. CASE \E a \in Arns : Write(t, a, "persist")
    BY <2>1, <1>a DEF Write
  <2>2. CASE Drop(t, "persist")
    BY <2>2, <1>a DEF Drop
  <2>3. CASE t \in bg /\ Drop(t, "idle") /\ bg' = bg \ {t}
    BY <1>5, <2>3, <1>b DEF Probed, Drop, Owes, WroteBack
  <2> QED
    BY <1>5, <2>1, <2>2, <2>3 DEF Probed
<1>6. ASSUME NEW t \in Tasks, PersistArn(t) PROVE Owed'
  BY <1>6 DEF PersistArn, Drop
<1>7. ASSUME NEW t \in Tasks, AbandonTask(t) PROVE Owed'
  <2>1. CASE missed \/ WroteBack(t)
    BY <1>7, <2>1 DEF AbandonTask
  <2>2. CASE ~missed /\ ~WroteBack(t)
    <3>1. ~Owes(t) /\ missed' = missed
      BY <1>0, <1>7, <2>2, Zenon DEF AbandonTask, Awaits, Owes, ArnTypeOK
    <3> QED
      BY <1>7, <3>1, <1>b DEF AbandonTask, Drop
  <2> QED
    BY <2>1, <2>2
<1>8. ASSUME NEW t \in Tasks, Backfilled(t) \/ Switched(t) PROVE Owed'
  <2>1. CASE \E a \in Arns : Write(t, a, "persist")
    BY <2>1, <1>a DEF Write
  <2>2. CASE Drop(t, "idle")
    BY <1>8, <2>2, <1>b DEF Backfilled, Switched, Drop, Owes, WroteBack
  <2> QED
    BY <1>8, <2>1, <2>2 DEF Backfilled, Switched
<1>9. CASE Usage403 \/ PauseEnds \/ UNCHANGED arnVars
  BY <1>0, <1>9 DEF Usage403, PauseEnds, arnVars, Owes, WroteBack
<1>10. CASE RestartTasks
  BY <1>10 DEF RestartTasks
<1> QED
  BY <1>1, <1>2, <1>3, <1>4, <1>5, <1>6, <1>7, <1>8, <1>9, <1>10 DEF ArnNext

LEMMA ArnInvariance == ArnSpec => []ArnInv
<1>1. ArnInv /\ [ArnNext]_arnVars => ArnInv'
  BY StepArnTypes, StepUnsaved DEF ArnInv
<1> QED
  BY <1>1, InitArnInv, PTL DEF ArnSpec

(* However a background probe ends, while its token is validated or later, dropped and restarted    *)
(* ones included, the flag of a credential is set only while its task runs.                         *)
THEOREM ProbeFlagCleared == ArnSpec => []ProbeFlagHasTask
<1>1. ArnInv => ProbeFlagHasTask
  BY DEF ArnInv
<1> QED
  BY <1>1, ArnInvariance, PTL

(* An ARN that the file does not have has a task that will write it, unless the last write failed   *)
(* or a refresh was dropped after its write-back.                                                   *)
THEOREM UnsavedArnOwed == ArnSpec => []UnsavedArnIsOwed
<1>1. ArnInv => UnsavedArnIsOwed
  BY DEF ArnInv
<1> QED
  BY <1>1, ArnInvariance, PTL
=============================================================================
