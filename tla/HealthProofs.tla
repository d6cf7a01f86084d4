------------------------------ MODULE HealthProofs ------------------------------
(***************************************************************************)
(* Proofs about what the reports of the requests do to a credential: about  *)
(* PoolLifecycle, for any set of credentials, any division into families,   *)
(* any number of requests and any thresholds, and about Gates, for any      *)
(* credentials, families, tables of durations and thresholds.               *)
(***************************************************************************)
EXTENDS PoolLifecycle, Gates, WellFoundedInduction, TLAPS

(***************************************************************************)
(* Maxima and minima, as FiniteSetsExt defines them.                       *)
(***************************************************************************)

(* The maximum of a nonempty set of numbers below a bound is one of them,  *)
(* and none is greater.                                                    *)
LEMMA MaxOfBounded ==
    ASSUME NEW n \in Nat, NEW S \in SUBSET (0..n), S # {}
    PROVE  Max(S) \in S /\ \A y \in S : Max(S) >= y
<1> DEFINE D == {n - y : y \in S}
<1>1. D \subseteq Nat /\ D # {}
  <2>1. \A y \in S : n - y \in Nat
    OBVIOUS
  <2>2. PICK y \in S : TRUE
    OBVIOUS
  <2>3. n - y \in D
    OBVIOUS
  <2> QED
    BY <2>1, <2>3, Zenon
<1>2. PICK d \in D : \A e \in D : ~ (<<e, d>> \in OpToRel(<, Nat))
  BY <1>1, NatLessThanWellFounded, WFMin
<1>3. \A e \in D : ~ (e < d)
  BY <1>1, <1>2 DEF OpToRel
<1>4. PICK x \in S : d = n - x
  OBVIOUS
<1>5. \A y \in S : x >= y
  <2> SUFFICES ASSUME NEW y \in S PROVE x >= y
    OBVIOUS
  <2>1. n - y \in D /\ ~ (n - y < n - x)
    BY <1>3, <1>4
  <2> QED
    BY <2>1
<1> QED
  BY <1>5 DEF Max

(* The smaller of two numbers.                                             *)
LEMMA MinOfTwo ==
    ASSUME NEW a \in Nat, NEW b \in Nat
    PROVE  Min({a, b}) = IF a <= b THEN a ELSE b
BY DEF Min

(***************************************************************************)
(* The inductive invariant.  What an entry has counted is covered by the   *)
(* suspicious reports on its account since the last success, which are the *)
(* same for all clones of the account.                                     *)
(***************************************************************************)

HitsCover ==
    /\ \A i, j \in Creds : Family(i) = Family(j) => hits[i] = hits[j]
    /\ \A i \in Creds : suspicious[i] <= hits[i]

IInv == TypeOK /\ EnabledHasHeadroom /\ HitsCover

(* The count that report_suspicious_activity gives the enabled clones is   *)
(* at most the threshold, and at most one more than the reports so far.    *)
LEMMA FamilyCountBounds ==
    ASSUME IInv, NEW i \in Creds, reason[i] = Enabled
    PROVE  /\ FamilyCount(i) \in 0..MaxSuspicious
           /\ \A j \in Clan(i) : FamilyCount(i) <= hits[j] + 1
<1> DEFINE E == {k \in Clan(i) : reason[k] = Enabled}
           S == {suspicious[j] : j \in E}
<1>1. i \in E /\ E \subseteq Creds /\ \A j \in E : j \in Clan(i) /\ reason[j] = Enabled
  BY DEF Clan
<1>2. MaxSuspicious - 1 \in Nat
  BY LifecycleConstants
<1>3. S # {} /\ S \in SUBSET (0..MaxSuspicious - 1)
  <2>1. \A j \in E : suspicious[j] \in 0..MaxSuspicious - 1
    <3> SUFFICES ASSUME NEW j \in Creds, reason[j] = Enabled
                 PROVE  suspicious[j] \in 0..MaxSuspicious - 1
      BY <1>1
    <3> QED
      BY <1>2, LifecycleConstants DEF IInv, TypeOK, EnabledHasHeadroom
  <2>2. suspicious[i] \in S
    BY <1>1
  <2> QED
    BY <2>1, <2>2, Zenon
<1> HIDE DEF E, S
<1>4. Max(S) \in S
  BY <1>2, <1>3, MaxOfBounded
<1>5. PICK k \in E : Max(S) = suspicious[k]
  BY <1>4 DEF S
<1>6. FamilyCount(i) = Max(S) + 1
  BY DEF FamilyCount, S, E
<1>7. \A j \in Clan(i) : suspicious[k] <= hits[j]
  BY <1>1, <1>5 DEF IInv, HitsCover, Clan
<1>8. suspicious[k] \in 0..MaxSuspicious - 1
  BY <1>3, <1>4, <1>5
<1>9. \A j \in Clan(i) : hits[j] \in Nat
  BY DEF IInv, TypeOK, Clan
<1> QED
  BY <1>5, <1>6, <1>7, <1>8, <1>9, LifecycleConstants

(* Taking credentials out of the disabled state keeps the invariant: their *)
(* counters are all cleared.                                               *)
LEMMA ReenableKeeps ==
    ASSUME IInv, NEW back \in SUBSET Creds, Reenable(back), UNCHANGED hits
    PROVE  /\ reason' \in [Creds -> Reasons]
           /\ fails' \in [Creds -> 0..MaxFailures]
           /\ refreshFails' \in [Creds -> 0..MaxFailures]
           /\ suspicious' \in [Creds -> 0..MaxSuspicious]
           /\ EnabledHasHeadroom'
           /\ HitsCover'
<1>1. 0 \in 0..MaxFailures /\ 0 \in 0..MaxSuspicious /\ 0 < MaxFailures /\ 0 < MaxSuspicious
  BY LifecycleConstants
<1>2. Enabled \in Reasons
  BY DEF Reasons
<1>3. /\ reason' \in [Creds -> Reasons]
      /\ fails' \in [Creds -> 0..MaxFailures]
      /\ refreshFails' \in [Creds -> 0..MaxFailures]
      /\ suspicious' \in [Creds -> 0..MaxSuspicious]
  BY <1>1, <1>2, Zenon DEF IInv, TypeOK, Reenable, Cleared
<1>4. EnabledHasHeadroom'
  BY <1>1 DEF IInv, TypeOK, Reenable, Cleared, EnabledHasHeadroom
<1>5. HitsCover'
  BY <1>1, LifecycleConstants DEF IInv, TypeOK, Reenable, Cleared, HitsCover
<1> QED
  BY <1>3, <1>4, <1>5

(* The thresholds and the successes of one credential.                     *)
LEMMA ReportKeeps ==
    ASSUME IInv, NEW i \in Creds, Report(i)
    PROVE  IInv'
<1> USE LifecycleConstants
<1>1. CASE ReportFailure(i)
  BY <1>1 DEF ReportFailure, StillEnabled, IInv, TypeOK, EnabledHasHeadroom, HitsCover,
              healing, requests, Reasons, Automatic, Enabled
<1>2. CASE ReportRefreshFailure(i)
  BY <1>2 DEF ReportRefreshFailure, StillEnabled, IInv, TypeOK, EnabledHasHeadroom, HitsCover,
              healing, requests, Reasons, Automatic, Enabled
<1>3. CASE RefreshSucceeds(i)
  BY <1>3 DEF RefreshSucceeds, IInv, TypeOK, EnabledHasHeadroom, HitsCover, healing, requests
<1>4. ASSUME NEW why \in {"QuotaExceeded", "AccountSuspended"},
             ReportExhaustedOrSuspended(i, why)
      PROVE  IInv'
  BY <1>4 DEF ReportExhaustedOrSuspended, IInv, TypeOK, EnabledHasHeadroom, HitsCover,
              healing, requests, Reasons, Automatic, Enabled
<1>5. CASE ReportRefreshTokenInvalid(i)
  BY <1>5 DEF ReportRefreshTokenInvalid, IInv, TypeOK, EnabledHasHeadroom, HitsCover,
              counters, healing, requests, Reasons, Automatic, Enabled
<1>6. CASE ReportSuspicious(i)
  <2> DEFINE n == FamilyCount(i)
             hit == {j \in Clan(i) : reason[j] = Enabled}
  <2>1. n \in 0..MaxSuspicious /\ \A j \in Clan(i) : n <= hits[j] + 1
    BY <1>6, FamilyCountBounds DEF ReportSuspicious
  <2>2. /\ suspicious' = [j \in Creds |-> IF j \in hit THEN n ELSE suspicious[j]]
        /\ reason' = [j \in Creds |-> IF j \in hit /\ Dead(n)
                                      THEN "SuspiciousActivityAuto" ELSE reason[j]]
        /\ UNCHANGED <<fails, refreshFails, healing, requests>>
    BY <1>6 DEF ReportSuspicious
  <2>3. hits' = [j \in Creds |-> IF j \in Clan(i)
                                 THEN IF hits[j] + 1 <= MaxSuspicious THEN hits[j] + 1
                                                                      ELSE MaxSuspicious
                                 ELSE hits[j]]
    <3>1. \A j \in Creds : Min({hits[j] + 1, MaxSuspicious})
              = IF hits[j] + 1 <= MaxSuspicious THEN hits[j] + 1 ELSE MaxSuspicious
      BY MinOfTwo DEF IInv, TypeOK
    <3> QED
      BY <1>6, <3>1 DEF ReportSuspicious
  <2> HIDE DEF n
  <2>4. TypeOK'
    BY <2>1, <2>2, <2>3 DEF IInv, TypeOK, healing, requests, Reasons, Automatic
  <2>5. EnabledHasHeadroom'
    BY <2>1, <2>2 DEF IInv, TypeOK, EnabledHasHeadroom, Dead, Enabled, Clan
  <2>6. HitsCover'
    <3>1. \A j, k \in Creds : Family(j) = Family(k) => hits'[j] = hits'[k]
      BY <2>3 DEF IInv, TypeOK, HitsCover, Clan
    <3>2. \A j \in Creds : suspicious'[j] <= hits'[j]
      BY <2>1, <2>2, <2>3 DEF IInv, TypeOK, HitsCover
    <3> QED
      BY <3>1, <3>2 DEF HitsCover
  <2> QED
    BY <2>4, <2>5, <2>6 DEF IInv
<1>7. CASE ReportRegionProbeFailed(i)
  BY <1>7 DEF ReportRegionProbeFailed, IInv, TypeOK, EnabledHasHeadroom, HitsCover,
              counters, healing, requests, Reasons, Automatic, Enabled
<1> QED
  BY <1>1, <1>2, <1>3, <1>4, <1>5, <1>6, <1>7 DEF Report

(* The steps of a request, self-healing included, keep the invariant.      *)
LEMMA RequestKeeps ==
    ASSUME IInv, NEW t \in Threads, Request(t)
    PROVE  IInv'
<1> USE LifecycleConstants
<1>1. ASSUME NEW i \in Creds, ReportSuccess(t, i) PROVE IInv'
  BY <1>1 DEF ReportSuccess, IInv, TypeOK, EnabledHasHeadroom, HitsCover, counters
<1>2. CASE ResetStreak(t)
  BY <1>2 DEF ResetStreak, IInv, TypeOK, EnabledHasHeadroom, HitsCover, counters
<1>3. CASE CountSuccess(t)
  <2>1. TypeOK'
    <3>1. /\ fails' \in [Creds -> 0..MaxFailures]
          /\ refreshFails' \in [Creds -> 0..MaxFailures]
      <4>1. 0 \in 0..MaxFailures
        OBVIOUS
      <4>2. \A i \in Creds : /\ fails'[i] = IF i = on[t] THEN 0 ELSE fails[i]
                            /\ refreshFails'[i] = IF i = on[t] THEN 0 ELSE refreshFails[i]
        BY <1>3 DEF CountSuccess, IInv, TypeOK
      <4> QED
        BY <1>3, <4>1, <4>2, Zenon DEF CountSuccess, IInv, TypeOK
    <3>2. /\ suspicious' \in [Creds -> 0..MaxSuspicious]
          /\ hits' \in [Creds -> 0..MaxSuspicious]
      BY <1>3 DEF CountSuccess, IInv, TypeOK
    <3>3. /\ on' \in [Threads -> Creds \cup {NoCred}]
          /\ pc' \in [Threads -> {"idle", "none", "revive", "reset", "count"}]
      BY <1>3 DEF CountSuccess, IInv, TypeOK
    <3> QED
      BY <1>3, <3>1, <3>2, <3>3 DEF CountSuccess, IInv, TypeOK, healing
  <2>2. EnabledHasHeadroom' /\ HitsCover'
    <3>1. on[t] \in Creds \/ on[t] = NoCred
      BY DEF IInv, TypeOK
    <3> QED
      BY <1>3, <3>1 DEF CountSuccess, IInv, TypeOK, EnabledHasHeadroom, HitsCover, Clan
  <2> QED
    BY <2>1, <2>2 DEF IInv
<1>4. ASSUME NEW able \in SUBSET Creds, SelectNone(t, able) PROVE IInv'
  BY <1>4 DEF SelectNone, IInv, TypeOK, EnabledHasHeadroom, HitsCover, counters, healing
<1>5. CASE SelfHeal(t)
  <2> DEFINE healed == {i \in Creds : reason[i] \in Healable}
  <2>1. CASE healed # {} /\ elapsed >= Wait
    <3>1. /\ elapsed' = 0 /\ streak' = Min({streak + 1, MaxShift + 1})
          /\ Reenable(healed) /\ UNCHANGED hits
          /\ batch' = [batch EXCEPT ![t] = healed]
          /\ pc' = [pc EXCEPT ![t] = "revive"]
          /\ UNCHANGED <<revived, on, hits>>
      BY <1>5, <2>1 DEF SelfHeal
    <3>2. streak' \in 0..MaxShift + 1
      <4>1. streak + 1 \in Nat /\ MaxShift + 1 \in Nat
        BY DEF IInv, TypeOK
      <4>2. Min({streak + 1, MaxShift + 1})
                = IF streak + 1 <= MaxShift + 1 THEN streak + 1 ELSE MaxShift + 1
        BY <4>1, MinOfTwo
      <4> QED
        BY <3>1, <4>1, <4>2
    <3> QED
      BY <3>1, <3>2, ReenableKeeps DEF IInv, TypeOK
  <2>2. CASE ~ (healed # {} /\ elapsed >= Wait)
    <3>1. /\ pc' = [pc EXCEPT ![t] = "idle"]
          /\ UNCHANGED <<reason, counters, streak, elapsed, batch, revived, on, hits>>
      BY <1>5, <2>2 DEF SelfHeal
    <3> QED
      BY <3>1 DEF IInv, TypeOK, EnabledHasHeadroom, HitsCover, counters
  <2> QED
    BY <2>1, <2>2
<1>6. CASE RecordRevived(t)
  BY <1>6 DEF RecordRevived, IInv, TypeOK, EnabledHasHeadroom, HitsCover, counters
<1> QED
  BY <1>1, <1>2, <1>3, <1>4, <1>5, <1>6 DEF Request

(* The invariant holds at start and every step keeps it.                   *)
THEOREM Inductive == Spec => []IInv
<1> USE LifecycleConstants
<1>1. Init => IInv
  BY DEF Init, IInv, TypeOK, EnabledHasHeadroom, HitsCover, Reasons
<1>2. IInv /\ [Next]_vars => IInv'
  <2> SUFFICES ASSUME IInv, [Next]_vars PROVE IInv'
    OBVIOUS
  <2>1. ASSUME NEW i \in Creds, Report(i) PROVE IInv'
    BY <2>1, ReportKeeps
  <2>2. ASSUME NEW i \in Creds, AdminDisables(i) PROVE IInv'
    BY <2>2 DEF AdminDisables, IInv, TypeOK, EnabledHasHeadroom, HitsCover,
                counters, healing, requests, Reasons, Enabled
  <2>3. ASSUME NEW i \in Creds, AdminEnables(i) PROVE IInv'
    BY <2>3, ReenableKeeps DEF AdminEnables, IInv, TypeOK, healing, requests
  <2>4. ASSUME NEW due \in SUBSET Creds, RecoverQuota(due) PROVE IInv'
    BY <2>4, ReenableKeeps DEF RecoverQuota, IInv, TypeOK, healing, requests
  <2>5. ASSUME NEW t \in Threads, Request(t) PROVE IInv'
    BY <2>5, RequestKeeps
  <2>6. CASE Tick
    BY <2>6 DEF Tick, IInv, TypeOK, EnabledHasHeadroom, HitsCover, counters, requests
  <2>7. CASE UNCHANGED vars
    BY <2>7 DEF vars, IInv, TypeOK, EnabledHasHeadroom, HitsCover, counters, healing, requests
  <2> QED
    BY <2>1, <2>2, <2>3, <2>4, <2>5, <2>6, <2>7 DEF Next
<1> QED
  BY <1>1, <1>2, PTL DEF Spec

(* The state of the pool is always of its type; in particular no counter   *)
(* passes its threshold, since no report counts on a disabled credential.  *)
THEOREM TypeCorrect == Spec => []TypeOK
<1>1. IInv => TypeOK
  BY DEF IInv
<1> QED
  BY <1>1, Inductive, PTL

(* Whatever reports, recoveries, self-healings and administrators do in    *)
(* whatever order, an enabled credential is below every threshold.         *)
THEOREM Headroom == Spec => []EnabledHasHeadroom
<1>1. IInv => EnabledHasHeadroom
  BY DEF IInv
<1> QED
  BY <1>1, Inductive, PTL

(* A credential that only a person may bring back is brought back by a     *)
(* person, and until then no other step gives it a reason of another kind. *)
THEOREM TerminalStays == Spec => TerminalUntilAdmin
<1> DEFINE Leaves(i) == reason[i] \in Terminal /\ reason'[i] \notin Terminal
           Kept == \A i \in Creds : Leaves(i) => AdminEnables(i)
<1>1. IInv /\ [Next]_vars => [Kept]_vars
  <2> SUFFICES ASSUME IInv, Next, NEW i \in Creds, Leaves(i) PROVE AdminEnables(i)
    OBVIOUS
  <2>1. reason[i] # Enabled /\ reason[i] # "QuotaExceeded" /\ reason[i] \notin Healable
    BY DEF Terminal, Healable, Enabled
  <2>2. ASSUME NEW j \in Creds, Report(j) PROVE FALSE
    <3>1. reason'[i] = reason[i] \/ reason'[i] = "RegionProbeFailed"
      BY <2>1, <2>2
         DEF Report, ReportFailure, ReportRefreshFailure, RefreshSucceeds,
             ReportExhaustedOrSuspended, ReportRefreshTokenInvalid, ReportSuspicious,
             ReportRegionProbeFailed, StillEnabled, IInv, TypeOK
    <3> QED
      BY <3>1 DEF Terminal
  <2>3. ASSUME NEW j \in Creds, AdminDisables(j) PROVE FALSE
    BY <2>3 DEF AdminDisables, Terminal, IInv, TypeOK
  <2>4. ASSUME NEW j \in Creds, AdminEnables(j) PROVE AdminEnables(i)
    <3>1. i = j
      BY <2>4 DEF AdminEnables, Reenable
    <3> QED
      BY <2>4, <3>1
  <2>5. ASSUME NEW due \in SUBSET Creds, RecoverQuota(due) PROVE FALSE
    BY <2>1, <2>5 DEF RecoverQuota, Reenable
  <2>6. ASSUME NEW t \in Threads, Request(t) PROVE FALSE
    <3>1. CASE SelfHeal(t)
      BY <2>1, <3>1 DEF SelfHeal, Reenable
    <3>2. CASE UNCHANGED reason
      BY <3>2
    <3> QED
      BY <2>6, <3>1, <3>2
         DEF Request, ReportSuccess, ResetStreak, CountSuccess, SelectNone, RecordRevived
  <2>7. CASE Tick
    BY <2>7 DEF Tick
  <2> QED
    BY <2>2, <2>3, <2>4, <2>5, <2>6, <2>7 DEF Next
<1> QED
  BY <1>1, Inductive, PTL DEF Spec, TerminalUntilAdmin

(* No account is disabled for suspicious activity before MaxSuspicious     *)
(* reports with no success of any of its clones in between.                *)
THEOREM EarnedDisable == Spec => DisabledOnlyAfterHits
<1> DEFINE Falls(i) == reason[i] # reason'[i] /\ reason'[i] = "SuspiciousActivityAuto"
           Covered == \A i \in Creds : Falls(i) => hits'[i] = MaxSuspicious
<1>1. IInv /\ [Next]_vars => [Covered]_vars
  <2> SUFFICES ASSUME IInv, Next, NEW i \in Creds, Falls(i) PROVE hits'[i] = MaxSuspicious
    OBVIOUS
  <2>1. ASSUME NEW j \in Creds, ReportSuspicious(j) PROVE hits'[i] = MaxSuspicious
    <3>1. i \in Clan(j) /\ Dead(FamilyCount(j)) /\ reason[j] = Enabled
      BY <2>1 DEF ReportSuspicious
    <3>2. MaxSuspicious <= hits[i] + 1 /\ hits[i] + 1 \in Nat
      BY <3>1, FamilyCountBounds, LifecycleConstants DEF Dead, IInv, TypeOK
    <3>3. hits'[i] = Min({hits[i] + 1, MaxSuspicious})
      BY <2>1, <3>1 DEF ReportSuspicious
    <3> QED
      BY <3>2, <3>3, MinOfTwo, LifecycleConstants
  <2>2. ASSUME NEW j \in Creds, Report(j) PROVE ReportSuspicious(j)
    BY <2>2 DEF Report, ReportFailure, ReportRefreshFailure, RefreshSucceeds,
                ReportExhaustedOrSuspended, ReportRefreshTokenInvalid,
                ReportRegionProbeFailed, IInv, TypeOK
  <2>3. ASSUME NEW j \in Creds, AdminDisables(j) PROVE FALSE
    BY <2>3 DEF AdminDisables, IInv, TypeOK
  <2>4. ASSUME NEW back \in SUBSET Creds, Reenable(back) PROVE FALSE
    BY <2>4 DEF Reenable, Enabled
  <2>5. ASSUME NEW t \in Threads, Request(t), ~ SelfHeal(t) PROVE FALSE
    BY <2>5 DEF Request, ReportSuccess, ResetStreak, CountSuccess, SelectNone, RecordRevived
  <2>6. ASSUME NEW t \in Threads, SelfHeal(t) PROVE FALSE
    BY <2>4, <2>6 DEF SelfHeal
  <2>7. CASE Tick
    BY <2>7 DEF Tick
  <2> QED
    BY <2>1, <2>2, <2>3, <2>4, <2>5, <2>6, <2>7 DEF Next, AdminEnables, RecoverQuota
<1> QED
  BY <1>1, Inductive, PTL DEF Spec, DisabledOnlyAfterHits

(***************************************************************************)
(* Gates: the invariant.                                                   *)
(***************************************************************************)

(* The cooldowns keep their types; no trigger is counted that was not      *)
(* reported, so the tables have a row for each.                            *)
CoolTypes ==
    /\ cool \in [Members -> Entries \cup {None}]
    /\ owed \in [Members -> [any : Nat, hard : Nat]]
    /\ reports \in 0..MaxReports
    /\ \A c \in Members : cool[c] # None => cool[c].count <= reports

(* What is left of a credential's cooldown.                                *)
Left(e) == IF e = None THEN 0 ELSE e.left

(* It is what is owed, and what is owed to a dead credential is part of it. *)
LeftIsOwed ==
    \A c \in Members : Left(cool[c]) = owed[c].any /\ owed[c].hard <= owed[c].any

Fields == {"st", "left", "admit", "seed", "samples", "opens", "hits", "unsettled", "idle"}

(* The successes that a half open circuit has counted are recent.          *)
Earns(s, n) ==
    /\ DOMAIN s = Fields
    /\ s.st \in {"closed", "open", "half"}
    /\ s.st = "half" => s.samples \in Nat /\ s.samples <= n

SamplesAreRecent ==
    /\ circuit = [f \in Families |-> circuit[f]]
    /\ successes \in [Families -> 0..RecoveryFull]
    /\ \A f \in Families : circuit[f] # None => Earns(circuit[f], successes[f])

GatesInv == CoolTypes /\ LeftIsOwed /\ SamplesAreRecent

(* An entry is not None.                                                   *)
LEMMA NoneIsNoEntry == None \notin Entries
<1> SUFFICES ASSUME None \in Entries PROVE FALSE
  OBVIOUS
<1>1. \A e \in Entries : "left" \in DOMAIN e
  BY DEF Entries
<1>2. "left" \notin DOMAIN None
  BY DEF None
<1> QED
  BY <1>1, <1>2

(* The greater and the smaller of two numbers.                             *)
LEMMA MaxOfTwo ==
    ASSUME NEW a \in Nat, NEW b \in Nat
    PROVE  Max({a, b}) = IF a >= b THEN a ELSE b
<1> DEFINE m == IF a >= b THEN a ELSE b
<1>1. m \in {a, b} /\ \A y \in {a, b} : m >= y
  OBVIOUS
<1>2. \A x \in {a, b} : (\A y \in {a, b} : x >= y) => x = m
  OBVIOUS
<1> QED
  BY <1>1, <1>2 DEF Max

(***************************************************************************)
(* Cooldowns.                                                              *)
(***************************************************************************)

(* The next trigger has a row in the tables.                               *)
LEMMA TriggeredCounts ==
    ASSUME GatesInv, reports < MaxReports, NEW c \in Members, NEW r \in CooldownReasons
    PROVE  /\ Triggered(cool[c], r) \in Counts /\ Triggered(cool[c], r) <= reports + 1
           /\ 1 \in Counts
<1>1. /\ reports \in Nat /\ MaxReports \in Nat /\ Calm \in Nat \ {0}
      /\ cool[c] # None => cool[c] \in Entries /\ cool[c].count <= reports
  <2>1. cool \in [Members -> Entries \cup {None}] /\ (cool[c] # None => cool[c].count <= reports)
    BY DEF GatesInv, CoolTypes
  <2>2. reports \in Nat /\ MaxReports \in Nat /\ Calm \in Nat \ {0}
    BY NumberAssumption DEF GatesInv, CoolTypes
  <2> QED
    BY <2>1, <2>2
<1>2. CASE cool[c] # None /\ cool[c].reason = r
  <2>1. cool[c].count \in Nat /\ cool[c].count <= reports /\ cool[c].past \div Calm \in Nat
    BY <1>1, <1>2 DEF Entries, Counts
  <2> DEFINE n == Less(cool[c].count, cool[c].past \div Calm)
  <2>2. n \in Nat /\ n <= reports
    BY <1>1, <2>1 DEF Less
  <2>3. Triggered(cool[c], r) = n + 1
    BY <1>2 DEF Triggered
  <2> HIDE DEF n
  <2>4. n + 1 \in 1..MaxReports /\ n + 1 <= reports + 1 /\ 1 \in 1..MaxReports
    BY <1>1, <2>2
  <2> QED
    BY <2>3, <2>4 DEF Counts
<1>3. CASE ~(cool[c] # None /\ cool[c].reason = r)
  BY <1>1, <1>3 DEF Triggered, Counts
<1> QED
  BY <1>2, <1>3

(* A credential that is set to cool owes what is left.                     *)
LEMMA SetKeeps ==
    ASSUME GatesInv, Reported, NEW c \in Members, NEW r \in CooldownReasons, NEW length \in Nat \ {0},
           SetCooldown(c, r, length)
    PROVE  CoolTypes' /\ LeftIsOwed'
<1>1. /\ cool \in [Members -> Entries \cup {None}] /\ owed \in [Members -> [any : Nat, hard : Nat]]
      /\ \A d \in Members : cool[d] # None => cool[d].count <= reports
      /\ \A d \in Members : Left(cool[d]) = owed[d].any /\ owed[d].hard <= owed[d].any
      /\ reports \in Nat /\ reports' = reports + 1 /\ reports < MaxReports /\ MaxReports \in Nat
  BY NumberAssumption DEF GatesInv, CoolTypes, LeftIsOwed, Reported
<1>2. Triggered(cool[c], r) \in Counts /\ Triggered(cool[c], r) <= reports'
  BY <1>1, TriggeredCounts
<1> DEFINE e == Cooled(c, r, length)
           n == Max({Left(cool[c]), length})
<1>3. e = [reason |-> r, left |-> n, past |-> 0, count |-> Triggered(cool[c], r)]
  BY DEF Cooled, Longer, Left
<1>4. Left(cool[c]) = owed[c].any /\ owed[c].any \in Nat /\ owed[c].hard \in Nat /\ owed[c].hard <= owed[c].any
  BY <1>1
<1>5. /\ n \in Nat /\ n >= length /\ n >= owed[c].any /\ n = Max({owed[c].any, length})
      /\ Max({owed[c].hard, length}) \in Nat /\ Max({owed[c].hard, length}) <= n
  BY <1>4, MaxOfTwo
<1> HIDE DEF n
<1>6. e \in Entries /\ e # None /\ e.left = n /\ e.count <= reports'
  BY <1>2, <1>3, <1>5, NoneIsNoEntry DEF Entries
<1>7. cool' = [cool EXCEPT ![c] = e]
  BY DEF SetCooldown
<1> HIDE DEF e
<1> DEFINE h == IF r \in AutoRecoverable THEN owed[c].hard ELSE Max({owed[c].hard, length})
<1>8. owed' = [owed EXCEPT ![c] = [any |-> n, hard |-> h]]
  BY <1>5 DEF SetCooldown
<1>9. h \in Nat /\ h <= n
  BY <1>4, <1>5
<1> HIDE DEF h
<1>10. CoolTypes'
  <2>1. cool' \in [Members -> Entries \cup {None}] /\ owed' \in [Members -> [any : Nat, hard : Nat]]
    BY <1>1, <1>5, <1>6, <1>7, <1>8, <1>9
  <2>2. reports' \in 0..MaxReports
    BY <1>1
  <2>3. \A d \in Members : cool'[d] # None => cool'[d].count <= reports'
    <3> SUFFICES ASSUME NEW d \in Members, cool'[d] # None PROVE cool'[d].count <= reports'
      OBVIOUS
    <3>1. CASE d = c
      BY <1>1, <1>6, <1>7, <3>1
    <3>2. CASE d # c
      <4>1. cool'[d] = cool[d] /\ cool[d] \in Entries /\ cool[d].count <= reports
        BY <1>1, <1>7, <3>2
      <4>2. cool[d].count \in Nat
        BY <4>1 DEF Entries, Counts
      <4> QED
        BY <1>1, <4>1, <4>2
    <3> QED
      BY <3>1, <3>2
  <2> QED
    BY <2>1, <2>2, <2>3 DEF CoolTypes
<1>11. LeftIsOwed'
  BY <1>1, <1>5, <1>6, <1>7, <1>8, <1>9 DEF LeftIsOwed, Left
<1> QED
  BY <1>10, <1>11

(* A cleared credential owes nothing.                                      *)
LEMMA ClearKeeps ==
    ASSUME GatesInv, NEW c \in Members, UNCHANGED reports,
           cool' = [cool EXCEPT ![c] = None], owed' = [owed EXCEPT ![c] = [any |-> 0, hard |-> 0]]
    PROVE  CoolTypes' /\ LeftIsOwed'
BY DEF GatesInv, CoolTypes, LeftIsOwed, Left

(* What has run out is forgotten at a restart.                             *)
LEMMA RestartKeeps ==
    ASSUME GatesInv, Restart
    PROVE  CoolTypes' /\ LeftIsOwed'
<1>1. /\ cool' = [c \in Members |-> IF Cooling(c) THEN cool[c] ELSE None]
      /\ UNCHANGED <<reports, owed>>
  BY DEF Restart
<1>2. \A c \in Members : cool'[c] \in {cool[c], None} /\ (~Cooling(c) => Left(cool[c]) = 0)
  BY <1>1 DEF GatesInv, CoolTypes, Cooling, Left, Entries
<1>3. CoolTypes'
  BY <1>1, <1>2 DEF GatesInv, CoolTypes
<1>4. LeftIsOwed'
  BY <1>1, <1>2 DEF GatesInv, LeftIsOwed, Left
<1> QED
  BY <1>3, <1>4

(* Time passes for both.                                                   *)
LEMMA TimeCools ==
    ASSUME GatesInv, TimePasses
    PROVE  CoolTypes' /\ LeftIsOwed'
<1>1. /\ cool' = [c \in Members |-> Aged(cool[c])] /\ UNCHANGED reports
      /\ owed' = [c \in Members |-> [any |-> Less(owed[c].any, 1), hard |-> Less(owed[c].hard, 1)]]
  BY DEF TimePasses
<1>2. ASSUME NEW c \in Members, cool[c] # None
      PROVE  /\ Aged(cool[c]) \in Entries /\ Aged(cool[c]).count = cool[c].count
             /\ Aged(cool[c]).left = Less(cool[c].left, 1)
  <2>1. cool[c] \in Entries /\ cool[c].left \in Nat /\ cool[c].past \in Nat /\ cool[c].count \in Nat
    BY <1>2 DEF GatesInv, CoolTypes, Entries, Counts
  <2>2. CASE cool[c].left > 0
    <3>1. Aged(cool[c]) = [cool[c] EXCEPT !.left = cool[c].left - 1] /\ cool[c].left - 1 \in Nat
      BY <1>2, <2>1, <2>2 DEF Aged
    <3>2. cool[c].left > 1 => cool[c].left - 1 = Less(cool[c].left, 1)
      BY <2>1 DEF Less
    <3>3. cool[c].left = 1 => cool[c].left - 1 = Less(cool[c].left, 1)
      BY <2>1 DEF Less
    <3>4. cool[c].left - 1 = Less(cool[c].left, 1)
      BY <2>1, <2>2, <3>2, <3>3
    <3> QED
      BY <2>1, <3>1, <3>4 DEF Entries
  <2>3. CASE cool[c].left = 0
    <3>1. Calm * cool[c].count \in Nat /\ cool[c].past + 1 \in Nat
      BY <2>1, NumberAssumption
    <3>2. Min({cool[c].past + 1, Calm * cool[c].count}) \in Nat
      BY <3>1, MinOfTwo
    <3> QED
      BY <1>2, <2>1, <2>3, <3>2 DEF Aged, Entries, Less
  <2> QED
    BY <2>1, <2>2, <2>3
<1>3. ASSUME NEW c \in Members
      PROVE  Left(Aged(cool[c])) = Less(Left(cool[c]), 1)
  <2>1. CASE cool[c] = None
    BY <2>1 DEF Left, Aged, Less
  <2>2. CASE cool[c] # None
    <3>1. Aged(cool[c]) # None /\ Aged(cool[c]).left = Less(cool[c].left, 1)
      BY <1>2, <2>2, NoneIsNoEntry
    <3> QED
      BY <2>2, <3>1 DEF Left
  <2> QED
    BY <2>1, <2>2
<1>4. CoolTypes'
  <2>1. cool' \in [Members -> Entries \cup {None}]
    BY <1>1, <1>2 DEF Aged
  <2>2. owed' \in [Members -> [any : Nat, hard : Nat]]
    BY <1>1 DEF GatesInv, CoolTypes, Less
  <2>3. \A c \in Members : cool'[c] # None => cool'[c].count <= reports'
    BY <1>1, <1>2 DEF GatesInv, CoolTypes, Aged
  <2> QED
    BY <1>1, <2>1, <2>2, <2>3 DEF GatesInv, CoolTypes
<1>5. LeftIsOwed'
  BY <1>1, <1>3 DEF GatesInv, CoolTypes, LeftIsOwed, Less
<1> QED
  BY <1>4, <1>5

(***************************************************************************)
(* Circuits.                                                               *)
(***************************************************************************)

(* What every report and read begins with neither adds successes nor       *)
(* closes a circuit.                                                       *)
LEMMA SettledEarns ==
    ASSUME GatesInv, NEW f \in Families
    PROVE  /\ Earns(Settled(f), successes[f])
           /\ circuit[f] # None /\ circuit[f].st # "closed" => Settled(f).st # "closed"
           /\ circuit[f] # None => Earns(Ticked(circuit[f]), successes[f])
                                   /\ (circuit[f].st # "closed" => Ticked(circuit[f]).st # "closed")
<1> DEFINE s == IF circuit[f] = None THEN Fresh ELSE circuit[f]
<1>1. Earns(s, successes[f]) /\ successes[f] \in Nat /\ (circuit[f] # None => s = circuit[f])
  <2>1. Earns(Fresh, successes[f])
    BY DEF Earns, Fresh, Fields
  <2> QED
    BY <2>1, NumberAssumption DEF GatesInv, SamplesAreRecent
<1> HIDE DEF s
<1>2. Earns(Ticked(s), successes[f]) /\ (s.st # "closed" => Ticked(s).st # "closed")
  BY <1>1 DEF Earns, Ticked, Fields
<1>3. ASSUME NEW d, Earns(d, successes[f])
      PROVE  Earns(Decayed(d), successes[f]) /\ Decayed(d).st = d.st
  BY <1>3 DEF Earns, Decayed, Fields
<1>4. Settled(f) = Decayed(Ticked(s))
  BY DEF Settled, s
<1> QED
  BY <1>1, <1>2, <1>3, <1>4

(* The state that a report begins with.                                    *)
Met(f, n) == [Settled(f) EXCEPT !.hits = n, !.idle = 0]

(* A circuit that closes has been tried often enough.                      *)
ClosesEarned(f) ==
    (/\ circuit[f] # None /\ circuit[f].st # "closed"
     /\ circuit'[f] # None /\ circuit'[f].st = "closed") => successes'[f] >= RecoveryFull

CircuitKeeps == SamplesAreRecent' /\ \A f \in Families : ClosesEarned(f)

(* The circuit of one family changes.                                      *)
LEMMA OneCircuitKeeps ==
    ASSUME GatesInv, NEW f \in Families, NEW s, NEW n \in 0..RecoveryFull, Earns(s, n),
           circuit' = [circuit EXCEPT ![f] = s], successes' = [successes EXCEPT ![f] = n],
           circuit[f] # None /\ circuit[f].st # "closed" /\ s.st = "closed" => n >= RecoveryFull
    PROVE  CircuitKeeps
<1>1. /\ circuit = [g \in Families |-> circuit[g]] /\ successes \in [Families -> 0..RecoveryFull]
      /\ \A g \in Families : circuit[g] # None => Earns(circuit[g], successes[g])
  BY DEF GatesInv, SamplesAreRecent
<1>2. circuit' = [g \in Families |-> IF g = f THEN s ELSE circuit[g]]
  BY <1>1
<1>3. successes' = [g \in Families |-> IF g = f THEN n ELSE successes[g]]
  BY <1>1
<1>4. SamplesAreRecent'
  BY <1>1, <1>2, <1>3 DEF SamplesAreRecent
<1>5. \A g \in Families : ClosesEarned(g)
  BY <1>2, <1>3 DEF ClosesEarned
<1> QED
  BY <1>4, <1>5 DEF CircuitKeeps

(* A step that leaves the circuits alone, or forgets some.                 *)
LEMMA ForgetKeeps ==
    ASSUME GatesInv, UNCHANGED successes,
           circuit' = [f \in Families |-> circuit'[f]],
           \A f \in Families : circuit'[f] \in {circuit[f], None}
    PROVE  CircuitKeeps
BY DEF GatesInv, SamplesAreRecent, CircuitKeeps, ClosesEarned

(* The state that a report begins with.                                    *)
LEMMA MetEarns ==
    ASSUME GatesInv, NEW f \in Families, NEW n
    PROVE  LET s == [Settled(f) EXCEPT !.hits = n, !.idle = 0]
           IN  /\ Earns(s, successes[f])
               /\ circuit[f] # None /\ circuit[f].st # "closed" => s.st # "closed"
<1> DEFINE d == Settled(f)
<1>1. Earns(d, successes[f]) /\ (circuit[f] # None /\ circuit[f].st # "closed" => d.st # "closed")
  BY SettledEarns
<1> HIDE DEF d
<1>2. \A h : /\ Earns([d EXCEPT !.hits = h, !.idle = 0], successes[f])
             /\ [d EXCEPT !.hits = h, !.idle = 0].st = d.st
  BY <1>1 DEF Earns, Fields
<1>3. \A h : circuit[f] # None /\ circuit[f].st # "closed" => [d EXCEPT !.hits = h, !.idle = 0].st # "closed"
  BY <1>1, <1>2
<1> QED
  BY <1>2, <1>3 DEF d

(* A circuit that opens has nothing to show for it.                        *)
LEMMA OpenEarns ==
    ASSUME NEW s, NEW n, Earns(s, n), NEW length, NEW seed
    PROVE  Earns(OpenFor(s, length, seed), 0) /\ OpenFor(s, length, seed).st # "closed"
BY DEF Earns, OpenFor, Fields

(* A report of 429 or of suspicion.                                        *)
LEMMA FailureKeeps ==
    ASSUME GatesInv, NEW f \in Families, successes' = [successes EXCEPT ![f] = 0],
           On429(f) \/ \E length : FamilySuspicious(f, length)
    PROVE  CircuitKeeps
<1> DEFINE s == [Settled(f) EXCEPT !.hits = @ + 1, !.idle = 0]
<1>1. Earns(s, successes[f]) /\ (circuit[f] # None /\ circuit[f].st # "closed" => s.st # "closed")
  BY MetEarns
<1> HIDE DEF s
<1>2. \E t : /\ circuit' = [circuit EXCEPT ![f] = t]
             /\ \/ t = s /\ s.st # "half"
                \/ \E length, seed : t = OpenFor(s, length, seed)
  BY DEF On429, FamilySuspicious, s
<1>3. PICK t : /\ circuit' = [circuit EXCEPT ![f] = t]
               /\ \/ t = s /\ s.st # "half"
                  \/ \E length, seed : t = OpenFor(s, length, seed)
  BY <1>2
<1>4. Earns(t, 0) /\ (circuit[f] # None /\ circuit[f].st # "closed" => t.st # "closed")
  BY <1>1, <1>3, OpenEarns DEF Earns
<1>5. 0 \in 0..RecoveryFull
  BY NumberAssumption
<1> QED
  BY <1>3, <1>4, <1>5, OneCircuitKeeps

(* A success: one more is counted, and the last closes the circuit.        *)
LEMMA SuccessKeeps ==
    ASSUME GatesInv, NEW f \in Families, OnSuccess(f),
           successes' = [successes EXCEPT ![f] = Min({successes[f] + 1, RecoveryFull})]
    PROVE  CircuitKeeps
<1> DEFINE s == [Settled(f) EXCEPT !.hits = 0, !.idle = 0]
           n == Min({successes[f] + 1, RecoveryFull})
<1>1. Earns(s, successes[f]) /\ (circuit[f] # None /\ circuit[f].st # "closed" => s.st # "closed")
  BY MetEarns
<1>2. successes[f] \in 0..RecoveryFull /\ RecoveryFull \in Nat \ {0}
  BY NumberAssumption DEF GatesInv, SamplesAreRecent
<1>3. n = (IF successes[f] + 1 <= RecoveryFull THEN successes[f] + 1 ELSE RecoveryFull)
  BY <1>2, MinOfTwo
<1>4. n \in 0..RecoveryFull /\ n >= successes[f] /\ (n = successes[f] + 1 \/ n = RecoveryFull)
  BY <1>2, <1>3
<1> HIDE DEF s
<1>5. CASE s.st # "half"
  <2>1. circuit' = [circuit EXCEPT ![f] = s]
    BY <1>5 DEF OnSuccess, s
  <2>2. Earns(s, n) /\ s.st # "half"
    BY <1>1, <1>5 DEF Earns
  <2>3. s.st = "closed" => ~(circuit[f] # None /\ circuit[f].st # "closed")
    BY <1>1
  <2> QED
    BY <1>4, <2>1, <2>2, <2>3, OneCircuitKeeps
<1>6. CASE s.st = "half" /\ s.samples + 1 >= RecoveryFull
  <2> DEFINE t == [s EXCEPT !.samples = @ + 1, !.st = "closed", !.admit = 0, !.opens = 0, !.seed = HALFOPEN_START]
  <2>1. circuit' = [circuit EXCEPT ![f] = t]
    BY <1>6 DEF OnSuccess, s
  <2>2. Earns(t, n)
    BY <1>1 DEF Earns, Fields
  <2>3. n >= RecoveryFull
    <3>1. s.samples \in Nat /\ s.samples <= successes[f]
      BY <1>1, <1>6 DEF Earns
    <3> QED
      BY <1>2, <1>4, <1>6, <3>1
  <2> HIDE DEF t
  <2> QED
    BY <1>4, <2>1, <2>2, <2>3, OneCircuitKeeps
<1>7. CASE s.st = "half" /\ ~(s.samples + 1 >= RecoveryFull)
  <2> DEFINE a == Min({s.admit + RECOVERY_STEP, 1000})
             t == [s EXCEPT !.samples = @ + 1, !.admit = a]
  <2>1. circuit' = [circuit EXCEPT ![f] = t]
    BY <1>7 DEF OnSuccess, s
  <2> HIDE DEF a
  <2>2. s.samples \in Nat /\ s.samples + 1 <= n
    <3>1. s.samples \in Nat /\ s.samples <= successes[f]
      BY <1>1, <1>7 DEF Earns
    <3> QED
      BY <1>2, <1>4, <1>7, <3>1
  <2>3. Earns(t, n) /\ t.st = "half"
    BY <1>1, <1>7, <2>2 DEF Earns, Fields
  <2> HIDE DEF t
  <2> QED
    BY <1>4, <2>1, <2>3, OneCircuitKeeps
<1> QED
  BY <1>5, <1>6, <1>7

(* A selection or the admin page looks at a circuit.                       *)
LEMMA LookKeeps ==
    ASSUME GatesInv, NEW f \in Families, Read(f) \/ Snapshot(f)
    PROVE  CircuitKeeps
<1>1. successes' = [successes EXCEPT ![f] = successes[f]] /\ successes[f] \in 0..RecoveryFull
  BY DEF Read, Snapshot, GatesInv, SamplesAreRecent
<1>2. \E s : /\ circuit' = [circuit EXCEPT ![f] = s]
             /\ Earns(s, successes[f])
             /\ circuit[f] # None /\ circuit[f].st # "closed" => s.st # "closed"
  <2>1. CASE Read(f)
    <3> DEFINE d == Settled(f)
    <3>1. circuit' = [circuit EXCEPT ![f] = [d EXCEPT !.idle = 0]]
      BY <2>1 DEF Read
    <3>2. Earns(d, successes[f]) /\ (circuit[f] # None /\ circuit[f].st # "closed" => d.st # "closed")
      BY SettledEarns
    <3> HIDE DEF d
    <3>3. Earns([d EXCEPT !.idle = 0], successes[f]) /\ [d EXCEPT !.idle = 0].st = d.st
      BY <3>2 DEF Earns, Fields
    <3> QED
      BY <3>1, <3>2, <3>3
  <2>2. CASE Snapshot(f)
    <3> DEFINE d == Ticked(circuit[f])
    <3>1. circuit' = [circuit EXCEPT ![f] = d] /\ circuit[f] # None
      BY <2>2 DEF Snapshot
    <3>2. Earns(d, successes[f]) /\ (circuit[f].st # "closed" => d.st # "closed")
      BY <3>1, SettledEarns
    <3> HIDE DEF d
    <3> QED
      BY <3>1, <3>2
  <2> QED
    BY <2>1, <2>2
<1> QED
  BY <1>1, <1>2, OneCircuitKeeps

(* Time passes for the circuits.                                           *)
LEMMA TimeKeeps ==
    ASSUME GatesInv, TimePasses
    PROVE  CircuitKeeps
<1> DEFINE T(s) == [s EXCEPT !.left = Less(@, 1), !.idle = Min({@ + 1, Evict}), !.unsettled = Unsettled(s)]
<1>1. /\ circuit' = [f \in Families |-> IF circuit[f] = None THEN None ELSE T(circuit[f])]
      /\ successes' = successes
  BY DEF TimePasses
<1>2. \A s, n : Earns(s, n) => Earns(T(s), n) /\ T(s).st = s.st
  BY DEF Earns, Fields
<1> HIDE DEF T
<1>3. SamplesAreRecent'
  BY <1>1, <1>2 DEF GatesInv, SamplesAreRecent
<1>4. ASSUME NEW f \in Families PROVE ClosesEarned(f)
  BY <1>1, <1>2 DEF GatesInv, SamplesAreRecent, ClosesEarned
<1> QED
  BY <1>3, <1>4 DEF CircuitKeeps

(***************************************************************************)
(* All of it.                                                              *)
(***************************************************************************)

(* Every step keeps the invariant and closes no circuit early.             *)
LEMMA StepKeeps ==
    ASSUME GatesInv, GatesNext
    PROVE  GatesInv' /\ CircuitKeeps
<1>1. ASSUME NEW c \in Members, NEW r \in CooldownReasons, NEW length \in Nat \ {0},
             Reported, SetCooldown(c, r, length),
             \/ UNCHANGED <<circuit, successes>>
             \/ /\ On429(FamilyOf[c]) \/ FamilySuspicious(FamilyOf[c], length)
                /\ successes' = [successes EXCEPT ![FamilyOf[c]] = 0]
      PROVE  GatesInv' /\ CircuitKeeps
  <2>1. CoolTypes' /\ LeftIsOwed'
    BY <1>1, SetKeeps
  <2>2. FamilyOf[c] \in Families
    BY DEF Families
  <2>3. CASE UNCHANGED <<circuit, successes>>
    <3>1. circuit' = [f \in Families |-> circuit'[f]] /\ \A f \in Families : circuit'[f] \in {circuit[f], None}
      BY <2>3 DEF GatesInv, SamplesAreRecent
    <3> QED
      BY <2>1, <2>3, <3>1, ForgetKeeps DEF GatesInv, CircuitKeeps
  <2>4. CASE /\ On429(FamilyOf[c]) \/ FamilySuspicious(FamilyOf[c], length)
             /\ successes' = [successes EXCEPT ![FamilyOf[c]] = 0]
    BY <2>1, <2>2, <2>4, FailureKeeps DEF GatesInv, CircuitKeeps
  <2> QED
    BY <1>1, <2>3, <2>4
<1>2. ASSUME NEW c \in Members, NEW r \in CooldownReasons, Reported
      PROVE  Earned(c, r) \in Nat \ {0} /\ Length[r][1] \in Nat \ {0}
  <2>1. Triggered(cool[c], r) \in Counts /\ 1 \in Counts
    BY <1>2, TriggeredCounts DEF Reported
  <2> QED
    BY <2>1, TableAssumption DEF Earned
<1>3. ASSUME NEW c \in Members, NEW s \in RetryAfters \cup {0}, RateLimited(c, s)
      PROVE  GatesInv' /\ CircuitKeeps
  <2> DEFINE length == IF s > 0 THEN s ELSE Length["RateLimitExceeded"][1]
  <2>1. "RateLimitExceeded" \in CooldownReasons /\ Reported /\ SetCooldown(c, "RateLimitExceeded", length)
        /\ On429(FamilyOf[c]) /\ successes' = [successes EXCEPT ![FamilyOf[c]] = 0]
    BY <1>3 DEF RateLimited, CooldownReasons
  <2>2. length \in Nat \ {0}
    <3>1. Length["RateLimitExceeded"][1] \in Nat \ {0}
      BY <2>1, <1>2
    <3>2. s \in RetryAfters => s \in Nat \ {0}
      BY TableAssumption, NumberAssumption
    <3> QED
      BY <3>1, <3>2
  <2> HIDE DEF length
  <2> QED
    BY <1>1, <2>1, <2>2
<1>4. ASSUME NEW c \in Members, ServerError(c) PROVE GatesInv' /\ CircuitKeeps
  <2>1. "ServerError" \in CooldownReasons /\ Reported /\ SetCooldown(c, "ServerError", Length["ServerError"][1])
        /\ UNCHANGED <<circuit, successes>>
    BY <1>4 DEF ServerError, CooldownReasons
  <2> QED
    BY <1>1, <1>2, <2>1
<1>5. ASSUME NEW c \in Members, Suspicious(c) PROVE GatesInv' /\ CircuitKeeps
  <2> DEFINE length == Earned(c, "SuspiciousActivity")
  <2>1. "SuspiciousActivity" \in CooldownReasons /\ Reported /\ SetCooldown(c, "SuspiciousActivity", length)
        /\ FamilySuspicious(FamilyOf[c], length) /\ successes' = [successes EXCEPT ![FamilyOf[c]] = 0]
    BY <1>5 DEF Suspicious, CooldownReasons
  <2>2. length \in Nat \ {0}
    BY <1>2, <2>1
  <2> HIDE DEF length
  <2> QED
    BY <1>1, <2>1, <2>2
<1>6. ASSUME NEW c \in Members, NEW r \in CooldownReasons, AuthFails(c, r) PROVE GatesInv' /\ CircuitKeeps
  BY <1>1, <1>2, <1>6 DEF AuthFails
<1>7. ASSUME NEW c \in Members, Success(c) PROVE GatesInv' /\ CircuitKeeps
  <2>1. CoolTypes' /\ LeftIsOwed'
    BY <1>7, ClearKeeps DEF Success
  <2>2. CircuitKeeps
    BY <1>7, SuccessKeeps DEF Success, Families
  <2> QED
    BY <2>1, <2>2 DEF GatesInv, CircuitKeeps
<1>8. ASSUME NEW c \in Members, Revive(c) PROVE GatesInv' /\ CircuitKeeps
  <2>1. CoolTypes' /\ LeftIsOwed'
    BY <1>8, ClearKeeps DEF Revive
  <2>2. circuit' = [f \in Families |-> circuit'[f]] /\ \A f \in Families : circuit'[f] \in {circuit[f], None}
    BY <1>8 DEF Revive, GatesInv, SamplesAreRecent
  <2>3. CircuitKeeps
    BY <1>8, <2>2, ForgetKeeps DEF Revive
  <2> QED
    BY <2>1, <2>3 DEF GatesInv, CircuitKeeps
<1>9. ASSUME NEW f \in Families, Read(f) \/ Snapshot(f) PROVE GatesInv' /\ CircuitKeeps
  <2>1. UNCHANGED <<cool, reports, owed>>
    BY <1>9 DEF Read, Snapshot
  <2> QED
    BY <1>9, <2>1, LookKeeps DEF GatesInv, CircuitKeeps, CoolTypes, LeftIsOwed
<1>10. CASE Cleanup
  <2>1. circuit' = [f \in Families |-> circuit'[f]] /\ \A f \in Families : circuit'[f] \in {circuit[f], None}
    BY <1>10 DEF Cleanup
  <2>2. UNCHANGED <<cool, reports, owed, successes>>
    BY <1>10 DEF Cleanup
  <2> QED
    BY <2>1, <2>2, ForgetKeeps DEF GatesInv, CircuitKeeps, CoolTypes, LeftIsOwed
<1>11. CASE Restart
  <2>1. circuit' = [f \in Families |-> circuit'[f]] /\ \A f \in Families : circuit'[f] \in {circuit[f], None}
    BY <1>11 DEF Restart
  <2> QED
    BY <1>11, <2>1, ForgetKeeps, RestartKeeps DEF Restart, GatesInv, CircuitKeeps
<1>12. CASE TimePasses
  BY <1>12, TimeCools, TimeKeeps DEF GatesInv, CircuitKeeps
<1> QED
  BY <1>3, <1>4, <1>5, <1>6, <1>7, <1>8, <1>9, <1>10, <1>11, <1>12 DEF GatesNext

(* Nothing cools and no circuit is known at start.                         *)
LEMMA GatesInitHolds == GatesInit => GatesInv
<1> SUFFICES ASSUME GatesInit PROVE GatesInv
  OBVIOUS
<1>1. CoolTypes
  BY NumberAssumption DEF GatesInit, CoolTypes
<1>2. LeftIsOwed
  BY DEF GatesInit, LeftIsOwed, Left
<1>3. SamplesAreRecent
  BY NumberAssumption DEF GatesInit, SamplesAreRecent
<1> QED
  BY <1>1, <1>2, <1>3 DEF GatesInv

(* The invariant holds in every reachable state.                           *)
LEMMA GatesReachable == GatesSpec => []GatesInv
<1>1. GatesInv /\ UNCHANGED gatesVars => GatesInv'
  BY DEF gatesVars, GatesInv, CoolTypes, LeftIsOwed, SamplesAreRecent
<1>2. GatesInv /\ [GatesNext]_gatesVars => GatesInv'
  BY <1>1, StepKeeps
<1> QED
  BY <1>2, GatesInitHolds, PTL DEF GatesSpec

(* For any durations and any order of the reports, a credential cools      *)
(* exactly until the longest cooldown that was announced is over.          *)
THEOREM CoolsAsAnnounced == GatesSpec => []CoolsUntilLongest
<1>1. GatesInv => CoolsUntilLongest
  <2> SUFFICES ASSUME GatesInv, NEW c \in Members PROVE Cooling(c) <=> owed[c].any > 0
    BY DEF CoolsUntilLongest
  <2>1. Left(cool[c]) = owed[c].any
    BY DEF GatesInv, LeftIsOwed
  <2> QED
    BY <2>1 DEF Cooling, Left
<1> QED
  BY <1>1, GatesReachable, PTL

(* A credential that was found dead is never offered as one about to       *)
(* recover, whatever shorter cooldowns came after.                         *)
THEOREM DeadStaysDeep == GatesSpec => []DeadIsNotShallow
<1>1. GatesInv => DeadIsNotShallow
  <2> SUFFICES ASSUME GatesInv, NEW c \in Members, owed[c].hard > MaxShallow PROVE Tier(c) = "deep"
    BY DEF DeadIsNotShallow
  <2>1. /\ Left(cool[c]) = owed[c].any /\ owed[c].hard <= owed[c].any
        /\ owed[c].any \in Nat /\ owed[c].hard \in Nat /\ MaxShallow \in Nat
    BY NumberAssumption DEF GatesInv, LeftIsOwed, CoolTypes
  <2>2. Left(cool[c]) > MaxShallow /\ Left(cool[c]) > 0
    BY <2>1
  <2>3. cool[c] # None /\ cool[c].left > MaxShallow /\ cool[c].left > 0
    BY <2>2 DEF Left
  <2>4. ~(cool[c].left <= MaxShallow)
    BY <2>1, <2>2, <2>3 DEF Left
  <2> QED
    BY <2>3, <2>4 DEF Tier, Cooling
<1> QED
  BY <1>1, GatesReachable, PTL

(* For any thresholds, a circuit closes only after the successes it needs  *)
(* since the last failure.                                                 *)
THEOREM RecoveryEarned == GatesSpec => RecoveryIsEarned
<1>1. GatesInv /\ [GatesNext]_gatesVars =>
         [\A f \in Families :
            (/\ circuit[f] # None /\ circuit[f].st # "closed"
             /\ circuit'[f] # None /\ circuit'[f].st = "closed") => successes'[f] >= RecoveryFull]_gatesVars
  BY StepKeeps DEF CircuitKeeps, ClosesEarned
<1> QED
  BY <1>1, GatesReachable, PTL DEF GatesSpec, RecoveryIsEarned
=============================================================================
