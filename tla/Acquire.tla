------------------------------- MODULE Acquire -------------------------------
(***************************************************************************)
(* How a request obtains a credential: MultiTokenManager::                 *)
(* acquire_context_excluding, with the two functions that must agree on    *)
(* what a usable credential is (select_next_credential and                 *)
(* transient_wait_outcome) and the fallback select_ignoring_cooldown.      *)
(*                                                                         *)
(* The gates of a credential (disabled, blocked for the model, cooling,    *)
(* rate limited) are moved by other parts of the program at any time; what *)
(* a function does under the entries lock is one step.  The sort key of    *)
(* select_next_credential and the session affinity only choose among the   *)
(* credentials the gates leave, so any of those may be picked.  Durations  *)
(* are left out: which of several waits is the shortest is arbitrary.      *)
(***************************************************************************)
EXTENDS Naturals, FiniteSets

CONSTANTS Creds,       \* ids of the Kiro credentials
          Threads,     \* requests
          Moves,       \* gates that close in this instance: "off", "blocked", "limited", "shallow", "deep"
          HardGate,    \* rpm_hard_gate_overload_wait
          FastFail,    \* all_cooling_fast_fail
          MaxInflight, \* CREDENTIAL_MAX_CONCURRENCY (16)
          RpmLimit,    \* effective_saturation_limit
          MaxAttempts, \* max_attempts
          MaxRaces,    \* MAX_RACE_RESELECT (64)
          MaxWaits     \* sleeps that fit into MAX_TRANSIENT_WAIT_SECS

ASSUME AcquireConstants ==
    /\ Creds \subseteq Nat \ {0} /\ IsFiniteSet(Threads) /\ HardGate \in BOOLEAN /\ FastFail \in BOOLEAN
    /\ MaxInflight \in Nat \ {0} /\ RpmLimit \in Nat \ {0}
    /\ MaxAttempts \in Nat \ {0} /\ MaxRaces \in Nat /\ MaxWaits \in Nat

NoCred == 0  \* ids start at 1

VARIABLES
    off,       \* entry.disabled
    blocked,   \* is_model_blocked, allows_model, supports_opus
    cool,      \* the tier of its cooldown: fallback_cooldown_tier
    limited,   \* rate_limiter.check_rate_limit is an error
    inflight,  \* entry.inflight
    rpm,       \* requests given to it in the last minute (counted to RpmLimit + 1)
    cursor,    \* fallback_cursor
    pc,        \* where each request is
    excl,      \* per request: excluded, what it has already tried
    guard,     \* per request: the credential whose InflightGuard it holds
    used,      \* per request: its attempt_count, race_reselect_count and sleeps
    turns      \* history: per credential, those the fallback has picked since it
               \* passed this one over as just as good

gates == <<off, blocked, cool, limited>>
request == <<pc, excl, used>>
vars == <<gates, inflight, rpm, cursor, request, guard, turns>>

Tiers == {"ready", "shallow", "deep"}
Places == {"idle", "select", "none", "again", "heal", "last", "outcome", "cooling", "fallen",
           "token", "fallbackToken", "using"}

Nothing == [attempts |-> 0, races |-> 0, waits |-> 0]

TypeOK ==
    /\ off \in [Creds -> BOOLEAN] /\ blocked \in [Creds -> BOOLEAN]
    /\ cool \in [Creds -> Tiers] /\ limited \in [Creds -> BOOLEAN]
    /\ inflight \in [Creds -> 0..MaxInflight]
    /\ rpm \in [Creds -> 0..RpmLimit + 1]
    /\ cursor \in Creds \cup {NoCred}
    /\ pc \in [Threads -> Places]
    /\ excl \in [Threads -> SUBSET Creds]
    /\ guard \in [Threads -> Creds \cup {NoCred}]
    /\ used \in [Threads -> [attempts : 0..MaxAttempts, races : 0..MaxRaces, waits : 0..MaxWaits]]
    /\ turns \in [Creds -> SUBSET Creds]

Init ==
    /\ off = [i \in Creds |-> FALSE] /\ blocked = [i \in Creds |-> FALSE]
    /\ cool = [i \in Creds |-> "ready"] /\ limited = [i \in Creds |-> FALSE]
    /\ inflight = [i \in Creds |-> 0] /\ rpm = [i \in Creds |-> 0]
    /\ cursor = NoCred
    /\ pc = [t \in Threads |-> "idle"]
    /\ excl = [t \in Threads |-> {}]
    /\ guard = [t \in Threads |-> NoCred]
    /\ used = [t \in Threads |-> Nothing]
    /\ turns = [i \in Creds |-> {}]

-----------------------------------------------------------------------------
(* Which credentials can be had.                                           *)

Saturated(i) == rpm[i] >= RpmLimit

\* is_entry_selectable_inner, with ignore_cooldown...
Fallbacks == {i \in Creds : ~off[i] /\ ~blocked[i] /\ ~limited[i] /\ inflight[i] < MaxInflight}
\* ...and without.
Selectable == {i \in Fallbacks : cool[i] = "ready"}

\* The excluded are avoided, unless nothing else is left.
Prefer(S, E) == IF S \ E = {} THEN S ELSE S \ E

\* select_next_credential: the credentials its sort key chooses from.  With
\* the hard gate on, a pool narrowed by the exclusion to saturated
\* credentials is widened again.
SaturationPoolMutant(E) == Prefer(Selectable, E)
SaturationPool(E) ==
    IF HardGate /\ \A i \in Prefer(Selectable, E) : Saturated(i)
    THEN Selectable ELSE Prefer(Selectable, E)
Picks(E) ==
    LET free == {i \in SaturationPool(E) : ~Saturated(i)} IN
    IF free # {} \/ HardGate THEN free ELSE Prefer(Selectable, E)

\* transient_wait_outcome: the candidates, and what each of them waits for.
Candidates == {i \in Creds : ~off[i] /\ ~blocked[i]}
Cooling == {i \in Candidates : cool[i] # "ready" \/ limited[i]}
RpmRecovery == {i \in Candidates \ Cooling : HardGate /\ Saturated(i)}
ConcurrencyFull == {i \in Candidates \ (Cooling \cup RpmRecovery) : inflight[i] >= MaxInflight}
Immediate == Candidates \ (Cooling \cup RpmRecovery \cup ConcurrencyFull)

\* commit_selection, and the drop of an InflightGuard.
Commit(t, i) ==
    /\ inflight' = [inflight EXCEPT ![i] = @ + 1]
    /\ rpm' = [rpm EXCEPT ![i] = IF @ > RpmLimit THEN @ ELSE @ + 1]
    /\ guard' = [guard EXCEPT ![t] = i]
DropMutant(t) ==
    /\ inflight' = [inflight EXCEPT ![guard[t]] = IF pc[t] = "token" THEN @ ELSE @ - 1]
    /\ guard' = [guard EXCEPT ![t] = NoCred]
    /\ UNCHANGED rpm
Drop(t) ==
    /\ inflight' = [inflight EXCEPT ![guard[t]] = @ - 1]
    /\ guard' = [guard EXCEPT ![t] = NoCred]
    /\ UNCHANGED rpm

\* The request goes on, spending one of a budget or nothing; or it returns
\* or settles on a credential, and its local state is gone.
Go(t, place) ==
    pc' = [pc EXCEPT ![t] = place] /\ UNCHANGED <<excl, used>>
SpendMutant(t, what) ==
    pc' = [pc EXCEPT ![t] = "select"] /\ UNCHANGED <<excl, used>>
Spend(t, what) ==
    /\ pc' = [pc EXCEPT ![t] = "select"]
    /\ used' = [used EXCEPT ![t][what] = @ + 1]
    /\ UNCHANGED excl
Leave(t, place) ==
    /\ pc' = [pc EXCEPT ![t] = place]
    /\ excl' = [excl EXCEPT ![t] = {}]
    /\ used' = [used EXCEPT ![t] = Nothing]

-----------------------------------------------------------------------------
(* A request.                                                              *)

\* The provider calls again with what it has tried so far.
Begin(t, E) ==
    /\ pc[t] = "idle"
    /\ pc' = [pc EXCEPT ![t] = "select"]
    /\ excl' = [excl EXCEPT ![t] = E]
    /\ UNCHANGED <<gates, inflight, rpm, cursor, used, guard, turns>>

OutOfAttempts(t) ==
    /\ pc[t] = "select" /\ used[t].attempts >= MaxAttempts
    /\ Leave(t, "idle")
    /\ UNCHANGED <<gates, inflight, rpm, cursor, guard, turns>>

MaySelect(t) == pc[t] \in {"again", "last"} \/ (pc[t] = "select" /\ used[t].attempts < MaxAttempts)

Select(t, i) ==
    /\ MaySelect(t)
    /\ i \in Picks(excl[t])
    /\ Commit(t, i)
    /\ Go(t, "token")
    /\ UNCHANGED <<gates, cursor, turns>>

SelectNone(t) ==
    /\ MaySelect(t)
    /\ Picks(excl[t]) = {}
    /\ Go(t, CASE pc[t] = "select" -> "none" [] pc[t] = "again" -> "heal"
               [] pc[t] = "last" -> "outcome")
    /\ UNCHANGED <<gates, inflight, rpm, cursor, guard, turns>>

\* recover_expired_quota_disables, and if that was no help self-healing,
\* brings some back, with clear_revive_side_penalties, and the selection is
\* repeated...
Revive(t, back) ==
    /\ pc[t] \in {"none", "heal"}
    /\ back # {} /\ back \subseteq {i \in Creds : off[i]}
    /\ off' = [i \in Creds |-> off[i] /\ i \notin back]
    /\ cool' = [i \in Creds |-> IF i \in back THEN "ready" ELSE cool[i]]
    /\ limited' = [i \in Creds |-> limited[i] /\ i \notin back]
    /\ Go(t, IF pc[t] = "none" THEN "again" ELSE "last")
    /\ UNCHANGED <<blocked, inflight, rpm, cursor, guard, turns>>

\* ...or there was nothing to bring back yet.
NothingRevived(t) ==
    /\ pc[t] \in {"none", "heal"}
    /\ Go(t, IF pc[t] = "none" THEN "heal" ELSE "outcome")
    /\ UNCHANGED <<gates, inflight, rpm, cursor, guard, turns>>

\* WaitOutcome::NoCandidate: an error.
NoCandidate(t) ==
    /\ pc[t] = "outcome" /\ Candidates = {}
    /\ Leave(t, "idle")
    /\ UNCHANGED <<gates, inflight, rpm, cursor, guard, turns>>

\* WaitOutcome::Available: a race, select again at once.
Available(t) ==
    /\ pc[t] = "outcome" /\ Immediate # {}
    /\ IF used[t].races >= MaxRaces THEN Leave(t, "idle") ELSE Spend(t, "races")
    /\ UNCHANGED <<gates, inflight, rpm, cursor, guard, turns>>

\* Sleep and select again, as long as the total wait allows it.
SleepOrGiveUp(t) ==
    IF used[t].waits < MaxWaits THEN Spend(t, "waits") ELSE Leave(t, "idle")

\* WaitOutcome::Wait for the RPM window or for a request in flight to end.
WaitBusy(t) ==
    /\ pc[t] = "outcome" /\ Immediate = {}
    /\ RpmRecovery \cup ConcurrencyFull # {}
    /\ SleepOrGiveUp(t)
    /\ UNCHANGED <<gates, inflight, rpm, cursor, guard, turns>>

\* WaitOutcome::Wait for a cooldown: the fallback first.
WaitCooling(t) ==
    /\ pc[t] = "outcome" /\ Immediate = {} /\ Cooling # {}
    /\ Go(t, "cooling")
    /\ UNCHANGED <<gates, inflight, rpm, cursor, guard, turns>>

\* select_ignoring_cooldown: the best tier, and in it the next id after the
\* cursor.
BestTier(S) ==
    LET In(k) == {i \in S : cool[i] = k} IN
    IF In("ready") # {} THEN In("ready")
    ELSE IF In("shallow") # {} THEN In("shallow") ELSE In("deep")
NextAfterMutant(S) == CHOOSE i \in S : \A j \in S : i <= j
NextAfter(S) ==
    LET ahead == {i \in S : i > cursor}
        from == IF ahead = {} THEN S ELSE ahead
    IN  CHOOSE i \in from : \A j \in from : i <= j

Fallback(t) ==
    LET best == BestTier(Prefer(Fallbacks, excl[t]))
        i == NextAfter(best)
    IN
    /\ pc[t] = "cooling"
    /\ IF best = {}
       THEN /\ Go(t, "fallen")
            /\ UNCHANGED <<inflight, rpm, guard, cursor, turns>>
       ELSE /\ Commit(t, i)
            /\ Go(t, "fallbackToken")
            /\ cursor' = i
            /\ turns' = [j \in Creds |-> IF j \in best \ {i} THEN turns[j] \cup {i} ELSE {}]
    /\ UNCHANGED gates

\* try_ensure_token on the fallback, which is not asked of the rate limiter.
FallbackToken(t, ok) ==
    /\ pc[t] = "fallbackToken"
    /\ IF ok THEN Leave(t, "using") /\ UNCHANGED <<inflight, rpm, guard>>
             ELSE Go(t, "fallen") /\ Drop(t)
    /\ UNCHANGED <<gates, cursor, turns>>

\* No fallback: fail at once if the wait is long (and this is configured),
\* else sleep.
Fallen(t, long) ==
    /\ pc[t] = "fallen"
    /\ IF FastFail /\ long THEN Leave(t, "idle") ELSE SleepOrGiveUp(t)
    /\ UNCHANGED <<gates, inflight, rpm, cursor, guard, turns>>

\* try_ensure_token succeeded; rate_limiter.try_acquire may refuse now.
Token(t) ==
    /\ pc[t] = "token"
    /\ IF limited[guard[t]]
       THEN Spend(t, "attempts") /\ Drop(t)
       ELSE Leave(t, "using") /\ UNCHANGED <<inflight, rpm, guard>>
    /\ UNCHANGED <<gates, cursor, turns>>

\* It failed: report_refresh_token_invalid or
\* report_refresh_failure_classified disables it, cools it or only counts,
\* and the loop goes on unless everything is disabled.
TokenFails(t, disable, cooled) ==
    LET i == guard[t] IN
    /\ pc[t] = "token"
    /\ off' = [off EXCEPT ![i] = @ \/ (disable /\ "off" \in Moves)]
    /\ cool' = [cool EXCEPT ![i] = IF cooled /\ "shallow" \in Moves /\ @ = "ready"
                                   THEN "shallow" ELSE @]
    /\ Drop(t)
    /\ IF \E j \in Creds : ~off'[j] THEN Spend(t, "attempts") ELSE Leave(t, "idle")
    /\ UNCHANGED <<blocked, limited, cursor, turns>>

\* The CallContext is dropped: the stream has ended or the client has gone.
Finish(t) ==
    /\ pc[t] = "using"
    /\ Drop(t)
    /\ Leave(t, "idle")
    /\ UNCHANGED <<gates, cursor, turns>>

-----------------------------------------------------------------------------
(* The rest of the program moves the gates.                                *)

others == <<inflight, cursor, request, guard, turns>>

MoveOff(i) ==
    /\ "off" \in Moves /\ off' = [off EXCEPT ![i] = ~@]
    /\ UNCHANGED <<blocked, cool, limited, rpm, others>>
MoveBlocked(i) ==
    /\ "blocked" \in Moves /\ blocked' = [blocked EXCEPT ![i] = ~@]
    /\ UNCHANGED <<off, cool, limited, rpm, others>>
MoveCool(i, k) ==
    /\ k \in Moves \cup {"ready"} /\ cool[i] # k /\ cool' = [cool EXCEPT ![i] = k]
    /\ UNCHANGED <<off, blocked, limited, rpm, others>>
MoveLimited(i) ==
    /\ "limited" \in Moves /\ limited' = [limited EXCEPT ![i] = ~@]
    /\ UNCHANGED <<off, blocked, cool, rpm, others>>
\* The oldest request leaves the window.
RpmExpires(i) ==
    /\ rpm[i] > 0 /\ rpm' = [rpm EXCEPT ![i] = @ - 1]
    /\ UNCHANGED <<gates, others>>

Step(t) ==
    \/ OutOfAttempts(t) \/ (\E i \in Creds : Select(t, i)) \/ SelectNone(t)
    \/ (\E back \in SUBSET Creds : Revive(t, back)) \/ NothingRevived(t)
    \/ NoCandidate(t) \/ Available(t) \/ WaitBusy(t) \/ WaitCooling(t)
    \/ Fallback(t) \/ (\E b \in BOOLEAN : FallbackToken(t, b) \/ Fallen(t, b))
    \/ Token(t) \/ (\E d, c \in BOOLEAN : TokenFails(t, d, c)) \/ Finish(t)

Environment(i) ==
    \/ MoveOff(i) \/ MoveBlocked(i) \/ MoveLimited(i) \/ RpmExpires(i)
    \/ \E k \in Tiers : MoveCool(i, k)

Next ==
    \/ \E t \in Threads : Step(t) \/ (\E E \in SUBSET Creds : Begin(t, E))
    \/ \E i \in Creds : Environment(i)

Spec == Init /\ [][Next]_vars

\* A request that has begun goes on until it has a credential; how long it
\* keeps that is up to the upstream and the client.
FairSpec == Spec /\ \A t \in Threads : WF_vars(pc[t] # "using" /\ Step(t))

-----------------------------------------------------------------------------

(* The two functions agree, whatever a request has excluded and whatever   *)
(* the gates are: if select_next_credential finds nothing,                 *)
(* transient_wait_outcome does not say that something is available, which  *)
(* would be a busy loop of MAX_RACE_RESELECT rounds.                       *)
GatesAgree ==
    \A E \in SUBSET Creds : (Picks(E) = {}) => (Immediate = {})

(* A credential's in-flight count is exactly the requests that hold its    *)
(* guard, on every error path, and never above its limit.                  *)
InflightExact ==
    \A i \in Creds : /\ inflight[i] = Cardinality({t \in Threads : guard[t] = i})
                     /\ inflight[i] <= MaxInflight

(* The fallback spreads: it does not pick a credential twice while another *)
(* one of the same tier, which it could have picked both times and ever    *)
(* since, has not had its turn.                                            *)
FallbackRotates ==
    [][\A t \in Threads :
          (pc[t] = "cooling" /\ pc'[t] = "fallbackToken")
              => \A j \in Creds : (j # guard'[t] /\ guard'[t] \in turns[j]) => turns'[j] = {}]_vars

(* Every request gets a credential or an error, however the gates move:    *)
(* each way round the loop uses up a budget.                               *)
RequestEnds == \A t \in Threads : []<>(pc[t] \in {"idle", "using"})

=============================================================================
