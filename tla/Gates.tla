-------------------------------- MODULE Gates --------------------------------
(***************************************************************************)
(* What the answers of the upstream do to a credential's standing: the     *)
(* cooldowns, kept per credential (src/src/kiro/cooldown.rs), and the      *)
(* health circuit, kept per family of credentials of one tenant            *)
(* (src/src/kiro/health.rs), as the reports of token_manager.rs drive      *)
(* them. Neither has a timer: a cooldown runs out when it is read late     *)
(* enough, an open circuit becomes half open and its penalties decay at    *)
(* the next read or report.                                                *)
(*                                                                         *)
(* Time is kept as what is left (of a cooldown, of an open window) or has  *)
(* passed (since an expiry, a settled decay, a touch); TimePasses moves    *)
(* all of it. The durations, after growth, scaling, floor and cap, are     *)
(* tables.                                                                 *)
(*                                                                         *)
(* Left out: the EWMA values, which only rank credentials whose gate is    *)
(* open; cooldownEnabled = false, with which no cooldown is ever set;      *)
(* which change of a cooldown is on disk at a restart (DebouncedSave). No  *)
(* name here is one of PoolLifecycle's, so that a module may extend both.  *)
(***************************************************************************)
EXTENDS Integers, FiniteSetsExt

CONSTANTS Members,        \* credentials
          FamilyOf,       \* the family key of each of them
          RetryAfters,    \* values of Retry-After, cut at MAX_RETRY_AFTER_COOLDOWN_SECS
          Length,         \* Length[r][n]: cooldown for reason r at its n-th trigger
          Calm,           \* DECAY_WINDOW_SECS
          MaxShallow,     \* MAX_RETRY_AFTER_COOLDOWN_SECS
          TripAt,         \* TRIP_THRESHOLD
          RecoveryFull,   \* RECOVERY_FULL
          Backoff,        \* Backoff[n]: open_backoff(n)
          HalfLife,       \* PENALTY_DECAY_HALFLIFE_SECS
          Evict,          \* IDLE_EVICT_SECS
          MaxReports      \* bound on the failures the upstream reports

CooldownReasons == {"RateLimitExceeded", "ServerError", "SuspiciousActivity",
                    "AuthTransient", "AuthenticationFailed"}
AutoRecoverable == CooldownReasons \ {"AuthenticationFailed"}
Families == {FamilyOf[c] : c \in Members}
Counts == 1..MaxReports

ASSUME TableAssumption ==
    /\ \A r \in CooldownReasons, n \in Counts : Length[r][n] \in Nat \ {0}
    /\ \A n \in Counts : Backoff[n] \in Nat \ {0}
    /\ \A s \in RetryAfters : s \in 1..MaxShallow
ASSUME NumberAssumption ==
    {Calm, MaxShallow, TripAt, RecoveryFull, HalfLife, Evict, MaxReports} \subseteq Nat \ {0}

\* Probabilities are in thousandths.
HALFOPEN_START == 100
MIN_ADMIT_SEED == 20
RECOVERY_STEP == 200

VARIABLES
    cool,      \* CooldownEntry of each credential, or None: reason, time left,
               \* time since it ran out, trigger_count
    circuit,   \* HealthState of each family, or None: state, time left open,
               \* admit_prob, admit_prob_seed, recovery_samples, open_count,
               \* consecutive_429, time not yet settled, time since last_touch
    reports,   \* failures reported so far
    owed,      \* history: the longest cooldown announced since the last clear,
               \* of any reason and of one that does not recover by itself
    successes  \* history: successes of the family since its last 429 or suspicion

gatesVars == <<cool, circuit, reports, owed, successes>>

None == [none |-> TRUE]
Entries == [reason : CooldownReasons, left : Nat, past : Nat, count : Counts]
States == [st : {"closed", "open", "half"}, left : Nat, admit : 0..1000,
           seed : MIN_ADMIT_SEED..HALFOPEN_START, samples : 0..RecoveryFull,
           opens : 0..MaxReports, hits : 0..MaxReports, unsettled : Nat, idle : 0..Evict]

GatesInit ==
    /\ cool = [c \in Members |-> None]
    /\ circuit = [f \in Families |-> None]
    /\ reports = 0
    /\ owed = [c \in Members |-> [any |-> 0, hard |-> 0]]
    /\ successes = [f \in Families |-> 0]

Cooling(c) == cool[c] # None /\ cool[c].left > 0
Less(x, by) == IF x > by THEN x - by ELSE 0

-----------------------------------------------------------------------------
(* Cooldowns.                                                              *)

\* trigger_count after another trigger for r: a level is taken back for each
\* calm window since the expiry, another reason starts again.
Triggered(e, r) == IF e # None /\ e.reason = r THEN Less(e.count, e.past \div Calm) + 1 ELSE 1

\* What is left is never shortened.
LongerMutant(left, length) == length
Longer(left, length) == Max({left, length})

\* set_cooldown_with_duration and set_transient_cooldown: the reason and the
\* count are replaced, the expiry only if the new one is later.
Cooled(c, r, length) ==
    [reason |-> r, left |-> Longer(IF cool[c] = None THEN 0 ELSE cool[c].left, length),
     past |-> 0, count |-> Triggered(cool[c], r)]

SetCooldown(c, r, length) ==
    /\ cool' = [cool EXCEPT ![c] = Cooled(c, r, length)]
    /\ owed' = [owed EXCEPT ![c] =
                   [any |-> Max({@.any, length}),
                    hard |-> IF r \in AutoRecoverable THEN @.hard ELSE Max({@.hard, length})]]

\* calculate_cooldown_duration: what the reason's next trigger earns.
Earned(c, r) == Length[r][Triggered(cool[c], r)]

\* fallback_cooldown_tier: whom the selection takes when everything cools.
TierMutant(c) ==
    IF ~Cooling(c) THEN "ready"
    ELSE IF cool[c].reason \in AutoRecoverable THEN "shallow" ELSE "deep"
Tier(c) ==
    IF ~Cooling(c) THEN "ready"
    ELSE IF cool[c].reason \in AutoRecoverable /\ cool[c].left <= MaxShallow THEN "shallow"
    ELSE "deep"

-----------------------------------------------------------------------------
(* Circuits.                                                               *)

Fresh == [st |-> "closed", left |-> 0, admit |-> 0, seed |-> HALFOPEN_START, samples |-> 0,
          opens |-> 0, hits |-> 0, unsettled |-> 0, idle |-> 0]

\* tick_circuit.
TickedMutant(s) ==
    IF s.st = "open" /\ s.left = 0 THEN [s EXCEPT !.st = "half", !.admit = s.seed] ELSE s
Ticked(s) ==
    IF s.st = "open" /\ s.left = 0
    THEN [s EXCEPT !.st = "half", !.admit = s.seed, !.samples = 0] ELSE s

\* decay_penalties: a step for each half-life since the last one, the rest
\* of the time is carried over.
DecayedMutant(s) ==
    LET steps == s.unsettled \div HalfLife IN
    [s EXCEPT !.hits = Less(@, steps), !.opens = Less(@, steps),
              !.seed = Min({@ * 2^steps, HALFOPEN_START}), !.unsettled = 0]
Decayed(s) ==
    LET steps == s.unsettled \div HalfLife IN
    [s EXCEPT !.hits = Less(@, steps), !.opens = Less(@, steps),
              !.seed = Min({@ * 2^steps, HALFOPEN_START}), !.unsettled = @ % HalfLife]

\* The start of every report and of every read.
Settled(f) == Decayed(Ticked(IF circuit[f] = None THEN Fresh ELSE circuit[f]))

Halved(seed) == Max({seed \div 2, MIN_ADMIT_SEED})
OpenFor(s, length, seed) ==
    [s EXCEPT !.st = "open", !.left = length, !.admit = 0, !.seed = seed, !.opens = @ + 1]

\* on_429: half open, it opens again; closed, it opens at the third in a
\* row; open, nothing more.
On429(f) ==
    LET s == [Settled(f) EXCEPT !.hits = @ + 1, !.idle = 0] IN
    circuit' = [circuit EXCEPT ![f] =
        IF s.st = "half" THEN OpenFor(s, Backoff[s.opens + 1], Halved(s.seed))
        ELSE IF s.st = "closed" /\ s.hits >= TripAt
             THEN OpenFor(s, Backoff[s.opens + 1], HALFOPEN_START)
        ELSE s]

\* report_family_suspicious: open for as long as the cooldown, whatever the
\* circuit was.
FamilySuspicious(f, length) ==
    LET s == [Settled(f) EXCEPT !.hits = @ + 1, !.idle = 0] IN
    circuit' = [circuit EXCEPT ![f] =
        OpenFor(s, length, IF s.st = "closed" THEN HALFOPEN_START ELSE Halved(s.seed))]

\* on_success: half open, each one raises the probability until the last
\* one closes it.
OnSuccess(f) ==
    LET s == [Settled(f) EXCEPT !.hits = 0, !.idle = 0] IN
    circuit' = [circuit EXCEPT ![f] =
        IF s.st # "half" THEN s
        ELSE IF s.samples + 1 >= RecoveryFull
             THEN [s EXCEPT !.samples = @ + 1, !.st = "closed", !.admit = 0, !.opens = 0,
                            !.seed = HALFOPEN_START]
        ELSE [s EXCEPT !.samples = @ + 1, !.admit = Min({@ + RECOVERY_STEP, 1000})]]

\* The gate of p_avail.
Admits(f) == CASE circuit[f] = None         -> TRUE
               [] circuit[f].st = "closed"  -> TRUE
               [] circuit[f].st = "half"    -> circuit[f].admit > 0
               [] OTHER                     -> FALSE

-----------------------------------------------------------------------------
(* What the rest of the program reports and reads.                         *)

Reported ==
    /\ reports < MaxReports
    /\ reports' = reports + 1

\* report_rate_limited_with_retry_after: as long as the upstream says, else
\* the fixed baseline, which does not grow.
RateLimited(c, retryAfter) ==
    /\ Reported
    /\ SetCooldown(c, "RateLimitExceeded",
           IF retryAfter > 0 THEN retryAfter ELSE Length["RateLimitExceeded"][1])
    /\ On429(FamilyOf[c])
    /\ successes' = [successes EXCEPT ![FamilyOf[c]] = 0]

\* report_server_error: the baseline. The circuit is not told.
ServerError(c) ==
    /\ Reported
    /\ SetCooldown(c, "ServerError", Length["ServerError"][1])
    /\ UNCHANGED <<circuit, successes>>

\* report_account_suspicious, the part after the counting (PoolLifecycle).
Suspicious(c) ==
    /\ Reported
    /\ SetCooldown(c, "SuspiciousActivity", Earned(c, "SuspiciousActivity"))
    /\ FamilySuspicious(FamilyOf[c], Earned(c, "SuspiciousActivity"))
    /\ successes' = [successes EXCEPT ![FamilyOf[c]] = 0]

\* report_auth_cooldown, report_auth_transient_cooldown and the transient
\* case of report_refresh_failure_classified.
AuthFails(c, r) ==
    /\ r \in {"AuthTransient", "AuthenticationFailed"}
    /\ Reported
    /\ SetCooldown(c, r, Earned(c, r))
    /\ UNCHANGED <<circuit, successes>>

\* report_success: the cooldown goes, whatever it was for.
Success(c) ==
    /\ cool' = [cool EXCEPT ![c] = None]
    /\ owed' = [owed EXCEPT ![c] = [any |-> 0, hard |-> 0]]
    /\ OnSuccess(FamilyOf[c])
    /\ successes' = [successes EXCEPT ![FamilyOf[c]] = Min({@ + 1, RecoveryFull})]
    /\ UNCHANGED reports

\* clear_revive_side_penalties.
Revive(c) ==
    /\ cool' = [cool EXCEPT ![c] = None]
    /\ owed' = [owed EXCEPT ![c] = [any |-> 0, hard |-> 0]]
    /\ circuit' = [circuit EXCEPT ![FamilyOf[c]] = None]
    /\ UNCHANGED <<reports, successes>>

\* p_avail_batch: a selection reads the family of every candidate, and only
\* a credential that does not cool is one.
Read(f) ==
    /\ \E c \in Members : FamilyOf[c] = f /\ ~Cooling(c)
    /\ circuit' = [circuit EXCEPT ![f] = [Settled(f) EXCEPT !.idle = 0]]
    /\ UNCHANGED <<cool, reports, owed, successes>>

\* snapshot, for the admin page: only tick_circuit.
Snapshot(f) ==
    /\ circuit[f] # None
    /\ circuit' = [circuit EXCEPT ![f] = Ticked(@)]
    /\ UNCHANGED <<cool, reports, owed, successes>>

\* cleanup: drops what nobody has touched, an open circuit too.
Cleanup ==
    /\ circuit' = [f \in Families |->
                      IF circuit[f] # None /\ circuit[f].idle >= Evict THEN None ELSE circuit[f]]
    /\ UNCHANGED <<cool, reports, owed, successes>>

\* An orderly restart: the cooldowns that run are loaded again, the circuits
\* and the counts of those that have run out are gone.
Restart ==
    /\ cool' = [c \in Members |-> IF Cooling(c) THEN cool[c] ELSE None]
    /\ circuit' = [f \in Families |-> None]
    /\ UNCHANGED <<reports, owed, successes>>

\* Time that makes no further difference is not counted: calm time that has
\* taken back every trigger, half-lives that have settled every penalty.
Aged(e) == IF e = None THEN None
           ELSE IF e.left > 0 THEN [e EXCEPT !.left = @ - 1]
           ELSE [e EXCEPT !.past = Min({@ + 1, Calm * e.count})]
Unsettled(s) ==
    LET steps == IF s.seed < HALFOPEN_START THEN Max({3, s.opens, s.hits}) ELSE Max({s.opens, s.hits})
        u == s.unsettled + 1
    IN IF u >= HalfLife * (steps + 1) THEN HalfLife * steps + (u % HalfLife) ELSE u
TimePasses ==
    /\ cool' = [c \in Members |-> Aged(cool[c])]
    /\ circuit' = [f \in Families |->
           IF circuit[f] = None THEN None
           ELSE [circuit[f] EXCEPT !.left = Less(@, 1), !.idle = Min({@ + 1, Evict}),
                                   !.unsettled = Unsettled(circuit[f])]]
    /\ owed' = [c \in Members |-> [any |-> Less(owed[c].any, 1), hard |-> Less(owed[c].hard, 1)]]
    /\ UNCHANGED <<reports, successes>>

GatesNext ==
    \/ \E c \in Members :
          \/ \E s \in RetryAfters \cup {0} : RateLimited(c, s)
          \/ ServerError(c) \/ Suspicious(c)
          \/ \E r \in CooldownReasons : AuthFails(c, r)
          \/ Success(c) \/ Revive(c)
    \/ \E f \in Families : Read(f) \/ Snapshot(f)
    \/ Cleanup \/ Restart \/ TimePasses

GatesSpec == GatesInit /\ [][GatesNext]_gatesVars

\* Time passes and requests keep being selected for.
GatesFairSpec == GatesSpec /\ WF_gatesVars(TimePasses) /\ \A f \in Families : WF_gatesVars(Read(f))

-----------------------------------------------------------------------------

(* Every penalty stays in its range; the probability with which a half     *)
(* open family is tried never falls below MIN_ADMIT_SEED, however often it *)
(* fails.                                                                  *)
GatesTypeOK ==
    /\ \A c \in Members : cool[c] = None \/ cool[c] \in Entries
    /\ \A f \in Families : circuit[f] = None \/ circuit[f] \in States
    /\ reports \in 0..MaxReports
    /\ \A c \in Members : owed[c] \in [any : Nat, hard : Nat]
    /\ successes \in [Families -> 0..RecoveryFull]

(* A credential cools exactly until the longest cooldown announced since   *)
(* it was last cleared is over, in whatever order they came and whichever  *)
(* reason the entry names now, over restarts too.                          *)
CoolsUntilLongest == \A c \in Members : Cooling(c) <=> owed[c].any > 0

(* A credential that was found to be dead (AuthenticationFailed) is not    *)
(* offered by the fallback as one that is about to recover, though a later *)
(* short cooldown has replaced the reason of its entry.                    *)
DeadIsNotShallow == \A c \in Members : owed[c].hard > MaxShallow => Tier(c) = "deep"

(* A circuit goes from half open to closed only after RECOVERY_FULL        *)
(* successes of the family since its last 429 or suspicion: the successes  *)
(* of an earlier half-open period do not count. (Errors of the server and  *)
(* of authentication are not reported to the circuit.)                     *)
RecoveryIsEarned ==
    [][\A f \in Families :
          (/\ circuit[f] # None /\ circuit[f].st # "closed"
           /\ circuit'[f] # None /\ circuit'[f].st = "closed") => successes'[f] >= RecoveryFull]_gatesVars

(* No penalty is for ever: once the upstream reports no more failures,     *)
(* every credential can be selected again and stays so, and every penalty  *)
(* counter returns to its start, though nothing but selections touches     *)
(* the family (the self-lock that decay_penalties was written against).    *)
PenaltiesEnd ==
    /\ \A c \in Members : <>[](~Cooling(c) /\ Admits(FamilyOf[c]))
    /\ \A f \in Families :
          <>[](circuit[f] # None =>
                  circuit[f].hits = 0 /\ circuit[f].opens = 0 /\ circuit[f].seed = HALFOPEN_START)

=============================================================================
