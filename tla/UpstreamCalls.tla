---------------------------- MODULE UpstreamCalls ----------------------------
(***************************************************************************)
(* The upstream calls made for one client request: the passthrough to      *)
(* custom APIs, then call_api_with_retry with its absorb rounds, attempts  *)
(* and endpoint chain, then the handler's compress retries and the reopen  *)
(* of a stream whose first token does not come.  All of them draw on one   *)
(* SharedRetryBudget.  The pool's choice of a credential is the contract   *)
(* of Acquire.  Time is a choice: a deadline may have passed wherever the  *)
(* code looks at the clock.                                                *)
(***************************************************************************)
EXTENDS Naturals, FiniteSets

CONSTANTS Creds,        \* credentials of the pool
          CustomApis,   \* custom API credentials (passthrough)
          ApiKeys,      \* credentials with an API key
          ExternalIdps, \* credentials of an external identity provider
          FirstProven,  \* which credentials may have succeeded before the request
          Multi,        \* credentials with more than one endpoint in their order
          MaxCalls,     \* ABSOLUTE_MAX_TOTAL_RETRIES (4)
          BaseQuotas,   \* what compute_max_retries and the retry pressure may give
          MaxRounds,    \* effective_max_rounds of AbsorbPolicy
          MaxChain,     \* bound: endpoints of a chain that are not skipped
          MaxHops,      \* MAX_PASSTHROUGH_FAILOVER_HOPS
          MaxReopens,   \* first_token_max_retries
          MaxCompress,  \* MAX_COMPRESS_RETRIES (3)
          Absorbed      \* error classes that AbsorbPolicy::class_allowed accepts

ASSUME UpstreamCallsConstants ==
    /\ ApiKeys \subseteq Creds /\ ExternalIdps \subseteq Creds /\ Multi \subseteq Creds
    /\ FirstProven \subseteq SUBSET Creds
    /\ IsFiniteSet(Creds) /\ IsFiniteSet(CustomApis) /\ Creds \cap CustomApis = {}
    /\ MaxCalls \in Nat /\ MaxChain \in Nat \ {0} /\ MaxHops \in Nat
    /\ MaxRounds \in Nat /\ MaxReopens \in Nat /\ MaxCompress \in Nat
    /\ BaseQuotas \subseteq Nat \ {0}

NoCred == "no credential"

ASSUME NoCredIsNone == NoCred \notin Creds

VARIABLES
    stage,      \* where the request is
    used,       \* SharedRetryBudget: MaxCalls minus remaining
    excluded,   \* SharedRetryBudget::excluded_credentials
    call,       \* the locals of the running call_api_with_retry
    cred,       \* the credential of the attempt, or of the stream
    chain,      \* endpoints left in its chain, this one included
    open,       \* endpoint buckets of each credential that are not sealed
    gone,       \* credentials disabled during the request
    proven,     \* credentials with has_ever_succeeded
    pass,       \* the passthrough: its cap, hops, gate skips and what it tried
    reopens,    \* reopens of the stream
    compress,   \* compress retries
    sent,       \* history: requests really sent upstream
    limits,     \* history: per credential, rate limit, risk and 5xx reports of the call
    strikes,    \* history: per credential, report_failure of the call
    auths       \* history: per credential, auth cooldowns of the call

pool == <<open, gone, proven>>
history == <<limits, strikes, auths>>
outer == <<excluded, pass, reopens, compress>>
vars == <<stage, used, outer, call, cred, chain, pool, sent, history>>

Stages == {"pass", "begin", "attempt", "hop", "rounds", "fallback", "open", "failed", "done"}
Errors == {"none", "final", "long", "pool", "rate", "swap", "server", "capacity"}

Locals ==
    [base : BaseQuotas, quota : 0..MaxCalls, attempt : 0..MaxCalls, round : 0..MaxRounds,
     tried : SUBSET Creds, reuse : BOOLEAN, limited : SUBSET Creds, auth : SUBSET Creds,
     refreshed : SUBSET Creds, fixed : SUBSET Creds, switched : SUBSET Creds,
     suspicious : 0..3, suspended : BOOLEAN, capacity : 0..2, overload : BOOLEAN, err : Errors,
     ready : SUBSET Creds, back : SUBSET Creds]

NoCall(base) ==
    [base |-> base, quota |-> 0, attempt |-> 0, round |-> 0,
     tried |-> excluded, reuse |-> FALSE, limited |-> {}, auth |-> {},
     refreshed |-> {}, fixed |-> {}, switched |-> {},
     suspicious |-> 0, suspended |-> FALSE, capacity |-> 0, overload |-> FALSE, err |-> "none",
     ready |-> {}, back |-> {}]

TypeOK ==
    /\ stage \in Stages /\ used \in 0..MaxCalls
    /\ call \in Locals /\ cred \in Creds \cup {NoCred} /\ chain \in 0..MaxChain
    /\ open \in [Creds -> 0..2] /\ gone \subseteq Creds /\ proven \subseteq Creds
    /\ excluded \subseteq Creds
    /\ pass \in [cap : 0..MaxHops, hops : 0..MaxHops, skips : 0..2 * MaxHops, tried : SUBSET CustomApis]
    /\ reopens \in 0..MaxReopens /\ compress \in 0..MaxCompress
    /\ sent \in Nat
    /\ limits \in [Creds -> 0..2] /\ strikes \in [Creds -> 0..2] /\ auths \in [Creds -> 0..2]

Zero == [c \in Creds |-> 0]

Init ==
    /\ stage = "pass" /\ used = 0 /\ excluded = {}
    /\ call \in {NoCall(b) : b \in BaseQuotas}
    /\ cred = NoCred /\ chain = 0
    /\ open = [c \in Creds |-> IF c \in Multi THEN 2 ELSE 1]
    /\ gone = {} /\ proven \in FirstProven
    /\ pass = [cap |-> IF MaxHops < MaxCalls THEN MaxHops ELSE MaxCalls,
               hops |-> 0, skips |-> 0, tried |-> {}]
    /\ reopens = 0 /\ compress = 0
    /\ sent = 0 /\ limits = Zero /\ strikes = Zero /\ auths = Zero

Min2(a, b) == IF a < b THEN a ELSE b

(* A request is sent, whatever becomes of it: SharedRetryBudget::consume(1), which saturates. *)
Consume == sent' = sent + 1 /\ used' = Min2(used + 1, MaxCalls)

(* round_retry_quota(base, used). *)
RoundQuota(base) == Min2(base, MaxCalls - used)

(* The history's counters stop at 2. *)
Raise(f, c) == [f EXCEPT ![c] = Min2(@ + 1, 2)]

-----------------------------------------------------------------------------
(* try_custom_api_passthrough. *)

(* should_try_custom_api_first is off, the hop cap, the gate skips or the wall clock end it, or no
   candidate is left: None, and the Kiro path goes on. *)
PassGivesUp ==
    /\ stage = "pass"
    /\ stage' = "begin"
    /\ UNCHANGED <<used, outer, call, cred, chain, pool, sent, history>>

(* The caps of the failover loop. *)
PassMayGoOn == pass.hops < pass.cap /\ pass.skips < 2 * MaxHops

(* The global gate is full, or the credential's is while another candidate exists: excluded.  The
   last candidate is waited for and, when the wait is over, tried again. *)
PassGateFull ==
    /\ stage = "pass" /\ PassMayGoOn
    /\ \E a \in CustomApis \ pass.tried :
        \/ pass' = [pass EXCEPT !.skips = @ + 1, !.tried = @ \cup {a}]
        \/ /\ CustomApis \ pass.tried = {a}
           /\ pass' = [pass EXCEPT !.skips = @ + 1]
    /\ UNCHANGED <<stage, used, excluded, reopens, compress, call, cred, chain, pool, sent, history>>

(* passthrough::forward fails and passthrough_absorb_should_retry holds: the same credential again,
   as long as hops are left; otherwise the next candidate. *)
PassFails ==
    /\ stage = "pass" /\ PassMayGoOn
    /\ Consume
    /\ \E a \in CustomApis \ pass.tried, absorb \in BOOLEAN :
        pass' = [pass EXCEPT !.hops = @ + 1,
                             !.tried = IF absorb /\ pass.hops + 1 < pass.cap THEN @ ELSE @ \cup {a}]
    /\ UNCHANGED <<stage, excluded, reopens, compress, call, cred, chain, pool, history>>

(* A success, or an error that no other candidate would cure: the response goes to the client. *)
PassAnswers ==
    /\ stage = "pass" /\ PassMayGoOn /\ CustomApis \ pass.tried # {}
    /\ Consume
    /\ pass' = [pass EXCEPT !.hops = @ + 1]
    /\ stage' = "done"
    /\ UNCHANGED <<excluded, reopens, compress, call, cred, chain, pool, history>>

-----------------------------------------------------------------------------
(* call_api_with_retry: its start, the head of a round and of an attempt. *)

(* Mutant: a call starts with nothing excluded. *)
TriedAtStartMutant(base) == [NoCall(base) EXCEPT !.tried = {}]
(* tried_this_call starts from the request's excluded credentials. *)
TriedAtStart(base) == NoCall(base)

StartRound(c) == [c EXCEPT !.quota = RoundQuota(c.base), !.attempt = 0, !.reuse = FALSE]

Begin ==
    /\ stage = "begin"
    /\ stage' = "attempt"
    /\ \E b \in BaseQuotas : call' = StartRound(TriedAtStart(b))
    /\ cred' = NoCred /\ chain' = 0
    /\ limits' = Zero /\ strikes' = Zero /\ auths' = Zero
    /\ UNCHANGED <<used, outer, pool, sent>>

(* The call returns: its locals are dead, but for the error. *)
Returned == [NoCall(call.base) EXCEPT !.err = call.err, !.tried = {}]

(* The attempt is over; the locals become c. *)
Continue(c) == stage' = "attempt" /\ call' = [c EXCEPT !.attempt = @ + 1, !.ready = {}]
(* break 'attempt. *)
Break(c) == stage' = "rounds" /\ call' = [c EXCEPT !.ready = {}]

(* The quota is used up, or the wall clock is, which only a later attempt checks. *)
AttemptsEnd ==
    /\ stage = "attempt"
    /\ call.attempt = call.quota \/ call.attempt > 0
    /\ Break(call)
    /\ UNCHANGED <<used, outer, cred, chain, pool, sent, history>>

(* acquire_context_excluding fails, which sets last_error. *)
AcquireFails ==
    /\ stage = "attempt" /\ call.attempt < call.quota /\ ~call.reuse
    /\ \/ Continue([call EXCEPT !.err = "pool", !.overload = FALSE])
       \/ Continue([call EXCEPT !.err = "final"])
    /\ UNCHANGED <<used, outer, cred, chain, pool, sent, history>>

(* What acquire_context_excluding may return when the gates (or, if they leave nothing, the gates of
   the fallback) let these credentials through: one that was not tried, and any of them when all were.
   Credentials that cool down, are at a limit or are blocked are not among them, tried or not. *)
Selectable(ready, tried) == IF ready \subseteq tried THEN ready ELSE ready \ tried

(* The credential of this attempt, reused or acquired; select_endpoint finds an open bucket and
   endpoint_chain_for a chain. *)
TakeCredential ==
    /\ stage = "attempt" /\ call.attempt < call.quota
    /\ \E ready \in IF call.reuse THEN {{cred}} ELSE SUBSET (Creds \ gone) :
       \E c \in IF call.reuse THEN ready ELSE Selectable(ready, call.tried) :
        /\ cred' = c
        /\ \/ /\ open[c] > 0
              /\ chain' \in 1..MaxChain
              /\ stage' = "hop"
              /\ call' = [call EXCEPT !.reuse = FALSE, !.tried = @ \cup {c}, !.ready = ready]
              /\ UNCHANGED limits
           \/ /\ open[c] = 0
              /\ chain' = 0
              /\ Continue([call EXCEPT !.reuse = FALSE, !.tried = @ \cup {c}, !.err = "pool",
                                       !.overload = FALSE, !.limited = @ \cup {c}])
              /\ limits' = IF c \in call.limited THEN limits ELSE Raise(limits, c)
    /\ UNCHANGED <<used, outer, pool, sent, strikes, auths>>

-----------------------------------------------------------------------------
(* The endpoint chain of an attempt. *)

KeepErr(e) == IF call.err = "none" THEN e ELSE call.err

(* Mutant: the chain goes on when the budget is used up. *)
BudgetLeftMutant == TRUE
BudgetLeft == used < MaxCalls

(* The budget is used up, or the global upstream gate is full: the attempts end. *)
ChainBails ==
    /\ stage = "hop"
    /\ \/ ~BudgetLeft /\ Break([call EXCEPT !.err = KeepErr("final")])
       \/ BudgetLeft /\ Break([call EXCEPT !.err = KeepErr("final"),
                                           !.overload = @ /\ call.err # "none"])
    /\ UNCHANGED <<used, outer, cred, chain, pool, sent, history>>

(* The credential's gate is full: the next endpoint, or the next attempt; likewise the next attempt
   when no client can be built. *)
CredentialGateFull ==
    /\ stage = "hop" /\ BudgetLeft
    /\ \/ /\ chain > 1
          /\ chain' = chain - 1
          /\ call' = [call EXCEPT !.err = KeepErr("final")]
          /\ UNCHANGED stage
       \/ /\ Continue([call EXCEPT !.err = KeepErr("final")])
          /\ UNCHANGED chain
    /\ UNCHANGED <<used, outer, cred, pool, sent, history>>

(* A request is about to be answered (or not) at this endpoint. *)
Sends == stage = "hop" /\ BudgetLeft /\ Consume

(* A transient status or a connection error, and the chain has another endpoint; a 429 of the
   chain's first one seals its bucket. *)
HopFails ==
    /\ Sends /\ chain > 1
    /\ chain' = chain - 1
    /\ open' \in {open} \cup (IF cred \in Multi /\ open[cred] > 0
                              THEN {[open EXCEPT ![cred] = @ - 1]} ELSE {})
    /\ UNCHANGED <<stage, outer, call, cred, gone, proven, history>>

(* The last endpoint does not answer: the next attempt; a headers timeout ends the attempts. *)
NoAnswer ==
    /\ Sends
    /\ LET c == [call EXCEPT !.err = "final", !.overload = FALSE] IN
        \/ chain = 1 /\ Continue(c)
        \/ Break(c)
    /\ UNCHANGED <<outer, cred, chain, pool, history>>

-----------------------------------------------------------------------------
(* The answers of the last endpoint, in the order the code tells them apart. *)

Answers == Sends /\ UNCHANGED <<outer, cred, chain>>
(* The locals after an answer of an error class. *)
Now(e) == [call EXCEPT !.err = e, !.overload = FALSE]
(* tried_this_call.remove: the next attempt may have this credential again; `back` remembers it. *)
GivenBack(c) == [c EXCEPT !.tried = @ \ {cred}, !.back = @ \cup {cred}]

(* report_success, and the response is returned with its CallMeta. *)
Success ==
    /\ Answers
    /\ stage' = "open" /\ call' = Returned
    /\ proven' = proven \cup {cred}
    /\ UNCHANGED <<open, gone, history>>

(* Subscription, validation, schema and any other 400, other 4xx: the attempts end; a body that is
   too long is what the handler compresses. *)
ClientError ==
    /\ Answers
    /\ \E e \in {"final", "long"} : Break(Now(e))
    /\ UNCHANGED <<pool, history>>

(* A status nobody knows: the next attempt. *)
Unknown ==
    /\ Answers
    /\ Continue(Now("final"))
    /\ UNCHANGED <<pool, history>>

(* is_temporary_rate_limit: report_suspicious_activity once per credential, three such answers end
   the attempts. *)
TemporaryLimit ==
    /\ Answers
    /\ LET c == [Now("swap") EXCEPT !.suspicious = Min2(@ + 1, 3), !.limited = @ \cup {cred}] IN
        IF c.suspicious >= 3 THEN Break(c) ELSE Continue(c)
    /\ limits' = IF cred \in call.limited THEN limits ELSE Raise(limits, cred)
    /\ UNCHANGED <<pool, strikes, auths>>

(* report_quota_exhausted disables the credential; without another one the attempts end. *)
MonthlyLimit ==
    /\ Answers
    /\ gone' = gone \cup {cred}
    /\ IF Creds \subseteq gone' THEN Break(Now("final")) ELSE Continue(Now("final"))
    /\ UNCHANGED <<open, proven, history>>

(* report_account_suspended; the second suspension of a call ends its attempts. *)
AccountSuspended ==
    /\ Answers
    /\ gone' = gone \cup {cred}
    /\ IF Creds \subseteq gone' \/ call.suspended
       THEN Break(Now("final"))
       ELSE Continue([Now("final") EXCEPT !.suspended = TRUE])
    /\ UNCHANGED <<open, proven, history>>

(* report_model_invalid: others may have the model, or not. *)
InvalidModel ==
    /\ Answers
    /\ Break(Now("final")) \/ Continue(Now("final"))
    /\ UNCHANGED <<pool, history>>

(* 403 FEATURE_NOT_SUPPORTED of an external identity provider: the region is corrected and the
   credential tried again, once, or it gets a transient auth cooldown. *)
FeatureNotSupported ==
    /\ Answers /\ cred \in ExternalIdps
    /\ \/ /\ cred \notin call.fixed
          /\ Continue(GivenBack([Now("final") EXCEPT !.fixed = @ \cup {cred}]))
          /\ UNCHANGED auths
       \/ /\ \E f \in {call.fixed, call.fixed \cup {cred}} : Continue([Now("final") EXCEPT !.fixed = f])
          /\ auths' = Raise(auths, cred)
    /\ UNCHANGED <<pool, limits, strikes>>

(* is_bearer_token_invalid: the first time, unless it is an API key, the token is refreshed. *)
MayRefresh == cred \notin call.refreshed /\ cred \notin ApiKeys

BearerRefreshed ==
    /\ Answers /\ MayRefresh
    /\ Continue(GivenBack([call EXCEPT !.refreshed = @ \cup {cred}]))
    /\ UNCHANGED <<pool, history>>

(* The refresh failed (an auth cooldown) or was not tried; what follows depends on whether the
   credential ever succeeded.  A proven one gets a transient cooldown, once per call... *)
BearerInvalidProven ==
    /\ Answers /\ cred \in proven
    /\ LET refreshFailed == IF MayRefresh THEN 1 ELSE 0
           again == IF cred \in call.auth THEN 0 ELSE 1 IN
        auths' = [auths EXCEPT ![cred] = Min2(@ + refreshFailed + again, 2)]
    /\ Continue([Now("final") EXCEPT !.auth = @ \cup {cred},
                                     !.refreshed = IF MayRefresh THEN @ \cup {cred} ELSE @])
    /\ UNCHANGED <<pool, limits, strikes>>

(* ...an API key that never succeeded is tried in another region, once (region_retry_target)... *)
RegionRetry ==
    /\ Answers /\ cred \in ApiKeys \ (proven \cup call.switched)
    /\ Continue(GivenBack([Now("final") EXCEPT !.switched = @ \cup {cred}, !.reuse = TRUE]))
    /\ UNCHANGED <<pool, history>>

(* Mutant: the credential's failure is counted each time. *)
StrikesNowMutant == Raise(strikes, cred)
StrikesNow == IF cred \in call.auth THEN strikes ELSE Raise(strikes, cred)

(* ...and any other 401 or 403 is report_failure, once per call, which may disable the credential. *)
AuthFails ==
    /\ Answers
    /\ strikes' = StrikesNow
    /\ \E bearer \in BOOLEAN :
        /\ bearer => cred \notin proven
        /\ auths' = IF bearer /\ MayRefresh THEN Raise(auths, cred) ELSE auths
        /\ \E dead \in {{}, IF cred \in call.auth THEN {} ELSE {cred}} :
            LET c == [Now("final") EXCEPT !.auth = @ \cup {cred},
                                          !.refreshed = IF bearer /\ MayRefresh THEN @ \cup {cred} ELSE @] IN
            /\ gone' = gone \cup dead
            /\ IF Creds \subseteq gone' THEN Break(c) ELSE Continue(c)
    /\ UNCHANGED <<open, proven, limits>>

(* MODEL_TEMPORARILY_UNAVAILABLE: one slow retry. *)
CapacityLow ==
    /\ Answers
    /\ LET c == [call EXCEPT !.err = "capacity", !.overload = TRUE, !.capacity = Min2(@ + 1, 2)] IN
        IF c.capacity > 1 THEN Break(c) ELSE Continue(c)
    /\ UNCHANGED <<pool, history>>

(* 429: a credential with several endpoints seals the bucket and is used again while one is open;
   otherwise report_rate_limited, once per credential. *)
RateLimited ==
    /\ Answers /\ chain = 1
    /\ LET left == IF cred \in Multi /\ open[cred] > 0 THEN open[cred] - 1 ELSE open[cred] IN
        /\ open' = [open EXCEPT ![cred] = left]
        /\ \/ /\ cred \in Multi /\ left > 0
              /\ Continue(GivenBack([Now("rate") EXCEPT !.reuse = TRUE]))
              /\ UNCHANGED limits
           \/ /\ cred \notin Multi \/ left = 0
              /\ Continue([Now("rate") EXCEPT !.limited = @ \cup {cred}])
              /\ limits' = IF cred \in call.limited THEN limits ELSE Raise(limits, cred)
    /\ UNCHANGED <<gone, proven, strikes, auths>>

(* 5xx: report_server_error, in the same once-per-call set; 408 reports nothing. *)
ServerError ==
    /\ Answers
    /\ \/ /\ Continue([Now("server") EXCEPT !.limited = @ \cup {cred}])
          /\ limits' = IF cred \in call.limited THEN limits ELSE Raise(limits, cred)
       \/ /\ chain = 1
          /\ Continue(Now("final"))
          /\ UNCHANGED limits
    /\ UNCHANGED <<pool, strikes, auths>>

-----------------------------------------------------------------------------
(* After the attempts. *)

(* Mutant: the rounds are not counted. *)
AbsorbAgainMutant ==
    /\ stage = "rounds"
    /\ RoundQuota(call.base) > 0 /\ call.err \in Absorbed
    /\ stage' = "attempt"
    /\ call' = StartRound(call)
    /\ UNCHANGED <<used, outer, cred, chain, pool, sent, history>>

(* Another absorb round: rounds, quota, the class of the last error, its backoff and deadline allow
   it.  The sets of the call are kept. *)
AbsorbAgain ==
    /\ stage = "rounds"
    /\ call.round < MaxRounds /\ RoundQuota(call.base) > 0 /\ call.err \in Absorbed
    /\ stage' = "attempt"
    /\ call' = [StartRound(call) EXCEPT !.round = @ + 1]
    /\ UNCHANGED <<used, outer, cred, chain, pool, sent, history>>

(* No more rounds (a deadline may have passed, or the error is not absorbed). *)
RoundsEnd ==
    /\ stage = "rounds"
    /\ stage' = IF call.overload THEN "fallback" ELSE "failed"
    /\ call' = Returned
    /\ UNCHANGED <<used, outer, cred, chain, pool, sent, limits, strikes, auths>>

(* overload_fallback_model: one call, if the budget still has one and a credential is found. *)
Fallback ==
    /\ stage = "fallback"
    /\ \/ /\ BudgetLeft
          /\ Consume
          /\ \E c \in Creds \ gone :
              \/ /\ cred' = c /\ proven' = proven \cup {c}
                 /\ stage' = "open"
              \/ stage' = "failed" /\ UNCHANGED <<cred, proven>>
       \/ /\ stage' = "failed"
          /\ UNCHANGED <<used, sent, cred, proven>>
    /\ UNCHANGED <<outer, call, chain, open, gone, limits, strikes, auths>>

(* The error goes to the client, unless it is one the handler answers by compressing the request. *)
Failed ==
    /\ stage = "failed"
    /\ \/ /\ call.err = "long" /\ reopens = 0 /\ compress < MaxCompress
          /\ compress' = compress + 1
          /\ stage' = "begin"
       \/ stage' = "done" /\ UNCHANGED compress
    /\ UNCHANGED <<used, excluded, pass, reopens, call, cred, chain, pool, sent, limits, strikes, auths>>

(* The stream is silent or breaks before its first token: the credential is excluded for the rest of
   the request and the stream is opened again by another call. *)
Reopen ==
    /\ stage = "open" /\ reopens < MaxReopens
    /\ reopens' = reopens + 1
    /\ excluded' = excluded \cup {cred}
    /\ stage' = "begin"
    /\ UNCHANGED <<used, pass, compress, call, cred, chain, pool, sent, history>>

StreamEnds ==
    /\ stage = "open"
    /\ stage' = "done"
    /\ UNCHANGED <<used, outer, call, cred, chain, pool, sent, history>>

Done == stage = "done" /\ UNCHANGED vars

Pass == PassGivesUp \/ PassGateFull \/ PassFails \/ PassAnswers
Attempt == Begin \/ AttemptsEnd \/ AcquireFails \/ TakeCredential
           \/ ChainBails \/ CredentialGateFull \/ HopFails \/ NoAnswer
Answer == Success \/ ClientError \/ Unknown \/ TemporaryLimit \/ MonthlyLimit \/ AccountSuspended
          \/ InvalidModel \/ FeatureNotSupported \/ BearerRefreshed \/ BearerInvalidProven
          \/ RegionRetry \/ AuthFails \/ CapacityLow \/ RateLimited \/ ServerError
After == AbsorbAgain \/ RoundsEnd \/ Fallback \/ Failed \/ Reopen \/ StreamEnds

Progress == Pass \/ Attempt \/ Answer \/ After
Next == Progress \/ Done

Spec == Init /\ [][Next]_vars
(* Every await has a timeout and the runtime polls the request's task. *)
FairSpec == Spec /\ WF_vars(Progress)

-----------------------------------------------------------------------------
(* However the layers nest (passthrough, rounds, endpoint chains, fallback model, compress retries,
   reopened streams), one client request sends at most ABSOLUTE_MAX_TOTAL_RETRIES requests. *)
BudgetHolds == sent <= MaxCalls

(* In one call, across its absorb rounds, a credential is reported as limited, risky or failing (all
   of which lengthen its cooldown) at most once, and counted as failed at most once. *)
ReportedOnce == \A c \in Creds : limits[c] <= 1 /\ strikes[c] <= 1

(* A credential whose stream stayed silent is chosen again by the request's later attempts only when
   the gates of the pool leave none that was not tried, or when this call has given it back after
   an answer that is no fault of it (a new token, the right region, another endpoint). *)
SilentNotReselected ==
    [][(stage = "attempt" /\ stage' = "hop" /\ cred' \in excluded /\ ~call.reuse)
        => \/ call'.ready \subseteq call.tried \cup excluded
           \/ cred' \in call.back]_vars

(* The request ends, whatever the upstream answers. *)
RequestEnds == <>(stage = "done")
=============================================================================
