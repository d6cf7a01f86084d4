---------------------------- MODULE PoolLifecycle ----------------------------
(***************************************************************************)
(* How a credential of MultiTokenManager is disabled and comes back: the   *)
(* report_* operations that requests call with their outcome, the          *)
(* administrator's set_disabled and reset_and_enable, the recovery of      *)
(* exhausted quotas, and the self-healing that acquire_context_excluding   *)
(* performs when it finds nothing to select.                               *)
(*                                                                         *)
(* A report may come at any time, long after the credential was selected.  *)
(* What an operation does under the entries lock is one step; what it does *)
(* before taking or after releasing that lock is another.  An entry is     *)
(* disabled exactly when it has a disabled_reason, so `reason' stands for  *)
(* both.  Cooldowns and health, which only decide what can be selected,    *)
(* are the set `able' an acquire finds selectable; persistence is          *)
(* CredentialStore's.                                                      *)
(***************************************************************************)
EXTENDS Naturals, FiniteSets, FiniteSetsExt

CONSTANTS Creds,          \* credentials (custom_api relays, which no report disables, left out)
          NoCred,         \* none of them
          Family(_),      \* family_key: clones of one account share it
          Threads,        \* requests in progress
          MaxFailures,    \* MAX_FAILURES_PER_CREDENTIAL (3)
          MaxSuspicious,  \* MAX_CONSECUTIVE_SUSPICIOUS_BEFORE_DISABLE (6)
          Base,           \* self_heal_base_backoff_secs, in ticks
          MaxBackoff,     \* self_heal_max_backoff_secs, in ticks
          MaxShift        \* self_heal_max_shift

ASSUME LifecycleConstants ==
    /\ NoCred \notin Creds
    /\ MaxFailures \in Nat \ {0} /\ MaxSuspicious \in Nat \ {0}
    /\ Base \in Nat \ {0} /\ MaxBackoff \in Nat /\ Base <= MaxBackoff
    /\ MaxShift \in Nat

Enabled == "enabled"
Automatic == {"TooManyFailures", "TooManyRefreshFailures", "SuspiciousActivityAuto",
              "QuotaExceeded", "AccountSuspended", "InvalidRefreshToken",
              "RegionProbeFailed"}
Reasons == Automatic \cup {Enabled, "Manual"}

\* is_self_healable_reason.
HealableMutant == Automatic \ {"QuotaExceeded"}
Healable == {"TooManyFailures", "SuspiciousActivityAuto", "TooManyRefreshFailures"}

\* Only a person brings these back.
Terminal == {"Manual", "AccountSuspended", "InvalidRefreshToken", "RegionProbeFailed"}

VARIABLES
    reason,        \* disabled and disabled_reason
    fails,         \* failure_count
    refreshFails,  \* refresh_failure_count
    suspicious,    \* consecutive_suspicious
    streak,        \* self_heal_streak, counted no further than it matters
    elapsed,       \* ticks since last_self_heal_at, up to MaxBackoff (or None)
    revived,       \* self_heal_revived
    pc,            \* where each request is
    on,            \* per request: the credential whose success it reports
    batch,         \* per request: the credentials its self-healing re-enabled
    hits           \* history: per credential, suspicious reports on its family
                   \* since a member succeeded (up to MaxSuspicious)

counters == <<fails, refreshFails, suspicious>>
healing == <<streak, elapsed, revived>>
requests == <<pc, on, batch>>
vars == <<reason, counters, healing, requests, hits>>

TypeOK ==
    /\ reason \in [Creds -> Reasons]
    /\ fails \in [Creds -> 0..MaxFailures]
    /\ refreshFails \in [Creds -> 0..MaxFailures]
    /\ suspicious \in [Creds -> 0..MaxSuspicious]
    /\ streak \in 0..MaxShift + 1
    /\ elapsed \in 0..MaxBackoff
    /\ revived \subseteq Creds
    /\ pc \in [Threads -> {"idle", "none", "revive", "reset", "count"}]
    /\ on \in [Threads -> Creds \cup {NoCred}]
    /\ batch \in [Threads -> SUBSET Creds]
    /\ hits \in [Creds -> 0..MaxSuspicious]

Init ==
    /\ reason = [i \in Creds |-> Enabled]
    /\ fails = [i \in Creds |-> 0]
    /\ refreshFails = [i \in Creds |-> 0]
    /\ suspicious = [i \in Creds |-> 0]
    /\ streak = 0 /\ elapsed = MaxBackoff
    /\ revived = {}
    /\ pc = [t \in Threads |-> "idle"]
    /\ on = [t \in Threads |-> NoCred]
    /\ batch = [t \in Threads |-> {}]
    /\ hits = [i \in Creds |-> 0]

Clan(i) == {j \in Creds : Family(j) = Family(i)}

-----------------------------------------------------------------------------
(* Reports.  None touches an entry that is disabled already.               *)

StillEnabledMutant(i) == TRUE
StillEnabled(i) == reason[i] = Enabled

\* report_failure.
ReportFailure(i) ==
    /\ StillEnabled(i)
    /\ fails' = [fails EXCEPT ![i] = @ + 1]
    /\ reason' = [reason EXCEPT ![i] =
                     IF fails[i] + 1 >= MaxFailures THEN "TooManyFailures" ELSE @]
    /\ UNCHANGED <<refreshFails, suspicious, healing, requests, hits>>

\* report_refresh_failure, for an error that is_refresh_error_credential_level.
ReportRefreshFailure(i) ==
    /\ StillEnabled(i)
    /\ refreshFails' = [refreshFails EXCEPT ![i] = @ + 1]
    /\ reason' = [reason EXCEPT ![i] =
                     IF refreshFails[i] + 1 >= MaxFailures THEN "TooManyRefreshFailures" ELSE @]
    /\ UNCHANGED <<fails, suspicious, healing, requests, hits>>

\* try_ensure_token got a token, or update_refresh_token stored a new one.
RefreshSucceeds(i) ==
    /\ refreshFails' = [refreshFails EXCEPT ![i] = 0]
    /\ UNCHANGED <<reason, fails, suspicious, healing, requests, hits>>

\* report_quota_exhausted and report_account_suspended.
ReportExhaustedOrSuspended(i, why) ==
    /\ StillEnabled(i)
    /\ reason' = [reason EXCEPT ![i] = why]
    /\ fails' = [fails EXCEPT ![i] = MaxFailures]
    /\ UNCHANGED <<refreshFails, suspicious, healing, requests, hits>>

\* report_refresh_token_invalid.
ReportRefreshTokenInvalid(i) ==
    /\ StillEnabled(i)
    /\ reason' = [reason EXCEPT ![i] = "InvalidRefreshToken"]
    /\ UNCHANGED <<counters, healing, requests, hits>>

\* report_suspicious_activity (with auto_disable_suspicious on): the enabled
\* members of the family share one count, and are disabled together.
FamilyCount(i) == Max({suspicious[j] : j \in {k \in Clan(i) : reason[k] = Enabled}}) + 1
DeadMutant(n) == n + 1 >= MaxSuspicious
Dead(n) == n >= MaxSuspicious

ReportSuspicious(i) ==
    LET hit == {j \in Clan(i) : reason[j] = Enabled} IN
    /\ reason[i] = Enabled
    /\ suspicious' = [j \in Creds |-> IF j \in hit THEN FamilyCount(i) ELSE suspicious[j]]
    /\ reason' = [j \in Creds |-> IF j \in hit /\ Dead(FamilyCount(i))
                                  THEN "SuspiciousActivityAuto" ELSE reason[j]]
    /\ hits' = [j \in Creds |-> IF j \in Clan(i) THEN Min({hits[j] + 1, MaxSuspicious})
                                ELSE hits[j]]
    /\ UNCHANGED <<fails, refreshFails, healing, requests>>

\* mark_region_probe_failed writes its reason over any other.
ReportRegionProbeFailed(i) ==
    /\ reason[i] # "RegionProbeFailed"
    /\ reason' = [reason EXCEPT ![i] = "RegionProbeFailed"]
    /\ UNCHANGED <<counters, healing, requests, hits>>

\* report_success, first the set of revived credentials, under its own lock...
ReportSuccess(t, i) ==
    /\ pc[t] = "idle"
    /\ on' = [on EXCEPT ![t] = i]
    /\ pc' = [pc EXCEPT ![t] = IF i \in revived THEN "reset" ELSE "count"]
    /\ revived' = revived \ {i}
    /\ UNCHANGED <<reason, counters, streak, elapsed, batch, hits>>

\* ...then, if it was one of them, the streak...
ResetStreak(t) ==
    /\ pc[t] = "reset"
    /\ pc' = [pc EXCEPT ![t] = "count"]
    /\ streak' = 0
    /\ UNCHANGED <<reason, counters, elapsed, revived, on, batch, hits>>

\* ...then the entry's counters, and the whole family's suspicious count.
CountSuccess(t) ==
    LET i == on[t] IN
    /\ pc[t] = "count"
    /\ pc' = [pc EXCEPT ![t] = "idle"]
    /\ on' = [on EXCEPT ![t] = NoCred]
    /\ fails' = [fails EXCEPT ![i] = 0]
    /\ refreshFails' = [refreshFails EXCEPT ![i] = 0]
    /\ suspicious' = [j \in Creds |-> IF j \in Clan(i) THEN 0 ELSE suspicious[j]]
    /\ hits' = [j \in Creds |-> IF j \in Clan(i) THEN 0 ELSE hits[j]]
    /\ UNCHANGED <<reason, healing, batch>>

-----------------------------------------------------------------------------
(* Coming back.                                                            *)

\* clear_transient_counters.
ClearedMutant(back) ==
    /\ fails' = [i \in Creds |-> IF i \in back THEN 0 ELSE fails[i]]
    /\ refreshFails' = [i \in Creds |-> IF i \in back THEN 0 ELSE refreshFails[i]]
    /\ UNCHANGED suspicious
Cleared(back) ==
    /\ fails' = [i \in Creds |-> IF i \in back THEN 0 ELSE fails[i]]
    /\ refreshFails' = [i \in Creds |-> IF i \in back THEN 0 ELSE refreshFails[i]]
    /\ suspicious' = [i \in Creds |-> IF i \in back THEN 0 ELSE suspicious[i]]

Reenable(back) ==
    /\ reason' = [i \in Creds |-> IF i \in back THEN Enabled ELSE reason[i]]
    /\ Cleared(back)

\* set_disabled(true).
AdminDisables(i) ==
    /\ reason' = [reason EXCEPT ![i] = "Manual"]
    /\ UNCHANGED <<counters, healing, requests, hits>>

\* set_disabled(false), reset_and_enable.
AdminEnables(i) ==
    /\ Reenable({i})
    /\ UNCHANGED <<healing, requests, hits>>

\* recover_expired_quota_disables: those whose quota is due to be reset.
RecoverQuota(due) ==
    /\ due # {} /\ due \subseteq {i \in Creds : reason[i] = "QuotaExceeded"}
    /\ Reenable(due)
    /\ UNCHANGED <<healing, requests, hits>>

\* acquire_context_excluding: select_next_credential returns None, because
\* of all the credentials this request can use now none is enabled.
SelectNone(t, able) ==
    /\ pc[t] = "idle"
    /\ \A i \in able : reason[i] # Enabled
    /\ pc' = [pc EXCEPT ![t] = "none"]
    /\ UNCHANGED <<reason, counters, healing, on, batch, hits>>

\* The backoff: Base doubled for each self-healing no success interrupted.
WaitMutant == Base * 2^streak
Wait == Min({Base * 2^Min({streak, MaxShift}), MaxBackoff})

\* Then, under the entries lock again: if anything can be healed and the
\* backoff is over, re-enable all of it.
SelfHeal(t) ==
    LET healed == {i \in Creds : reason[i] \in Healable} IN
    /\ pc[t] = "none"
    /\ IF healed # {} /\ elapsed >= Wait
       THEN /\ elapsed' = 0
            /\ streak' = Min({streak + 1, MaxShift + 1})
            /\ Reenable(healed)
            /\ batch' = [batch EXCEPT ![t] = healed]
            /\ pc' = [pc EXCEPT ![t] = "revive"]
       ELSE /\ pc' = [pc EXCEPT ![t] = "idle"]
            /\ UNCHANGED <<reason, counters, streak, elapsed, batch>>
    /\ UNCHANGED <<revived, on, hits>>

\* With the lock released, self_heal_revived is replaced.
RecordRevived(t) ==
    /\ pc[t] = "revive"
    /\ pc' = [pc EXCEPT ![t] = "idle"]
    /\ revived' = batch[t]
    /\ batch' = [batch EXCEPT ![t] = {}]
    /\ UNCHANGED <<reason, counters, streak, elapsed, on, hits>>

Tick ==
    /\ elapsed < MaxBackoff
    /\ elapsed' = elapsed + 1
    /\ UNCHANGED <<reason, counters, streak, revived, requests, hits>>

Report(i) ==
    \/ ReportFailure(i) \/ ReportRefreshFailure(i) \/ RefreshSucceeds(i)
    \/ \E why \in {"QuotaExceeded", "AccountSuspended"} : ReportExhaustedOrSuspended(i, why)
    \/ ReportRefreshTokenInvalid(i) \/ ReportSuspicious(i) \/ ReportRegionProbeFailed(i)

Request(t) ==
    \/ \E i \in Creds : ReportSuccess(t, i)
    \/ ResetStreak(t) \/ CountSuccess(t)
    \/ \E able \in SUBSET Creds : SelectNone(t, able)
    \/ SelfHeal(t) \/ RecordRevived(t)

Next ==
    \/ \E i \in Creds : Report(i) \/ AdminDisables(i) \/ AdminEnables(i)
    \/ \E due \in SUBSET Creds : RecoverQuota(due)
    \/ \E t \in Threads : Request(t)
    \/ Tick

Spec == Init /\ [][Next]_vars

\* Time passes, a request that has begun goes on, and requests for which the
\* whole pool would do keep arriving.
FairSpec ==
    /\ Spec
    /\ WF_vars(Tick)
    /\ \A t \in Threads :
        /\ WF_vars(ResetStreak(t) \/ CountSuccess(t) \/ SelfHeal(t) \/ RecordRevived(t))
        /\ SF_vars(SelectNone(t, Creds))

-----------------------------------------------------------------------------

(* A credential that can be selected is always at least one report away    *)
(* from each threshold: whichever way it came back, clear_transient_       *)
(* counters has been applied, so no single failure disables a credential   *)
(* whose counters were left over from the last time.                       *)
EnabledHasHeadroom ==
    \A i \in Creds : reason[i] = Enabled =>
        /\ fails[i] < MaxFailures
        /\ refreshFails[i] < MaxFailures
        /\ suspicious[i] < MaxSuspicious

(* What is out of the pool for a reason that needs a person (manual,       *)
(* suspended, dead refresh token, no region) stays out, under a reason of  *)
(* that kind, until a person enables it: no late report relabels it as     *)
(* something self-healing or the quota recovery would bring back.          *)
TerminalUntilAdmin ==
    [][\A i \in Creds : (reason[i] \in Terminal /\ reason'[i] \notin Terminal)
                            => AdminEnables(i)]_vars

(* SuspiciousActivityAuto is only given to an account with MaxSuspicious   *)
(* suspicious reports and no success in between (the doc of                *)
(* MAX_CONSECUTIVE_SUSPICIOUS_BEFORE_DISABLE), whichever clones they hit   *)
(* and however their enabling and disabling was interleaved.               *)
DisabledOnlyAfterHits ==
    [][\A i \in Creds : (reason[i] # reason'[i] /\ reason'[i] = "SuspiciousActivityAuto")
                            => hits'[i] = MaxSuspicious]_vars

(* As long as requests arrive, the pool is not forever in a state where    *)
(* every credential waits for self-healing: the backoff always ends.       *)
PoolNotStuck == []<>(\E i \in Creds : reason[i] \notin Healable)

=============================================================================
