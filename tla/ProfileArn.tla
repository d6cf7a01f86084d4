------------------------------ MODULE ProfileArn ------------------------------
(***************************************************************************)
(* The profile ARN of one credential and everyone who writes it after a    *)
(* network round trip: the write-back of a token refresh, the resolution   *)
(* and the region probe that follow it, the background probe, the usage    *)
(* query's backfill, and the administrator's switch of region.  Each task  *)
(* copies the credentials, awaits an answer and then writes.  No name here *)
(* is one of TokenRefresh's, so that a module may extend both.             *)
(***************************************************************************)
EXTENDS Naturals

CONSTANTS Tasks,        \* concurrent tasks
          AuthMethods,  \* auth methods: "social", "idc", "external_idp"
          Arns          \* profile ARNs

NoArn == "no arn"
AnyArn == Arns \cup {NoArn}

VARIABLES
    authMethod,  \* auth method of the credential
    arn,         \* entry.credentials.profile_arn
    arnOnDisk,   \* the same in credentials.json
    usage403,    \* last_usage_403_feature_not_supported
    allBad,      \* last_full_reprobe_at lies within REPROBE_ALL_BAD_COOLDOWN
    at,          \* what each task awaits
    seen,        \* the profile ARN each task copied before its await
    bg,          \* the task that holds reprobe_in_flight
    missed       \* history: since the file was last written, a write of it failed or a
                 \* refresh was dropped between its write-back and its write of the file

arnVars == <<authMethod, arn, arnOnDisk, usage403, allBad, at, seen, bg, missed>>

(* "refreshing": refresh_token of a call that holds the refresh lock; "after": its write-back is done;
   "validating": ensure_valid_token of the background probe, whose refresh, if it needs one, is that
   of another task. *)
ArnPlaces == {"idle", "refreshing", "after", "resolving", "validating", "probing", "persist", "backfilling",
              "switching"}

ArnTypeOK ==
    /\ authMethod \in AuthMethods /\ arn \in AnyArn /\ arnOnDisk \in AnyArn
    /\ usage403 \in BOOLEAN /\ allBad \in BOOLEAN
    /\ at \in [Tasks -> ArnPlaces] /\ seen \in [Tasks -> AnyArn]
    /\ bg \subseteq Tasks /\ missed \in BOOLEAN
    /\ \A t, u \in Tasks : {t, u} \subseteq bg \/ (at[t] = "refreshing" /\ at[u] = "refreshing") => t = u

ArnInit ==
    /\ authMethod \in AuthMethods /\ arn = NoArn /\ arnOnDisk = NoArn
    /\ usage403 = FALSE /\ allBad = FALSE
    /\ at = [t \in Tasks |-> "idle"] /\ seen = [t \in Tasks |-> NoArn]
    /\ bg = {} /\ missed = FALSE

(* Task t copies the credentials and awaits at a place. *)
Copy(t, place) ==
    /\ at' = [at EXCEPT ![t] = place] /\ seen' = [seen EXCEPT ![t] = arn]

(* Task t writes ARN a and goes on at a place; the others' copies may be old now. *)
Write(t, a, place) ==
    /\ arn' = a
    /\ at' = [at EXCEPT ![t] = place]
    /\ UNCHANGED seen

(* Task t drops what it found and goes on at a place. *)
Drop(t, place) ==
    /\ at' = [at EXCEPT ![t] = place]
    /\ seen' = IF place = "idle" THEN [seen EXCEPT ![t] = NoArn] ELSE seen
    /\ UNCHANGED arn

(* The comparison of the entry's ARN with the copy taken before the await. *)
UnchangedSince(t) == arn = seen[t]

-----------------------------------------------------------------------------
(* refresh_token_locked: the refresh lock lets one call at a time wait for the provider. *)
RefreshStart(t) ==
    /\ at[t] = "idle" /\ \A u \in Tasks : at[u] # "refreshing"
    /\ Copy(t, "refreshing")
    /\ UNCHANGED <<authMethod, arn, arnOnDisk, usage403, allBad, bg, missed>>

(* skip_stale_profile_arn_writeback and apply_refresh_result_fields: the answer carries a profile ARN
   (social and IdC) or the copied one is written again. *)
RefreshAnswer(t) ==
    /\ at[t] = "refreshing"
    /\ \E a \in IF authMethod = "external_idp" THEN {seen[t]} ELSE Arns \cup {seen[t]} :
        \/ UnchangedSince(t) /\ Write(t, a, "after")
        \/ ~UnchangedSince(t) /\ Drop(t, "after")
    /\ UNCHANGED <<authMethod, arnOnDisk, usage403, allBad, bg, missed>>

(* needs_arn, needs_reprobe. *)
AfterRefresh(t) ==
    /\ at[t] = "after"
    /\ Copy(t, IF arn = NoArn THEN "resolving"
               ELSE IF authMethod = "external_idp" /\ usage403 /\ ~allBad THEN "probing" ELSE "persist")
    /\ UNCHANGED <<authMethod, arn, arnOnDisk, usage403, allBad, bg, missed>>

(* resolve_profile_arn_multi_region. *)
Resolved(t) ==
    /\ at[t] = "resolving"
    /\ \/ \E a \in Arns : UnchangedSince(t) /\ Write(t, a, "persist")
       \/ Drop(t, "persist")
    /\ UNCHANGED <<authMethod, arnOnDisk, usage403, allBad, bg, missed>>

(* trigger_background_reprobe: whatever the credential is, the flag is taken before the task begins
   to wait for a valid token. *)
BackgroundProbe(t) ==
    /\ at[t] = "idle" /\ bg = {} /\ ~allBad
    /\ bg' = bg \cup {t}
    /\ Copy(t, "validating")
    /\ UNCHANGED <<authMethod, arn, arnOnDisk, usage403, allBad, missed>>

(* The token is valid and the credentials are copied anew, or the task returns early: there is no
   token, or only an external-IdP credential has profiles in several regions. *)
TokenValidated(t) ==
    /\ at[t] = "validating"
    /\ \/ authMethod = "external_idp" /\ Copy(t, "probing") /\ UNCHANGED <<arn, bg>>
       \/ Drop(t, "idle") /\ bg' = bg \ {t}
    /\ UNCHANGED <<authMethod, arnOnDisk, usage403, allBad, missed>>

(* reprobe_and_correct_region_with: the first usable profile, or a pause when there is none. *)
Probed(t) ==
    /\ at[t] = "probing"
    /\ \/ /\ \E a \in Arns :
                \/ UnchangedSince(t) /\ Write(t, a, "persist")
                \/ ~UnchangedSince(t) /\ Drop(t, "persist")
          /\ usage403' = FALSE /\ allBad' = FALSE
          /\ UNCHANGED bg
       \/ /\ Drop(t, IF t \in bg THEN "idle" ELSE "persist")
          /\ bg' = bg \ {t}
          /\ allBad' = TRUE
          /\ UNCHANGED usage403
    /\ UNCHANGED <<authMethod, arnOnDisk, missed>>

(* persist_credentials, which may fail; InFlightGuard drops with the background task. *)
PersistArn(t) ==
    /\ at[t] = "persist"
    /\ \/ arnOnDisk' = arn /\ missed' = FALSE
       \/ arnOnDisk' = arnOnDisk /\ missed' = TRUE
    /\ bg' = bg \ {t}
    /\ Drop(t, "idle")
    /\ UNCHANGED <<authMethod, usage403, allBad>>

(* get_usage_limits_for backfills a missing ARN; it writes what it resolved without looking again. *)
BackfillStart(t) ==
    /\ at[t] = "idle" /\ arn = NoArn
    /\ Copy(t, "backfilling")
    /\ UNCHANGED <<authMethod, arn, arnOnDisk, usage403, allBad, bg, missed>>
(* Mutant: what the backfill resolved stays in memory. *)
BackfilledMutant(t) ==
    /\ at[t] = "backfilling"
    /\ \/ \E a \in Arns : Write(t, a, "idle")
       \/ Drop(t, "idle")
    /\ UNCHANGED <<authMethod, arnOnDisk, usage403, allBad, bg, missed>>
Backfilled(t) ==
    /\ at[t] = "backfilling"
    /\ \/ \E a \in Arns : Write(t, a, "persist")
       \/ Drop(t, "idle")
    /\ UNCHANGED <<authMethod, arnOnDisk, usage403, allBad, bg, missed>>

(* switch_profile_region_for: the target was probed and is written, whatever the entry holds. *)
SwitchStart(t) ==
    /\ at[t] = "idle" /\ authMethod # "social"
    /\ Copy(t, "switching")
    /\ UNCHANGED <<authMethod, arn, arnOnDisk, usage403, allBad, bg, missed>>
Switched(t) ==
    /\ at[t] = "switching"
    /\ \/ \E a \in Arns : Write(t, a, "persist") /\ usage403' = FALSE
       \/ Drop(t, "idle") /\ UNCHANGED usage403
    /\ UNCHANGED <<authMethod, arnOnDisk, allBad, bg, missed>>

Awaits == {"refreshing", "resolving", "validating", "probing", "backfilling", "switching"}

(* Dropped at these, a refresh has written back and has not written the file yet. *)
WroteBack(t) == at[t] = "resolving" \/ (at[t] = "probing" /\ t \notin bg)

(* Mutant: the background task clears its flag only when it returns. *)
AbandonTaskMutant(t) ==
    /\ at[t] \in Awaits
    /\ Drop(t, "idle")
    /\ missed' = (missed \/ WroteBack(t))
    /\ UNCHANGED <<authMethod, arnOnDisk, usage403, allBad, bg>>

(* The task's future is dropped at its await, its guards with it. *)
AbandonTask(t) ==
    /\ at[t] \in Awaits
    /\ bg' = bg \ {t}
    /\ missed' = (missed \/ WroteBack(t))
    /\ Drop(t, "idle")
    /\ UNCHANGED <<authMethod, arnOnDisk, usage403, allBad>>

(* mark_usage_403_feature_not_supported; the pause ends. *)
Usage403 ==
    /\ ~usage403 /\ usage403' = TRUE
    /\ UNCHANGED <<authMethod, arn, arnOnDisk, allBad, at, seen, bg, missed>>
PauseEnds ==
    /\ allBad /\ allBad' = FALSE
    /\ UNCHANGED <<authMethod, arn, arnOnDisk, usage403, at, seen, bg, missed>>

RestartTasks ==
    /\ arn' = arnOnDisk /\ usage403' = FALSE /\ allBad' = FALSE /\ bg' = {} /\ missed' = FALSE
    /\ at' = [t \in Tasks |-> "idle"] /\ seen' = [t \in Tasks |-> NoArn]
    /\ UNCHANGED <<authMethod, arnOnDisk>>

ArnNext ==
    \/ \E t \in Tasks :
        \/ RefreshStart(t) \/ RefreshAnswer(t) \/ AfterRefresh(t) \/ Resolved(t)
        \/ BackgroundProbe(t) \/ TokenValidated(t) \/ Probed(t) \/ PersistArn(t) \/ BackfillStart(t) \/ Backfilled(t)
        \/ SwitchStart(t) \/ Switched(t) \/ AbandonTask(t)
    \/ Usage403 \/ PauseEnds \/ RestartTasks

ArnSpec == ArnInit /\ [][ArnNext]_arnVars

-----------------------------------------------------------------------------
(* An ARN in memory that the file does not have is on its way there: some task that has written, or
   that comes after the one that wrote, has its write of the file still before it, whichever awaits
   lie between. The exceptions are the two the code accepts: the last write of the file failed, or a
   refresh was dropped after its write-back. *)
UnsavedArnIsOwed ==
    arn # arnOnDisk => missed \/ \E t \in Tasks : at[t] \in {"after", "persist"} \/ WroteBack(t)

(* reprobe_in_flight is set only while its task runs: whichever way the task ends, before or after
   its token is valid, the next probe of the credential can start. *)
ProbeFlagHasTask == \A t \in bg : at[t] \in {"validating", "probing", "persist"}
=============================================================================
