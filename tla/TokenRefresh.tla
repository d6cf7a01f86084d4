----------------------------- MODULE TokenRefresh -----------------------------
(***************************************************************************)
(* How one credential's access token is refreshed:                         *)
(* MultiTokenManager::refresh_token_locked, called by requests             *)
(* (ensure_valid_token), by the prefetch loop and by force refreshes,      *)
(* while the administrator replaces the refresh token.  What the same      *)
(* calls do to the profile ARN is in ProfileArn.                           *)
(*                                                                         *)
(* The identity provider rotates refresh tokens: each one is accepted only *)
(* until its successor is issued.  A token is [root, gen]: the login it    *)
(* descends from and how often it was rotated since.  Every await of the   *)
(* code is a place where another step, a dropped future or a crash fits.   *)
(***************************************************************************)
EXTENDS Naturals

CONSTANTS Flights,   \* calls of refresh_token_locked that may be under way at once
          Roots,     \* logins the administrator may store, 1 is the first
          MaxGens,   \* bound: rotations of one login
          MaxTries,  \* MAX_ATTEMPTS (3)
          Methods    \* auth methods: "social", "idc", "external_idp"

ASSUME TokenRefreshConstants ==
    /\ Roots \subseteq Nat /\ 1 \in Roots
    /\ MaxGens \in Nat /\ MaxTries \in Nat \ {0}

NoFlight == "nobody"

ASSUME NoFlightIsNone == NoFlight \notin Flights

Tokens == [root : Roots, gen : 0..MaxGens]

(* A call is made for a request, by the prefetch loop or unconditionally. *)
Kinds == {"request", "prefetch", "forced"}
Places == {"idle", "waiting", "calling", "answered", "rejected", "region", "persist"}

VARIABLES
    method,     \* auth method of the credential
    entry,      \* its refresh token, and whether the access token is still valid
    disk,       \* the same in credentials.json
    invalid,    \* disabled with DisabledReason::InvalidRefreshToken
    holder,     \* who holds entry.refresh_lock
    pc,         \* where each call is
    kind,       \* what each call was made for
    snap,       \* the credentials each call copied last
    tries,      \* its attempt
    answer,     \* the refresh token the provider answered with
    idp,        \* the provider: per login, the generation it accepts
    lost        \* history: logins whose last rotation this program could not keep

call == <<pc, kind, snap, tries, answer>>
vars == <<method, entry, disk, invalid, holder, call, idp, lost>>

Creds == [refresh : Tokens, valid : BOOLEAN]

TypeOK ==
    /\ method \in Methods
    /\ entry \in Creds /\ disk \in Creds
    /\ invalid \in BOOLEAN
    /\ holder \in Flights \cup {NoFlight}
    /\ pc \in [Flights -> Places] /\ kind \in [Flights -> Kinds]
    /\ snap \in [Flights -> Creds] /\ tries \in [Flights -> 0..MaxTries - 1]
    /\ answer \in [Flights -> Tokens]
    /\ idp \in [Roots -> 0..MaxGens] /\ lost \subseteq Roots

First == [refresh |-> [root |-> 1, gen |-> 0], valid |-> FALSE]

Init ==
    /\ method \in Methods
    /\ entry = First /\ disk = First
    /\ invalid = FALSE
    /\ holder = NoFlight
    /\ pc = [f \in Flights |-> "idle"] /\ kind = [f \in Flights |-> "forced"]
    /\ snap = [f \in Flights |-> First] /\ tries = [f \in Flights |-> 0]
    /\ answer = [f \in Flights |-> First.refresh]
    /\ idp = [r \in Roots |-> 0] /\ lost = {}

Live(t) == t.gen = idp[t.root]

(* A call is done with the provider: its locals are dead and its guard frees the lock. *)
Leave(f, place) ==
    /\ pc' = [pc EXCEPT ![f] = place]
    /\ snap' = [snap EXCEPT ![f] = First] /\ tries' = [tries EXCEPT ![f] = 0]
    /\ answer' = [answer EXCEPT ![f] = First.refresh]
    /\ holder' = IF holder = f THEN NoFlight ELSE holder

End(f) == Leave(f, "idle") /\ kind' = [kind EXCEPT ![f] = "forced"]

-----------------------------------------------------------------------------
(* The three ways into refresh_token_locked. *)

(* ensure_valid_token of a request found the access token expired; the pool only selects enabled credentials. *)
RequestNeeds(f) ==
    /\ pc[f] = "idle" /\ ~invalid /\ ~entry.valid
    /\ pc' = [pc EXCEPT ![f] = "waiting"] /\ kind' = [kind EXCEPT ![f] = "request"]
    /\ UNCHANGED <<method, entry, disk, invalid, holder, snap, tries, answer, idp, lost>>

(* refresh_loop: credentials_due_for_refresh listed the credential. *)
PrefetchDue(f) ==
    /\ pc[f] = "idle" /\ ~invalid /\ ~entry.valid
    /\ \A g \in Flights : pc[g] # "idle" => kind[g] # "prefetch"
    /\ pc' = [pc EXCEPT ![f] = "waiting"] /\ kind' = [kind EXCEPT ![f] = "prefetch"]
    /\ UNCHANGED <<method, entry, disk, invalid, holder, snap, tries, answer, idp, lost>>

(* The upstream refused the access token, the panel asked, or the credential is new. *)
ForceRefresh(f) ==
    /\ pc[f] = "idle"
    /\ pc' = [pc EXCEPT ![f] = "waiting"] /\ kind' = [kind EXCEPT ![f] = "forced"]
    /\ UNCHANGED <<method, entry, disk, invalid, holder, snap, tries, answer, idp, lost>>

-----------------------------------------------------------------------------
(* refresh_token_locked. *)

(* tokio::time::timeout over the lock: the caller treats it as a passing failure. *)
LockTimeout(f) ==
    /\ pc[f] = "waiting" /\ holder # NoFlight
    /\ End(f)
    /\ UNCHANGED <<method, entry, disk, invalid, idp, lost>>

(* Mutant: the lock is not waited for, and the expiry is not checked again. *)
TakeLockMutant(f) ==
    /\ pc[f] = "waiting"
    /\ holder' = f
    /\ pc' = [pc EXCEPT ![f] = "calling"]
    /\ snap' = [snap EXCEPT ![f] = entry]
    /\ UNCHANGED <<method, entry, disk, invalid, kind, tries, answer, idp, lost>>

(* With the lock held the credentials are copied and the expiry is checked again: a conditional
   call that finds the token valid by now is skipped. *)
TakeLock(f) ==
    /\ pc[f] = "waiting" /\ holder = NoFlight
    /\ \/ /\ kind[f] # "forced" /\ entry.valid
          /\ End(f)
       \/ /\ kind[f] = "forced" \/ ~entry.valid
          /\ holder' = f
          /\ pc' = [pc EXCEPT ![f] = "calling"]
          /\ snap' = [snap EXCEPT ![f] = entry]
          /\ UNCHANGED <<kind, tries, answer>>
    /\ UNCHANGED <<method, entry, disk, invalid, idp, lost>>

(* The loop over MAX_ATTEMPTS after a failure; retryable as refresh_error_retryable says. *)
NextAttempt(f, retryable) ==
    \/ /\ retryable /\ tries[f] + 1 < MaxTries
       /\ tries' = [tries EXCEPT ![f] = @ + 1]
       /\ UNCHANGED <<pc, kind, snap, answer, holder>>
    \/ /\ ~(retryable /\ tries[f] + 1 < MaxTries)
       /\ End(f)

(* The provider accepts the token, with or without a successor, and the answer arrives. *)
Accepted(f) ==
    /\ pc[f] = "calling" /\ Live(snap[f].refresh)
    /\ \E rotate \in BOOLEAN :
        LET t == snap[f].refresh
            next == IF rotate THEN [t EXCEPT !.gen = @ + 1] ELSE t IN
        /\ rotate => t.gen < MaxGens
        /\ idp' = [idp EXCEPT ![t.root] = next.gen]
        /\ answer' = [answer EXCEPT ![f] = next]
    /\ pc' = [pc EXCEPT ![f] = "answered"]
    /\ UNCHANGED <<method, entry, disk, invalid, holder, kind, snap, tries, lost>>

(* The provider rotates the token and its answer is lost or unreadable: the loop goes on with the
   token that is no longer accepted. *)
AnswerLost(f) ==
    LET t == snap[f].refresh IN
    /\ pc[f] = "calling" /\ Live(t) /\ t.gen < MaxGens
    /\ idp' = [idp EXCEPT ![t.root] = @ + 1]
    /\ lost' = lost \cup {t.root}
    /\ NextAttempt(f, TRUE)
    /\ UNCHANGED <<method, entry, disk, invalid>>

(* Transport error or 5xx: retried, except IdC's 5xx, which is diagnosed at once; any other 4xx ends the call. *)
Failed(f) ==
    /\ pc[f] = "calling"
    /\ \E error \in {"transport", "5xx", "4xx"} :
        NextAttempt(f, error = "transport" \/ (error = "5xx" /\ method # "idc"))
    /\ UNCHANGED <<method, entry, disk, invalid, idp, lost>>

(* invalid_grant or 401: RefreshTokenInvalidError at once; the guard drops with the return. *)
Rejected(f) ==
    /\ pc[f] = "calling" /\ ~Live(snap[f].refresh)
    /\ Leave(f, "rejected")
    /\ UNCHANGED <<method, entry, disk, invalid, kind, idp, lost>>

(* Requests and the prefetch report it (report_refresh_token_invalid), a forced call does not.
   Nothing compares the token that was refused with the one the entry holds by now. *)
ReportInvalid(f) ==
    /\ pc[f] = "rejected"
    /\ invalid' = (invalid \/ kind[f] # "forced")
    /\ End(f)
    /\ UNCHANGED <<method, entry, disk, idp, lost>>

(* Mutant: the answer is written whatever the entry holds by now. *)
IsStaleMutant(f) == FALSE
(* The write-back is dropped when the refresh token was replaced during the call. *)
IsStale(f) == entry.refresh # snap[f].refresh

(* apply_refresh_result_fields; the lock is freed before the profile ARN is looked up. *)
WriteBack(f) ==
    /\ pc[f] = "answered"
    /\ \/ /\ IsStale(f)
          /\ End(f)
          /\ UNCHANGED entry
       \/ /\ ~IsStale(f)
          /\ entry' = [refresh |-> answer[f], valid |-> TRUE]
          /\ Leave(f, "region")
          /\ UNCHANGED kind
    /\ UNCHANGED <<method, disk, invalid, idp, lost>>

(* The awaits of the profile ARN lookups (ProfileArn), or none. *)
RegionDone(f) ==
    /\ pc[f] = "region"
    /\ pc' = [pc EXCEPT ![f] = "persist"]
    /\ UNCHANGED <<method, entry, disk, invalid, holder, kind, snap, tries, answer, idp, lost>>

(* persist_credentials; a failure is only logged. *)
Persist(f) ==
    /\ pc[f] = "persist"
    /\ disk' \in {entry, disk}
    /\ End(f)
    /\ UNCHANGED <<method, entry, invalid, idp, lost>>

(* The future is dropped at an await: the client went away, or the loop was aborted.  An answer that
   was under way is gone. *)
Abandon(f) ==
    /\ pc[f] \in {"waiting", "calling", "answered", "region"}
    /\ lost' = IF pc[f] = "answered" /\ answer[f] # snap[f].refresh
               THEN lost \cup {snap[f].refresh.root} ELSE lost
    /\ End(f)
    /\ UNCHANGED <<method, entry, disk, invalid, idp>>

-----------------------------------------------------------------------------
(* What goes on beside the calls. *)

Expire ==
    /\ entry.valid
    /\ entry' = [entry EXCEPT !.valid = FALSE]
    /\ UNCHANGED <<method, disk, invalid, holder, call, idp, lost>>

(* update_refresh_token with the token of a new login; the file may not be written, memory keeps it. *)
StoreToken(r) ==
    /\ r > entry.refresh.root
    /\ entry' = [entry EXCEPT !.refresh = [root |-> r, gen |-> idp[r]], !.valid = FALSE]
    /\ disk' \in {entry', disk}
    /\ UNCHANGED <<method, invalid, holder, call, idp, lost>>

(* The administrator enables the credential again. *)
Enable ==
    /\ invalid
    /\ invalid' = FALSE
    /\ UNCHANGED <<method, entry, disk, holder, call, idp, lost>>

(* The process dies and starts again from credentials.json. *)
Restart ==
    /\ entry' = disk
    /\ lost' = lost \cup {r \in Roots : r = disk.refresh.root /\ disk.refresh.gen # idp[r]}
    /\ holder' = NoFlight
    /\ pc' = [f \in Flights |-> "idle"] /\ kind' = [f \in Flights |-> "forced"]
    /\ snap' = [f \in Flights |-> First] /\ tries' = [f \in Flights |-> 0]
    /\ answer' = [f \in Flights |-> First.refresh]
    /\ UNCHANGED <<method, disk, invalid, idp>>

Step(f) ==
    \/ LockTimeout(f) \/ TakeLock(f) \/ Accepted(f) \/ AnswerLost(f) \/ Failed(f) \/ Rejected(f)
    \/ ReportInvalid(f) \/ WriteBack(f) \/ RegionDone(f) \/ Persist(f)

Next ==
    \/ \E f \in Flights : RequestNeeds(f) \/ PrefetchDue(f) \/ ForceRefresh(f) \/ Step(f) \/ Abandon(f)
    \/ \E r \in Roots : StoreToken(r)
    \/ Expire \/ Enable \/ Restart

Spec == Init /\ [][Next]_vars

-----------------------------------------------------------------------------
(* The provider is never shown a refresh token it has already replaced, except for a login whose
   successor this program never got to keep (the answer was lost, the call was dropped, the process
   died before the file was written): the per-credential lock, held across the call, and the copy
   taken under it serialise the rotations of every caller. *)
NoReplay ==
    \A f \in Flights : pc[f] = "calling" =>
        LET t == snap[f].refresh IN t.gen = idp[t.root] \/ t.root \in lost

(* A refresh that was under way when the administrator stored a new login never puts the old login
   back: only a restart from a file that was not written does. *)
AdminTokenKept ==
    [][entry'.refresh.root >= entry.refresh.root
       \/ (entry' = disk /\ \A f \in Flights : pc'[f] = "idle")]_vars

(* However many calls, timeouts, dropped requests and stored logins interleave, the credential is
   disabled as invalid only after a rotation was really lost on its way. *)
InvalidOnlyIfLost == invalid => lost # {}

=============================================================================
