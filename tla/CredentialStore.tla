--------------------------- MODULE CredentialStore ---------------------------
(***************************************************************************)
(* Where a credential lives: the pool (entries, credentials.json) and the  *)
(* recycle bin (trash, trash.json) of MultiTokenManager, moved between by  *)
(* add_credential, delete_credential, restore_credential and the purges.   *)
(* Memory changes at once, under the locks; the two files are written one  *)
(* after the other, without them, by each operation and by every other     *)
(* operation that persists the pool.  A write under persist_lock, snapshot *)
(* included, is one step: no other write can come between.                 *)
(*                                                                         *)
(* A place is a function from ids to the number of entries it holds with   *)
(* that id.  The credential material is abstracted to what the duplicate   *)
(* checks compare, a key: the refresh token, the API key, or the URL and   *)
(* key of a custom API.  Entries opened several times share it.  The key   *)
(* of a credential to be added may be exchanged by its validation.  The    *)
(* refreshes of entries in the pool are left out: each leaves an entry     *)
(* with a token no other has, and so can only tell entries apart.          *)
(* Cooldowns are tracked only as the set of ids that have one, because     *)
(* they are the per-id state that survives a restart.                      *)
(***************************************************************************)
EXTENDS Naturals, FiniteSets, FiniteSetsExt

CONSTANTS Threads,   \* admin handlers and reporters running at the same time
          Keys,      \* credential material
          Accounts,  \* sets of keys: the refresh tokens of one OAuth account each
          Custom,    \* keys of custom_api credentials
          MaxId,     \* bound: ids ever allocated
          MaxOps     \* bound: operations and requests started

ASSUME StoreBounds ==
    /\ MaxId \in Nat \ {0} /\ MaxOps \in Nat
    /\ IsFiniteSet(Threads)
    /\ Accounts \subseteq SUBSET Keys /\ Custom \subseteq Keys

Ids == 1..MaxId

VARIABLES
    pool,      \* entries: id -> multiplicity
    bin,       \* trash: id -> multiplicity
    poolFile,  \* credentials.json
    binFile,   \* trash.json
    keyOf,     \* key of each allocated id
    nextId,    \* next_id
    cooled,    \* ids with a cooldown entry in memory
    coolFile,  \* ids with a cooldown entry in the cooldown file
    serving,   \* ids with a request in flight
    up,        \* the process runs (FALSE: new() refused to start)
    pc,        \* per thread: the write it still owes, or "idle"
    on,        \* per thread: the id its operation is about
    request,   \* per thread: what its add_credential was called with; {} if none
    ops,       \* operations and requests started (bounded)
    stored,    \* history: ids that this process has found or put in
               \* credentials.json and nobody has purged
    twins      \* history: ids let in without a look at the keys in the pool: by
               \* allow_duplicate, by a restore that is forced or of a custom
               \* API, or by a rolled back delete

places == <<pool, bin>>
files == <<poolFile, binFile>>
ids == <<keyOf, nextId>>
requests == <<serving, cooled, coolFile>>
threads == <<pc, on, request, ops>>
history == <<stored, twins>>
vars == <<places, files, ids, requests, up, threads, history>>

Steps == {"idle", "add", "persist", "deleteTrash", "putBack", "deletePool",
          "restorePool", "restoreTrash", "purgeTrash"}

TypeOK ==
    /\ pool \in [Ids -> Nat] /\ bin \in [Ids -> Nat]
    /\ poolFile \in [Ids -> Nat] /\ binFile \in [Ids -> Nat]
    /\ keyOf \in [Ids -> Keys]
    /\ nextId \in 1..MaxId + 1
    /\ cooled \subseteq Ids /\ coolFile \subseteq Ids /\ serving \subseteq Ids
    /\ up \in BOOLEAN
    /\ pc \in [Threads -> Steps]
    /\ on \in [Threads -> Ids]
    /\ request \in [Threads -> SUBSET [key : Keys, duplicate : BOOLEAN]]
    /\ ops \in 0..MaxOps
    /\ stored \subseteq Ids /\ twins \subseteq Ids

Holds(place) == {i \in Ids : place[i] > 0}
Nothing == [i \in Ids |-> 0]
InPool(k) == \E i \in Holds(pool) : keyOf[i] = k

\* The entries in the hands of a roll back, between the lock of the bin and
\* the lock of the pool.
Carrying(i) == {t \in Threads : pc[t] = "putBack" /\ on[t] = i}
InHands == {i \in Ids : Carrying(i) # {}}

\* One credential, already on disk.
Init ==
    /\ pool = [Nothing EXCEPT ![1] = 1] /\ poolFile = pool
    /\ bin = Nothing /\ binFile = bin
    /\ keyOf \in {[i \in Ids |-> k] : k \in Keys}
    /\ nextId = 2
    /\ cooled = {} /\ coolFile = {} /\ serving = {}
    /\ up = TRUE
    /\ pc = [t \in Threads |-> "idle"]
    /\ on = [t \in Threads |-> 1]
    /\ request = [t \in Threads |-> {}]
    /\ ops = 0
    /\ stored = {1} /\ twins = {}

\* An operation of thread t about id i begins and owes the write `owes'.
Start(t, i, owes) ==
    /\ up
    /\ pc[t] = "idle"
    /\ ops < MaxOps
    /\ ops' = ops + 1
    /\ pc' = [pc EXCEPT ![t] = owes]
    /\ on' = [on EXCEPT ![t] = i]

-----------------------------------------------------------------------------
(* Operations on memory.                                                   *)

\* add_credential_inner, step 2: refuse a key the pool has, unless
\* allow_duplicate.  The lock is released, and the validation may await.
AddChecks(t, k, allowDuplicate) ==
    /\ allowDuplicate \/ ~InPool(k)
    /\ Start(t, 1, "add")
    /\ request' = [request EXCEPT ![t] = {[key |-> k, duplicate |-> allowDuplicate]}]
    /\ UNCHANGED <<places, files, ids, requests, up, history>>

\* Step 3: refresh_token, which may exchange the refresh token for another of
\* its account.  An API key and a custom API are taken as they are.
Validated(k) == {k} \cup UNION {a \in Accounts : k \in a}

AddInvalid(t) ==
    /\ pc[t] = "add"
    /\ \E r \in request[t] : r.key \in UNION Accounts
    /\ pc' = [pc EXCEPT ![t] = "idle"]
    /\ request' = [request EXCEPT ![t] = {}]
    /\ UNCHANGED <<places, files, ids, requests, up, on, ops, history>>

\* Step 5 compares the validated key, now that the entries stay locked.
RefusedNowMutant(r, k) == FALSE
RefusedNow(r, k) == ~r.duplicate /\ InPool(k)

\* Steps 4 and 5: take next_id and, in one critical section, check the key
\* again and push.  An id whose push is refused is never handed out again.
AddPushes(t, r, k) ==
    /\ pc[t] = "add"
    /\ k \in Validated(r.key)
    /\ nextId \in Ids
    /\ nextId' = nextId + 1
    /\ request' = [request EXCEPT ![t] = {}]
    /\ IF RefusedNow(r, k)
       THEN /\ pc' = [pc EXCEPT ![t] = "idle"]
            /\ UNCHANGED <<pool, keyOf, on, twins>>
       ELSE /\ pc' = [pc EXCEPT ![t] = "persist"]
            /\ on' = [on EXCEPT ![t] = nextId]
            /\ pool' = [pool EXCEPT ![nextId] = 1]
            /\ keyOf' = [keyOf EXCEPT ![nextId] = k]
            /\ twins' = IF r.duplicate THEN twins \cup {nextId} ELSE twins \ {nextId}
    /\ UNCHANGED <<bin, files, requests, up, ops, stored>>

\* delete_credential_forced: from the pool to the bin; its cooldown goes.
\* (The gate on disabled is lifted by force, so any entry may go.)
Found(place, i) == place[i] > 0

DeleteCredential(t, i) ==
    /\ Found(pool, i)
    /\ Start(t, i, "deleteTrash")
    /\ pool' = [pool EXCEPT ![i] = @ - 1]
    /\ bin' = [bin EXCEPT ![i] = @ + 1]
    /\ cooled' = cooled \ {i}
    /\ UNCHANGED <<files, ids, serving, coolFile, up, request, history>>

\* restore_credential: unless forced, refuse an API key or a refresh token the
\* pool already has.  A custom API is let in as it is.
Unchecked(i, force) == force \/ keyOf[i] \in Custom

RestoreCredential(t, i, force) ==
    /\ Found(bin, i)
    /\ Unchecked(i, force) \/ ~InPool(keyOf[i])
    /\ Start(t, i, "restorePool")
    /\ twins' = IF Unchecked(i, force) THEN twins \cup {i} ELSE twins
    /\ bin' = [bin EXCEPT ![i] = @ - 1]
    /\ pool' = [pool EXCEPT ![i] = @ + 1]
    /\ UNCHANGED <<files, ids, requests, up, request, stored>>

\* purge_credential.
PurgeCredential(t, i) ==
    /\ Found(bin, i)
    /\ Start(t, i, "purgeTrash")
    /\ bin' = [bin EXCEPT ![i] = @ - 1]
    /\ stored' = stored \ ({i} \ (Holds(pool) \cup InHands))
    /\ UNCHANGED <<pool, files, ids, requests, up, request, twins>>

\* purge_all_trash; purge_expired_trash removes any subset that has expired.
PurgeTrash(t, gone) ==
    /\ gone # {} /\ gone \subseteq Holds(bin)
    /\ Start(t, CHOOSE i \in gone : TRUE, "purgeTrash")
    /\ bin' = [i \in Ids |-> IF i \in gone THEN 0 ELSE bin[i]]
    /\ stored' = stored \ (gone \ (Holds(pool) \cup InHands))
    /\ UNCHANGED <<pool, files, ids, requests, up, request, twins>>

\* Any other operation that writes the pool: an automatic disable
\* (persist_disabled_state), set_disabled, a token refresh, self-healing.
PersistElsewhere(t, i) ==
    /\ Start(t, i, "persist")
    /\ UNCHANGED <<places, files, ids, requests, up, request, history>>

-----------------------------------------------------------------------------
(* Writes: persist_credentials and persist_trash.                          *)

\* persist_credentials: snapshot and write under persist_lock; it may fail.
PoolWritten ==
    /\ poolFile' = pool
    /\ stored' = stored \cup Holds(pool)
PoolNotWritten == UNCHANGED <<poolFile, stored>>

PersistOnly(t) ==
    /\ pc[t] = "persist"
    /\ pc' = [pc EXCEPT ![t] = "idle"]
    /\ PoolWritten \/ PoolNotWritten
    /\ UNCHANGED <<places, binFile, ids, requests, up, on, request, ops, twins>>

\* Delete writes the bin first.  If that fails, its own entry, found by id, is
\* taken out of the bin again, if it is still there: the lock of the bin.
RollBackMutant(t) ==
    \/ Holds(bin) = {} /\ UNCHANGED bin /\ pc' = [pc EXCEPT ![t] = "idle"]
    \/ \E last \in Holds(bin) :
        /\ bin' = [bin EXCEPT ![last] = @ - 1]
        /\ pc' = [pc EXCEPT ![t] = "putBack"]
RollBack(t) ==
    IF bin[on[t]] > 0
    THEN /\ bin' = [bin EXCEPT ![on[t]] = @ - 1]
         /\ pc' = [pc EXCEPT ![t] = "putBack"]
    ELSE UNCHANGED bin /\ pc' = [pc EXCEPT ![t] = "idle"]

AfterTrashFailsMutant(t) == UNCHANGED bin /\ pc' = [pc EXCEPT ![t] = "deletePool"]
AfterTrashFails(t) == RollBack(t)

DeleteWritesTrash(t) ==
    /\ pc[t] = "deleteTrash"
    /\ \/ /\ binFile' = bin
          /\ pc' = [pc EXCEPT ![t] = "deletePool"]
          /\ UNCHANGED bin
       \/ AfterTrashFails(t) /\ UNCHANGED binFile
    /\ UNCHANGED <<pool, poolFile, ids, requests, up, on, request, ops, history>>

\* Later, under the lock of the pool, the entry is pushed again, whatever has
\* come into the pool meanwhile.
PutBack(t) ==
    /\ pc[t] = "putBack"
    /\ pc' = [pc EXCEPT ![t] = "idle"]
    /\ pool' = [pool EXCEPT ![on[t]] = @ + 1]
    /\ twins' = twins \cup {on[t]}
    /\ UNCHANGED <<bin, files, ids, requests, up, on, request, ops, stored>>

\* Then the pool; a failure is returned to the caller, nothing is undone.
DeleteWritesPool(t) ==
    /\ pc[t] = "deletePool"
    /\ pc' = [pc EXCEPT ![t] = "idle"]
    /\ PoolWritten \/ PoolNotWritten
    /\ UNCHANGED <<places, binFile, ids, requests, up, on, request, ops, twins>>

\* Restore writes the pool first; a failure ends the operation.
RestoreWritesPool(t) ==
    /\ pc[t] = "restorePool"
    /\ \/ PoolWritten /\ pc' = [pc EXCEPT ![t] = "restoreTrash"]
       \/ PoolNotWritten /\ pc' = [pc EXCEPT ![t] = "idle"]
    /\ UNCHANGED <<places, binFile, ids, requests, up, on, request, ops, twins>>

\* Then the bin; a failure is only logged.  The purges write the bin only.
WritesTrash(t) ==
    /\ pc[t] \in {"restoreTrash", "purgeTrash"}
    /\ pc' = [pc EXCEPT ![t] = "idle"]
    /\ binFile' \in {bin, binFile}
    /\ UNCHANGED <<places, poolFile, ids, requests, up, on, request, ops, history>>

-----------------------------------------------------------------------------
(* Requests, cooldowns, restart.                                           *)

\* A request is served with a credential of the pool...
BeginRequest(i) ==
    /\ up /\ pool[i] > 0 /\ i \notin serving
    /\ ops < MaxOps
    /\ ops' = ops + 1
    /\ serving' = serving \cup {i}
    /\ UNCHANGED <<places, files, ids, cooled, coolFile, up, pc, on, request, history>>

\* ...and its outcome is reported even if the credential is gone by then:
\* report_rate_limited, report_server_error, report_auth_cooldown set a
\* cooldown for the id without looking it up in entries.
ReportCooldown(i) ==
    /\ up /\ i \in serving
    /\ serving' = serving \ {i}
    /\ cooled' = cooled \cup {i}
    /\ UNCHANGED <<places, files, ids, coolFile, up, threads, history>>

\* A cooldown runs out.
CooldownExpires(i) ==
    /\ i \in cooled \cup coolFile
    /\ cooled' = cooled \ {i}
    /\ coolFile' = coolFile \ {i}
    /\ UNCHANGED <<places, files, ids, serving, up, threads, history>>

\* CooldownManager::save (DebouncedSave has the details).
SaveCooldowns ==
    /\ up /\ coolFile # cooled
    /\ coolFile' = cooled
    /\ UNCHANGED <<places, files, ids, serving, cooled, up, threads, history>>

\* new() starts next_id after the largest id of credentials.json, and raises
\* it above those of trash.json.
FirstIdMutant == Max({0} \cup Holds(poolFile)) + 1
FirstId == Max({0} \cup Holds(poolFile) \cup Holds(binFile)) + 1

\* The process dies; new() reads the files back, and refuses duplicate ids.
CrashAndStart ==
    /\ up
    /\ up' = (\A i \in Ids : poolFile[i] <= 1)
    /\ pool' = poolFile
    /\ bin' = binFile
    /\ nextId' = FirstId
    /\ cooled' = coolFile
    /\ serving' = {}
    /\ pc' = [t \in Threads |-> "idle"]
    /\ request' = [t \in Threads |-> {}]
    /\ stored' = Holds(poolFile) \cup Holds(binFile)
    /\ UNCHANGED <<files, keyOf, coolFile, on, ops, twins>>

Operation(t) ==
    \/ \E k \in Keys, d \in BOOLEAN : AddChecks(t, k, d)
    \/ AddInvalid(t)
    \/ \E r \in request[t], k \in Keys : AddPushes(t, r, k)
    \/ \E i \in Ids :
        \/ DeleteCredential(t, i)
        \/ \E force \in BOOLEAN : RestoreCredential(t, i, force)
        \/ PurgeCredential(t, i)
    \/ \E gone \in SUBSET Ids : PurgeTrash(t, gone)
    \/ PersistElsewhere(t, 1)

Write(t) ==
    \/ PersistOnly(t) \/ DeleteWritesTrash(t) \/ PutBack(t) \/ DeleteWritesPool(t)
    \/ RestoreWritesPool(t) \/ WritesTrash(t)

Next ==
    \/ \E t \in Threads : Operation(t) \/ Write(t)
    \/ \E i \in Ids : BeginRequest(i) \/ ReportCooldown(i) \/ CooldownExpires(i)
    \/ SaveCooldowns
    \/ CrashAndStart

Spec == Init /\ [][Next]_vars

-----------------------------------------------------------------------------

(* A credential that was durable once and is now in neither file is never *)
(* forgotten, whichever operations write the two files in whatever order  *)
(* and whichever of the writes fail: it is in the pool in memory, so that *)
(* the next persist_credentials writes it, or the delete that moved it    *)
(* has still to write the bin or to put it back. It is never in this      *)
(* process's bin alone.                                                   *)
MissingIsPending ==
    \A i \in stored \ (Holds(poolFile) \cup Holds(binFile)) :
        \/ i \in Holds(pool)
        \/ \E t \in Threads : pc[t] \in {"deleteTrash", "putBack"} /\ on[t] = i

(* An id that add_credential will hand out is in no place, in memory, on   *)
(* its way through a roll back or on disk, so that a restore can never     *)
(* meet it.                                                                *)
NextIdFresh ==
    \A i \in Holds(pool) \cup Holds(bin) \cup InHands \cup Holds(poolFile) \cup Holds(binFile) :
        i < nextId

(* Persisting neither drops nor duplicates a credential in memory: the     *)
(* roll back of a delete takes back its own entry, whatever other deletes, *)
(* restores and purges did to the bin meanwhile, and between the two locks *)
(* the entry is in its hands, and nowhere else.                            *)
WritesMoveNothing ==
    [][\A t \in Threads : Write(t) =>
           \A i \in Ids : pool'[i] + bin'[i] + Cardinality(Carrying(i)')
                           = pool[i] + bin[i] + Cardinality(Carrying(i))]_vars

(* One key is in the pool twice only if an entry came in unchecked: with   *)
(* allow_duplicate, by a forced restore or one of a custom API, by a       *)
(* failed delete. Of two concurrent add_credential of one key the check    *)
(* made while the entries are locked stops the second, however long ago    *)
(* both passed the first check and whatever key the validation gave it.    *)
NoUnwantedTwins ==
    \A i, j \in Holds(pool) : (i # j /\ keyOf[i] = keyOf[j]) => {i, j} \cap twins # {}

=============================================================================
