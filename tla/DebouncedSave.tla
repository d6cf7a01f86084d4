---------------------------- MODULE DebouncedSave ----------------------------
(***************************************************************************)
(* The debounced save protocol that CooldownManager (mark_dirty, save,     *)
(* flush_now, load) and MultiTokenManager (save_stats_debounced,           *)
(* save_stats, flush_stats_now, load_stats) share: a change is applied     *)
(* under the entries lock, and only then, without any lock, bumps a        *)
(* version, sets a dirty flag and possibly saves.  A save runs under       *)
(* save_lock: snapshot (entries and version), write_atomic, last_save_at,  *)
(* compare the versions, clear dirty.  Each access to shared memory is a   *)
(* step of its own, because the code makes each one without a lock that    *)
(* covers the next.                                                        *)
(*                                                                         *)
(* What is stored is abstracted to the number of changes it contains: the  *)
(* value c of mem or disk stands for the state after the first c changes.  *)
(***************************************************************************)
EXTENDS Naturals

CONSTANTS Threads,     \* tokio workers that change entries or flush
          NoThread,    \* the holder of a free save_lock
          MaxChanges,  \* bound: changes over the whole behaviour
          MaxFlushes   \* bound: shutdown signals over the whole behaviour

ASSUME NoThreadAssumption == NoThread \notin Threads

ASSUME BoundsAssumption == MaxChanges \in Nat /\ MaxFlushes \in Nat

VARIABLES
    mem,       \* changes contained in the entries map
    version,   \* PersistState.version / stats_version
    dirty,     \* PersistState.dirty / stats_dirty
    elapsed,   \* last_save_at.elapsed() >= SAVE_DEBOUNCE
    saveLock,  \* holder of save_lock, or NoThread
    disk,      \* changes contained in the file
    pc,        \* where each thread is in the protocol
    snap,      \* the snapshot a saving thread took: changes and version
    raced,     \* history: the last write to dirty was a ClearDirty whose
               \* version comparison had become stale
    goal,      \* history: mem when the thread's flush_now found dirty set
    flushes    \* history: flushes started (bounded)

vars == <<mem, version, dirty, elapsed, saveLock, disk, pc, snap, raced, goal,
          flushes>>

Steps == {"idle", "bump", "mark", "debounce", "lock", "snapshot", "write",
          "stamp", "compare", "clear", "unlock"}

Saving == {"snapshot", "write", "stamp", "compare", "clear", "unlock"}

TypeOK ==
    /\ mem \in Nat
    /\ version \in Nat
    /\ dirty \in BOOLEAN
    /\ elapsed \in BOOLEAN
    /\ saveLock \in Threads \cup {NoThread}
    /\ disk \in Nat
    /\ pc \in [Threads -> Steps]
    /\ snap \in [Threads -> [mem : Nat, version : Nat]]
    /\ raced \in BOOLEAN
    /\ goal \in [Threads -> Nat]
    /\ flushes \in Nat

NoSnap == [mem |-> 0, version |-> 0]

\* with_data_dir / new: last_save_at is "now", nothing is dirty.
Init ==
    /\ mem = 0
    /\ version = 0
    /\ dirty = FALSE
    /\ elapsed = FALSE
    /\ saveLock = NoThread
    /\ disk = 0
    /\ pc = [t \in Threads |-> "idle"]
    /\ snap = [t \in Threads |-> NoSnap]
    /\ raced = FALSE
    /\ goal = [t \in Threads |-> 0]
    /\ flushes = 0

Goto(t, from, to) == pc[t] = from /\ pc' = [pc EXCEPT ![t] = to]

\* A setter changes the entries under the entries lock and releases it.
Change(t) ==
    /\ Goto(t, "idle", "bump")
    /\ mem < MaxChanges
    /\ mem' = mem + 1
    /\ UNCHANGED <<version, dirty, elapsed, saveLock, disk, snap, raced, goal, flushes>>

\* mark_dirty: version.fetch_add(1).
NewerMutant(v) == v
Newer(v) == v + 1

BumpVersion(t) ==
    /\ Goto(t, "bump", "mark")
    /\ version' = Newer(version)
    /\ UNCHANGED <<mem, dirty, elapsed, saveLock, disk, snap, raced, goal, flushes>>

\* mark_dirty: dirty.store(true).
SetDirty(t) ==
    /\ Goto(t, "mark", "debounce")
    /\ dirty' = TRUE
    /\ raced' = FALSE
    /\ UNCHANGED <<mem, version, elapsed, saveLock, disk, snap, goal, flushes>>

\* mark_dirty: save only when the debounce window has passed.
Debounce(t) ==
    /\ Goto(t, "debounce", IF elapsed THEN "lock" ELSE "idle")
    /\ UNCHANGED <<mem, version, dirty, elapsed, saveLock, disk, snap, raced, goal, flushes>>

\* flush_now / flush_stats_now: return at once unless dirty, else save.
FlushNow(t) ==
    /\ pc[t] = "idle"
    /\ flushes < MaxFlushes
    /\ flushes' = flushes + 1
    /\ pc' = [pc EXCEPT ![t] = IF dirty THEN "lock" ELSE "idle"]
    /\ goal' = [goal EXCEPT ![t] = IF dirty THEN mem ELSE goal[t]]
    /\ UNCHANGED <<mem, version, dirty, elapsed, saveLock, disk, snap, raced>>

\* save: save_lock.lock().
SaveLockFreeMutant == TRUE
SaveLockFree == saveLock = NoThread

TakeSaveLock(t) ==
    /\ Goto(t, "lock", "snapshot")
    /\ SaveLockFree
    /\ saveLock' = t
    /\ UNCHANGED <<mem, version, dirty, elapsed, disk, snap, raced, goal, flushes>>

\* save: under the entries lock, the entries and the version are read.  The
\* version is not protected by the entries lock, but nothing else in the step
\* depends on it, so the two reads are one step.
Snapshot(t) ==
    /\ Goto(t, "snapshot", "write")
    /\ snap' = [snap EXCEPT ![t] = [mem |-> mem, version |-> version]]
    /\ UNCHANGED <<mem, version, dirty, elapsed, saveLock, disk, raced, goal, flushes>>

\* save: write_atomic succeeds.
WriteOk(t) ==
    /\ Goto(t, "write", "stamp")
    /\ disk' = snap[t].mem
    /\ UNCHANGED <<mem, version, dirty, elapsed, saveLock, snap, raced, goal, flushes>>

\* save: write_atomic fails; it keeps the old file, and save only warns.
AfterFailedWrite == "unlock"

WriteFails(t) ==
    /\ Goto(t, "write", AfterFailedWrite)
    /\ UNCHANGED <<mem, version, dirty, elapsed, saveLock, disk, snap, raced, goal, flushes>>

\* save: *last_save_at.lock() = Some(now).
StampSave(t) ==
    /\ Goto(t, "stamp", "compare")
    /\ elapsed' = FALSE
    /\ UNCHANGED <<mem, version, dirty, saveLock, disk, snap, raced, goal, flushes>>

\* save: version.load() == snap_version ?
CompareVersion(t) ==
    /\ Goto(t, "compare", IF version = snap[t].version THEN "clear" ELSE "unlock")
    /\ UNCHANGED <<mem, version, dirty, elapsed, saveLock, disk, snap, raced, goal, flushes>>

\* save: dirty.store(false).
ClearDirty(t) ==
    /\ Goto(t, "clear", "unlock")
    /\ dirty' = FALSE
    /\ raced' = (version # snap[t].version)
    /\ UNCHANGED <<mem, version, elapsed, saveLock, disk, snap, goal, flushes>>

\* save returns: the guard on save_lock is dropped.
ReleaseSaveLock(t) ==
    /\ Goto(t, "unlock", "idle")
    /\ saveLock' = NoThread
    /\ UNCHANGED <<mem, version, dirty, elapsed, disk, snap, raced, goal, flushes>>

\* Time passes: the debounce window since last_save_at ends.
WindowEnds ==
    /\ ~elapsed
    /\ elapsed' = TRUE
    /\ UNCHANGED <<mem, version, dirty, saveLock, disk, pc, snap, raced, goal, flushes>>

\* The process dies at any point and a new one loads the file: load() starts
\* from an empty map, and leaves dirty unset and last_save_at "now".
CrashAndLoad ==
    /\ mem' = disk
    /\ version' = 0
    /\ dirty' = FALSE
    /\ elapsed' = FALSE
    /\ saveLock' = NoThread
    /\ pc' = [t \in Threads |-> "idle"]
    /\ snap' = [t \in Threads |-> NoSnap]
    /\ raced' = FALSE
    /\ goal' = [t \in Threads |-> 0]
    /\ UNCHANGED <<disk, flushes>>

Save(t) ==
    \/ TakeSaveLock(t) \/ Snapshot(t) \/ WriteOk(t) \/ WriteFails(t)
    \/ StampSave(t) \/ CompareVersion(t) \/ ClearDirty(t) \/ ReleaseSaveLock(t)

MarkDirty(t) == BumpVersion(t) \/ SetDirty(t) \/ Debounce(t)

Next ==
    \/ \E t \in Threads : Change(t) \/ MarkDirty(t) \/ FlushNow(t) \/ Save(t)
    \/ WindowEnds
    \/ CrashAndLoad

Spec == Init /\ [][Next]_vars

-----------------------------------------------------------------------------

(* An older snapshot never overwrites a newer one: save_lock is taken      *)
(* before the snapshot, so a save that waited writes what it finds then    *)
(* (the claim in the comment of CooldownManager::save).                    *)
DiskNeverGoesBack == [][disk' >= disk]_vars

(* A flush_now that found dirty set and whose write succeeded has put on   *)
(* disk every change that was in memory when it was called, whatever other *)
(* saves ran in between.                                                   *)
FlushCoversEarlierChanges ==
    \A t \in Threads : pc[t] = "stamp" => disk >= goal[t]

(* A change that is in memory and not on disk is marked dirty, or is about *)
(* to be by the thread that made it.  The one hole is a clear of dirty     *)
(* whose version comparison another thread's change has overtaken.         *)
UnsavedIsMarked ==
    \/ mem = disk
    \/ dirty
    \/ \E t \in Threads : pc[t] \in {"bump", "mark"}
    \/ raced

=============================================================================
