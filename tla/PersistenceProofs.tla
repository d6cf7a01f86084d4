--------------------------- MODULE PersistenceProofs ---------------------------
(***************************************************************************)
(* Proofs about what the program keeps on disk: about FsAtomic, for any     *)
(* number of writes and rename attempts, and about DebouncedSave, for any   *)
(* set of threads and any number of changes and flushes.                    *)
(***************************************************************************)
EXTENDS DebouncedSave, FsAtomic, TLAPS

(***************************************************************************)
(* write_atomic: what each step may rely on is stated per region of at.    *)
(***************************************************************************)

(* Until the old file is moved aside the target is as the call found it. *)
Untouched == at \in {"fill", "rename", "fallback", "backup"} => target = before

(* A call has a number, and from the rename on its whole content in tmp. *)
TmpWhole ==
    /\ at # "idle" => writes > 0
    /\ at \notin {"idle", "fill"} => tmp = writes

(* The fallback is remembered, and with it whether there was an old file. *)
OnFallback == at \in {"fallback", "backup", "copy", "copying", "copied", "putBack", "dropNew"}
                => fellBack

OldKnown ==
    /\ at \in {"backup", "copy", "copying", "copied", "putBack", "dropNew"}
         => (hadOld <=> before # Absent)
    /\ at \in {"backup", "putBack"} => hadOld
    /\ at = "dropNew" => ~hadOld

(* Once moved aside the old file is the backup. *)
OldInBak == at \in {"copy", "copying", "copied", "putBack"} /\ hadOld => bak = before

CopiedWhole == at = "copied" => target = writes

Held == Untouched /\ TmpWhole /\ OnFallback /\ OldKnown /\ OldInBak /\ CopiedWhole

(* The two halves of FsTypeOK. *)
FilesOK ==
    /\ {target, bak, tmp, before} \subseteq {Absent, Torn} \cup 1..MaxWrites
    /\ at \in {"idle", "fill", "rename", "fallback", "backup",
               "copy", "copying", "copied", "putBack", "dropNew"}
    /\ attempt \in 1..MaxAttempts /\ writes \in 0..MaxWrites
    /\ result \in {"none", "ok", "err"}
FlagsOK == hadOld \in BOOLEAN /\ saved \in BOOLEAN /\ fellBack \in BOOLEAN /\ unlucky \in BOOLEAN

IInv == FsTypeOK /\ Held /\ ResultIsTrue /\ TornOnlyByFallback /\ OneCallKeepsACopy

(* The type invariant is its two halves: SMT takes the first, Zenon the second. *)
LEMMA TypeHalves == FsTypeOK <=> FilesOK /\ FlagsOK
BY DEF FsTypeOK, FilesOK, FlagsOK

(* No step leaves the types. *)
LEMMA TypeKept ==
    ASSUME IInv, [FsNext]_fsVars
    PROVE  FsTypeOK'
<1> USE FsBounds DEF IInv, FsTypeOK, Held, TmpWhole, Absent, Torn
<1>1. CASE Begin
  <2>1. FilesOK'
    BY <1>1 DEF Begin, OpenTmp, FilesOK
  <2>2. saved \in BOOLEAN /\ fellBack \in BOOLEAN
    OBVIOUS
  <2>3. hadOld' = FALSE /\ unlucky' = FALSE /\ saved' = saved /\ fellBack' = fellBack
    BY <1>1 DEF Begin
  <2>4. FlagsOK'
    BY <2>2, <2>3 DEF FlagsOK
  <2> QED
    BY <2>1, <2>4 DEF FilesOK, FlagsOK
<1>2. CASE FillTmp
  BY <1>2 DEF FillTmp
<1>3. CASE FillTmpFails
  BY <1>3 DEF FillTmpFails, Return
<1>4. CASE Rename
  BY <1>4 DEF Rename, Return
<1>5. CASE RenameRetry
  BY <1>5 DEF RenameRetry, AttemptsLeft
<1>6. CASE RenameGivesUp
  BY <1>6 DEF RenameGivesUp
<1>7. CASE MakeRoom
  BY <1>7 DEF MakeRoom
<1>8. CASE Backup
  BY <1>8 DEF Backup, MoveAside
<1>9. CASE BackupFails
  BY <1>9 DEF BackupFails, Return
<1>10. CASE CopyBegins
  BY <1>10 DEF CopyBegins
<1>11. CASE CopyEnds
  BY <1>11 DEF CopyEnds
<1>12. CASE CopyCleanup
  BY <1>12 DEF CopyCleanup, Return
<1>13. CASE CopyFails
  BY <1>13 DEF CopyFails, AfterCopyFails
<1>14. CASE PutBack
  BY <1>14 DEF PutBack, CopyError, Return
<1>15. CASE DropNew
  BY <1>15 DEF DropNew, Return
<1>16. CASE CrashAndSweep
  BY <1>16 DEF CrashAndSweep, Return
<1>17. CASE UNCHANGED fsVars
  BY <1>17 DEF fsVars
<1> QED
  BY <1>1, <1>2, <1>3, <1>4, <1>5, <1>6, <1>7, <1>8, <1>9, <1>10, <1>11, <1>12,
     <1>13, <1>14, <1>15, <1>16, <1>17 DEF FsNext, RenamePath, BackupPath

(* Every step hands on what the next one relies on. *)
LEMMA HeldKept ==
    ASSUME IInv, [FsNext]_fsVars
    PROVE  Held'
<1> USE FsBounds DEF IInv, FsTypeOK, Held, Untouched, TmpWhole, OnFallback, OldKnown, OldInBak, CopiedWhole, Absent, Torn
<1>1. CASE Begin
  BY <1>1 DEF Begin, OpenTmp
<1>2. CASE FillTmp
  BY <1>2 DEF FillTmp
<1>3. CASE FillTmpFails
  BY <1>3 DEF FillTmpFails, Return
<1>4. CASE Rename
  BY <1>4 DEF Rename, Return
<1>5. CASE RenameRetry
  BY <1>5 DEF RenameRetry, AttemptsLeft
<1>6. CASE RenameGivesUp
  BY <1>6 DEF RenameGivesUp
<1>7. CASE MakeRoom
  BY <1>7 DEF MakeRoom
<1>8. CASE Backup
  BY <1>8 DEF Backup, MoveAside
<1>9. CASE BackupFails
  BY <1>9 DEF BackupFails, Return
<1>10. CASE CopyBegins
  BY <1>10 DEF CopyBegins
<1>11. CASE CopyEnds
  BY <1>11 DEF CopyEnds
<1>12. CASE CopyCleanup
  BY <1>12 DEF CopyCleanup, Return
<1>13. CASE CopyFails
  BY <1>13 DEF CopyFails, AfterCopyFails
<1>14. CASE PutBack
  BY <1>14 DEF PutBack, CopyError, Return
<1>15. CASE DropNew
  BY <1>15 DEF DropNew, Return
<1>16. CASE CrashAndSweep
  BY <1>16 DEF CrashAndSweep, Return
<1>17. CASE UNCHANGED fsVars
  BY <1>17 DEF fsVars
<1> QED
  BY <1>1, <1>2, <1>3, <1>4, <1>5, <1>6, <1>7, <1>8, <1>9, <1>10, <1>11, <1>12,
     <1>13, <1>14, <1>15, <1>16, <1>17 DEF FsNext, RenamePath, BackupPath

(* What the call returns is true of the target. *)
LEMMA ResultKept ==
    ASSUME IInv, [FsNext]_fsVars
    PROVE  ResultIsTrue'
<1> USE FsBounds DEF IInv, FsTypeOK, Held, Untouched, TmpWhole, OldKnown, OldInBak, CopiedWhole, ResultIsTrue, Absent
<1>1. CASE Begin
  BY <1>1 DEF Begin, OpenTmp
<1>2. CASE FillTmp
  BY <1>2 DEF FillTmp
<1>3. CASE FillTmpFails
  BY <1>3 DEF FillTmpFails, Return
<1>4. CASE Rename
  BY <1>4 DEF Rename, Return
<1>5. CASE RenameRetry
  BY <1>5 DEF RenameRetry, AttemptsLeft
<1>6. CASE RenameGivesUp
  BY <1>6 DEF RenameGivesUp
<1>7. CASE MakeRoom
  BY <1>7 DEF MakeRoom
<1>8. CASE Backup
  BY <1>8 DEF Backup, MoveAside
<1>9. CASE BackupFails
  BY <1>9 DEF BackupFails, Return
<1>10. CASE CopyBegins
  BY <1>10 DEF CopyBegins
<1>11. CASE CopyEnds
  BY <1>11 DEF CopyEnds
<1>12. CASE CopyCleanup
  BY <1>12 DEF CopyCleanup, Return
<1>13. CASE CopyFails
  BY <1>13 DEF CopyFails, AfterCopyFails
<1>14. CASE PutBack
  BY <1>14 DEF PutBack, CopyError, Return
<1>15. CASE DropNew
  BY <1>15 DEF DropNew, Return
<1>16. CASE CrashAndSweep
  BY <1>16 DEF CrashAndSweep, Return
<1>17. CASE UNCHANGED fsVars
  BY <1>17 DEF fsVars
<1> QED
  BY <1>1, <1>2, <1>3, <1>4, <1>5, <1>6, <1>7, <1>8, <1>9, <1>10, <1>11, <1>12,
     <1>13, <1>14, <1>15, <1>16, <1>17 DEF FsNext, RenamePath, BackupPath

(* No step tears the target without the fallback or loses the last whole copy. *)
LEMMA CopyKept ==
    ASSUME IInv, [FsNext]_fsVars
    PROVE  TornOnlyByFallback' /\ OneCallKeepsACopy'
<1> USE FsBounds DEF IInv, FsTypeOK, Held, Untouched, TmpWhole, OnFallback, OldKnown, OldInBak, CopiedWhole, TornOnlyByFallback, OneCallKeepsACopy, Absent, Torn, Whole
<1>1. CASE Begin
  BY <1>1 DEF Begin, OpenTmp
<1>2. CASE FillTmp
  BY <1>2 DEF FillTmp
<1>3. CASE FillTmpFails
  BY <1>3 DEF FillTmpFails, Return
<1>4. CASE Rename
  BY <1>4 DEF Rename, Return
<1>5. CASE RenameRetry
  BY <1>5 DEF RenameRetry, AttemptsLeft
<1>6. CASE RenameGivesUp
  BY <1>6 DEF RenameGivesUp
<1>7. CASE MakeRoom
  BY <1>7 DEF MakeRoom
<1>8. CASE Backup
  BY <1>8 DEF Backup, MoveAside
<1>9. CASE BackupFails
  BY <1>9 DEF BackupFails, Return
<1>10. CASE CopyBegins
  BY <1>10 DEF CopyBegins
<1>11. CASE CopyEnds
  BY <1>11 DEF CopyEnds
<1>12. CASE CopyCleanup
  BY <1>12 DEF CopyCleanup, Return
<1>13. CASE CopyFails
  BY <1>13 DEF CopyFails, AfterCopyFails
<1>14. CASE PutBack
  BY <1>14 DEF PutBack, CopyError, Return
<1>15. CASE DropNew
  BY <1>15 DEF DropNew, Return
<1>16. CASE CrashAndSweep
  BY <1>16 DEF CrashAndSweep, Return
<1>17. CASE UNCHANGED fsVars
  BY <1>17 DEF fsVars
<1> QED
  BY <1>1, <1>2, <1>3, <1>4, <1>5, <1>6, <1>7, <1>8, <1>9, <1>10, <1>11, <1>12,
     <1>13, <1>14, <1>15, <1>16, <1>17 DEF FsNext, RenamePath, BackupPath

(* There is no file yet, and no call. *)
LEMMA InitHeld == FsInit => IInv
<1> SUFFICES ASSUME FsInit PROVE IInv
  OBVIOUS
<1>1. FilesOK
  BY FsBounds DEF FsInit, FilesOK, Absent, Torn
<1>2. FlagsOK
  BY Zenon DEF FsInit, FlagsOK
<1>3. Held
  BY DEF FsInit, Held, Untouched, TmpWhole, OnFallback, OldKnown, OldInBak, CopiedWhole
<1>4. ResultIsTrue /\ TornOnlyByFallback /\ OneCallKeepsACopy
  BY DEF FsInit, ResultIsTrue, TornOnlyByFallback, OneCallKeepsACopy, Absent, Torn, Whole
<1> QED
  BY <1>1, <1>2, <1>3, <1>4, TypeHalves DEF IInv

(* The invariant holds in every reachable state. *)
LEMMA Inductive == FsSpec => []IInv
<1>1. IInv /\ [FsNext]_fsVars => IInv'
  BY TypeKept, HeldKept, ResultKept, CopyKept DEF IInv
<1> QED
  BY <1>1, InitHeld, PTL DEF FsSpec

(* write_atomic tells the truth: after Ok the target is what was written,  *)
(* after Err it is as it was, unless putting it back failed too.           *)
THEOREM ResultHolds == FsSpec => []ResultIsTrue
<1>1. IInv => ResultIsTrue
  BY DEF IInv
<1> QED
  BY <1>1, Inductive, PTL

(* Without the copy fallback no crash and no error leaves a torn target. *)
THEOREM NotTorn == FsSpec => []TornOnlyByFallback
<1>1. IInv => TornOnlyByFallback
  BY DEF IInv
<1> QED
  BY <1>1, Inductive, PTL

(* One call never loses both the target and its backup, however often and  *)
(* wherever it fails or the process dies.                                  *)
THEOREM CopySurvives == FsSpec => []OneCallKeepsACopy
<1>1. IInv => OneCallKeepsACopy
  BY DEF IInv
<1> QED
  BY <1>1, Inductive, PTL

(***************************************************************************)
(* The debounced save.                                                     *)
(***************************************************************************)

Snapped == {"write", "stamp", "compare", "clear"}

\* Whoever is between lock() and the drop of the guard holds save_lock.
LockHeld == \A t \in Threads : pc[t] \in Saving => saveLock = t

\* The file is never ahead of memory.
DiskBehind == disk <= mem

\* A snapshot lies between the file and memory, and its version is not ahead.
SnapBetween ==
    \A t \in Threads : pc[t] \in Snapped =>
        /\ disk <= snap[t].mem
        /\ snap[t].mem <= mem
        /\ snap[t].version <= version

\* Once the write is done, the file is the snapshot.
WrittenIsSnap ==
    \A t \in Threads : pc[t] \in {"stamp", "compare", "clear"} => disk = snap[t].mem

\* While the version has not moved, what memory has beyond the snapshot is a
\* change whose thread has yet to bump the version.
QuietVersion ==
    \A t \in Threads : (pc[t] \in Snapped /\ version = snap[t].version) =>
        mem = snap[t].mem \/ \E u \in Threads : pc[u] = "bump"

\* What a flush set out to save is in memory, and in the snapshot once taken.
GoalKept ==
    \A t \in Threads :
        /\ goal[t] <= mem
        /\ pc[t] \in Snapped => goal[t] <= snap[t].mem

SaveInv ==
    /\ TypeOK /\ LockHeld /\ DiskBehind /\ SnapBetween /\ WrittenIsSnap
    /\ QuietVersion /\ GoalKept /\ UnsavedIsMarked

(* Nothing is unsaved at start.                                            *)
LEMMA InitSaveInv == Init => SaveInv
<1> USE NoThreadAssumption, BoundsAssumption
<1> SUFFICES ASSUME Init PROVE SaveInv
    OBVIOUS
<1>1. snap \in [Threads -> [mem : Nat, version : Nat]]
    BY DEF Init, NoSnap
<1>2. \A t \in Threads : pc[t] = "idle" /\ goal[t] = 0
    BY DEF Init
<1>3. TypeOK
    BY <1>1 DEF Init, TypeOK, Steps
<1>4. QED
    BY <1>2, <1>3 DEF Init, SaveInv, LockHeld, Saving, DiskBehind, SnapBetween, Snapped,
        WrittenIsSnap, QuietVersion, GoalKept, UnsavedIsMarked

(* Every step of the threads keeps the invariant.                          *)
LEMMA StepSaveInv == SaveInv /\ [Next]_vars => SaveInv'
<1> USE NoThreadAssumption, BoundsAssumption
<1> SUFFICES ASSUME SaveInv, [Next]_vars PROVE SaveInv'
    OBVIOUS
<1> USE DEF SaveInv, TypeOK, Steps, LockHeld, Saving, DiskBehind, SnapBetween, Snapped,
        WrittenIsSnap, QuietVersion, GoalKept, UnsavedIsMarked
<1>1. ASSUME NEW t \in Threads, Change(t) PROVE SaveInv'
    BY <1>1 DEF Change, Goto
<1>2. ASSUME NEW t \in Threads, BumpVersion(t) PROVE SaveInv'
    BY <1>2 DEF BumpVersion, Newer, Goto
<1>3. ASSUME NEW t \in Threads, SetDirty(t) PROVE SaveInv'
    BY <1>3 DEF SetDirty, Goto
<1>4. ASSUME NEW t \in Threads, Debounce(t) PROVE SaveInv'
    BY <1>4 DEF Debounce, Goto
<1>5. ASSUME NEW t \in Threads, FlushNow(t) PROVE SaveInv'
    BY <1>5 DEF FlushNow
<1>6. ASSUME NEW t \in Threads, TakeSaveLock(t) PROVE SaveInv'
    BY <1>6 DEF TakeSaveLock, SaveLockFree, Goto
<1>7. ASSUME NEW t \in Threads, Snapshot(t) PROVE SaveInv'
    BY <1>7 DEF Snapshot, Goto
<1>8. ASSUME NEW t \in Threads, WriteOk(t) PROVE SaveInv'
    BY <1>8 DEF WriteOk, Goto
<1>9. ASSUME NEW t \in Threads, WriteFails(t) PROVE SaveInv'
    BY <1>9 DEF WriteFails, AfterFailedWrite, Goto
<1>10. ASSUME NEW t \in Threads, StampSave(t) PROVE SaveInv'
    BY <1>10 DEF StampSave, Goto
<1>11. ASSUME NEW t \in Threads, CompareVersion(t) PROVE SaveInv'
    BY <1>11 DEF CompareVersion, Goto
<1>12. ASSUME NEW t \in Threads, ClearDirty(t) PROVE SaveInv'
    BY <1>12 DEF ClearDirty, Goto
<1>13. ASSUME NEW t \in Threads, ReleaseSaveLock(t) PROVE SaveInv'
    BY <1>13 DEF ReleaseSaveLock, Goto
<1>14. CASE WindowEnds
    BY <1>14 DEF WindowEnds
<1>15. CASE CrashAndLoad
    <2>1. \A t \in Threads : pc'[t] = "idle" /\ goal'[t] = 0
        BY <1>15 DEF CrashAndLoad
    <2>2. snap' \in [Threads -> [mem : Nat, version : Nat]]
        BY <1>15 DEF CrashAndLoad, NoSnap
    <2>3. TypeOK'
        BY <1>15, <2>2 DEF CrashAndLoad
    <2> QED
        BY <1>15, <2>1, <2>3 DEF CrashAndLoad
<1>16. CASE UNCHANGED vars
    BY <1>16 DEF vars
<1>17. QED
    BY <1>1, <1>2, <1>3, <1>4, <1>5, <1>6, <1>7, <1>8, <1>9, <1>10, <1>11, <1>12,
       <1>13, <1>14, <1>15, <1>16 DEF Next, MarkDirty, Save

(* The inductive invariant holds in every reachable state.                 *)
LEMMA SavesInvariant == Spec => []SaveInv
BY InitSaveInv, StepSaveInv, PTL DEF Spec

(* Every variable of a debounced save keeps its type.                       *)
THEOREM SavesTyped == Spec => []TypeOK
<1>1. SaveInv => TypeOK
    BY DEF SaveInv
<1>2. QED
    BY <1>1, SavesInvariant, PTL

(* For any number of threads, an unsaved change is marked dirty, about to  *)
(* be, or hidden by a ClearDirty that acted on an overtaken comparison.    *)
THEOREM UnsavedMarked == Spec => []UnsavedIsMarked
<1>1. SaveInv => UnsavedIsMarked
    BY DEF SaveInv
<1>2. QED
    BY <1>1, SavesInvariant, PTL

(* For any number of threads, a flush that wrote saved what it was called  *)
(* to save.                                                                *)
THEOREM FlushCovers == Spec => []FlushCoversEarlierChanges
<1>1. SaveInv => FlushCoversEarlierChanges
    BY DEF SaveInv, TypeOK, Steps, WrittenIsSnap, GoalKept, Snapped, FlushCoversEarlierChanges
<1>2. QED
    BY <1>1, SavesInvariant, PTL

(* For any number of threads, the file never returns to an older snapshot. *)
THEOREM DiskMonotone == Spec => DiskNeverGoesBack
<1>1. SaveInv /\ [Next]_vars => [disk' >= disk]_vars
    <2> SUFFICES ASSUME SaveInv, [Next]_vars PROVE disk' >= disk
        OBVIOUS
    <2>1. disk \in Nat /\ disk <= disk
        BY DEF SaveInv, TypeOK
    <2>2. ASSUME NEW t \in Threads, WriteOk(t) PROVE disk' >= disk
        BY <2>2 DEF WriteOk, Goto, SaveInv, TypeOK, SnapBetween, Snapped
    <2>3. CASE ~ \E t \in Threads : WriteOk(t)
        <3>1. UNCHANGED disk
            BY <2>3 DEF Next, vars, MarkDirty, Save, Change, BumpVersion, SetDirty,
                Debounce, FlushNow, TakeSaveLock, Snapshot, WriteFails, StampSave,
                CompareVersion, ClearDirty, ReleaseSaveLock, WindowEnds, CrashAndLoad
        <3>2. QED
            BY <2>1, <3>1
    <2>4. QED
        BY <2>2, <2>3
<1>2. QED
    BY <1>1, SavesInvariant, PTL DEF Spec, DiskNeverGoesBack

=============================================================================
