------------------------------- MODULE FsAtomic -------------------------------
(***************************************************************************)
(* write_atomic of common/fs_atomic.rs on one path, step by step, with a   *)
(* crash possible between any two steps, and sweep_stale_tmp at the next   *)
(* start.  Callers serialise their writes (save_lock, persist_lock), so    *)
(* one call runs at a time.  A file is Absent, Torn (truncated or half     *)
(* written) or the number of the write whose whole content it holds.  A     *)
(* crash is the death of the process; what fsync orders on power loss is   *)
(* left out.  No name here is one of DebouncedSave's, so that a module may *)
(* extend both.                                                            *)
(***************************************************************************)
EXTENDS Integers

CONSTANTS MaxWrites,    \* bound: calls of write_atomic
          MaxAttempts   \* MAX_ATTEMPTS of rename_with_retry (6 in the code)

ASSUME FsBounds == MaxWrites \in Nat /\ MaxAttempts \in Nat \ {0}

Absent == 0
Torn == -1
Whole(f) == f > 0

VARIABLES
    target,   \* the file callers load at start
    bak,      \* .<name>.bak, next to it
    tmp,      \* this call's .<name>.<pid>.<seq>.tmp
    at,       \* the step of the running call, or "idle"
    attempt,  \* rename attempts made by rename_with_retry
    hadOld,   \* had_old: the target existed when the fallback began
    writes,   \* number of the current (or last) write
    result,   \* what the last call returned: "none", "ok" or "err"
    before,   \* history: target when the call began
    saved,    \* history: some call has returned Ok
    fellBack, \* history: some call has left the rename path
    unlucky   \* history: in this call, putting things back failed or was cut off

fsVars == <<target, bak, tmp, at, attempt, hadOld, writes, result, before,
          saved, fellBack, unlucky>>

FsTypeOK ==
    /\ target \in {Absent, Torn} \cup 1..MaxWrites
    /\ bak \in {Absent, Torn} \cup 1..MaxWrites
    /\ tmp \in {Absent, Torn} \cup 1..MaxWrites
    /\ at \in {"idle", "fill", "rename", "fallback", "backup", "copy",
               "copying", "copied", "putBack", "dropNew"}
    /\ attempt \in 1..MaxAttempts
    /\ hadOld \in BOOLEAN
    /\ writes \in 0..MaxWrites
    /\ result \in {"none", "ok", "err"}
    /\ before \in {Absent, Torn} \cup 1..MaxWrites
    /\ saved \in BOOLEAN
    /\ fellBack \in BOOLEAN
    /\ unlucky \in BOOLEAN

FsInit ==
    /\ target = Absent /\ bak = Absent /\ tmp = Absent
    /\ at = "idle" /\ attempt = 1 /\ hadOld = FALSE
    /\ writes = 0 /\ result = "none" /\ before = Absent
    /\ saved = FALSE /\ fellBack = FALSE /\ unlucky = FALSE

Return(r) == at' = "idle" /\ result' = r /\ saved' = (saved \/ r = "ok")

\* write_tmp opens (creates, truncates) the temporary file...
OpenTmpMutant == tmp' = Torn /\ target' = Torn
OpenTmp == tmp' = Torn /\ target' = target

Begin ==
    /\ at = "idle"
    /\ writes < MaxWrites
    /\ writes' = writes + 1
    /\ OpenTmp
    /\ at' = "fill"
    /\ attempt' = 1
    /\ hadOld' = FALSE
    /\ result' = "none"
    /\ before' = target
    /\ unlucky' = FALSE
    /\ UNCHANGED <<bak, saved, fellBack>>

\* ...and fills and syncs it.
FillTmp ==
    /\ at = "fill"
    /\ tmp' = writes
    /\ at' = "rename"
    /\ UNCHANGED <<target, bak, attempt, hadOld, writes, result, before, saved, fellBack, unlucky>>

\* write_tmp fails: the target is not touched, the temporary file is removed.
FillTmpFails ==
    /\ at = "fill"
    /\ tmp' = Absent
    /\ Return("err")
    /\ UNCHANGED <<target, bak, attempt, hadOld, writes, before, fellBack, unlucky>>

Rename ==
    /\ at = "rename"
    /\ target' = tmp
    /\ tmp' = Absent
    /\ Return("ok")
    /\ UNCHANGED <<bak, attempt, hadOld, writes, before, fellBack, unlucky>>

\* is_retryable_rename_error and attempts left: sleep, try again.
AttemptsLeft == attempt < MaxAttempts

RenameRetry ==
    /\ at = "rename"
    /\ AttemptsLeft
    /\ attempt' = attempt + 1
    /\ UNCHANGED <<target, bak, tmp, at, hadOld, writes, result, before, saved, fellBack, unlucky>>

\* The error is final, or the attempts are used up.
RenameGivesUp ==
    /\ at = "rename"
    /\ at' = "fallback"
    /\ fellBack' = TRUE
    /\ UNCHANGED <<target, bak, tmp, attempt, hadOld, writes, result, before, saved, unlucky>>

\* had_old; if so the old .bak is removed (or that fails, which is ignored)
\* to make room for the backup.
MakeRoom ==
    /\ at = "fallback"
    /\ hadOld' = (target # Absent)
    /\ bak' \in IF target # Absent THEN {Absent, bak} ELSE {bak}
    /\ at' = IF target # Absent THEN "backup" ELSE "copy"
    /\ UNCHANGED <<target, tmp, attempt, writes, result, before, saved, fellBack, unlucky>>

MoveAsideMutant == UNCHANGED <<target, bak>>
MoveAside == bak' = target /\ target' = Absent

Backup ==
    /\ at = "backup"
    /\ MoveAside
    /\ at' = "copy"
    /\ UNCHANGED <<tmp, attempt, hadOld, writes, result, before, saved, fellBack, unlucky>>

\* The backup fails too: keep the target, give up.
BackupFails ==
    /\ at = "backup"
    /\ tmp' = Absent
    /\ Return("err")
    /\ UNCHANGED <<target, bak, attempt, hadOld, writes, before, fellBack, unlucky>>

\* fs::copy creates (truncates) the target...
CopyBegins ==
    /\ at = "copy"
    /\ target' = Torn
    /\ at' = "copying"
    /\ UNCHANGED <<bak, tmp, attempt, hadOld, writes, result, before, saved, fellBack, unlucky>>

\* ...and writes it.
CopyEnds ==
    /\ at = "copying"
    /\ target' = tmp
    /\ at' = "copied"
    /\ UNCHANGED <<bak, tmp, attempt, hadOld, writes, result, before, saved, fellBack, unlucky>>

\* The backup (unless its removal fails) and the temporary file go; Ok.
CopyCleanup ==
    /\ at = "copied"
    /\ bak' \in {Absent, bak}
    /\ tmp' = Absent
    /\ Return("ok")
    /\ UNCHANGED <<target, attempt, hadOld, writes, before, fellBack, unlucky>>

AfterCopyFailsMutant == "dropNew"
AfterCopyFails == IF hadOld THEN "putBack" ELSE "dropNew"

CopyFails ==
    /\ at \in {"copy", "copying"}
    /\ at' = AfterCopyFails
    /\ UNCHANGED <<target, bak, tmp, attempt, hadOld, writes, result, before, saved, fellBack, unlucky>>

\* rename(bak, target), ignoring a failure; the temporary file goes; Err.
CopyErrorMutant == Return("ok")
CopyError == Return("err")

PutBack ==
    /\ at = "putBack"
    /\ \/ target' = bak /\ bak' = Absent /\ unlucky' = unlucky
       \/ UNCHANGED <<target, bak>> /\ unlucky' = TRUE
    /\ tmp' = Absent
    /\ CopyError
    /\ UNCHANGED <<attempt, hadOld, writes, before, fellBack>>

\* There was no target: remove the half-written one, ignoring a failure.
DropNew ==
    /\ at = "dropNew"
    /\ \/ target' = Absent /\ unlucky' = unlucky
       \/ target' = target /\ unlucky' = TRUE
    /\ tmp' = Absent
    /\ Return("err")
    /\ UNCHANGED <<bak, attempt, hadOld, writes, before, fellBack>>

\* The process dies; the next start sweeps the temporary files.
CrashAndSweep ==
    /\ at # "idle"
    /\ tmp' = Absent
    /\ unlucky' = TRUE
    /\ Return("none")
    /\ UNCHANGED <<target, bak, attempt, hadOld, writes, before, fellBack>>

RenamePath == FillTmp \/ FillTmpFails \/ Rename \/ RenameRetry \/ RenameGivesUp
BackupPath == MakeRoom \/ Backup \/ BackupFails \/ CopyBegins \/ CopyEnds
              \/ CopyCleanup \/ CopyFails \/ PutBack \/ DropNew

FsNext == Begin \/ RenamePath \/ BackupPath \/ CrashAndSweep

FsSpec == FsInit /\ [][FsNext]_fsVars

-----------------------------------------------------------------------------

(* A caller that gets Ok finds exactly its content in the target; one that *)
(* gets Err finds the target as it was before the call, absent included,   *)
(* unless putting it back failed as well.                                  *)
ResultIsTrue ==
    at = "idle" => /\ result = "ok" => target = writes
                   /\ (result = "err" /\ ~unlucky) => target = before

(* A truncated target can only come from the fallback: on the              *)
(* temp-fsync-rename path no crash and no error leaves one.                *)
TornOnlyByFallback == target = Torn => fellBack

(* A call that began with a whole target never leaves less than one whole  *)
(* copy in the target or its backup, wherever it fails or is killed.       *)
OneCallKeepsACopy == Whole(before) => Whole(target) \/ Whole(bak)

=============================================================================
