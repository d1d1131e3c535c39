---------------------------- MODULE FileRotation ----------------------------
(***************************************************************************)
(* The rotation of log files (CreateFileWithRotation, ui/logger): several  *)
(* processes of a build create the same log, and each first renames the    *)
(* existing log and its backups, the oldest one first, under a file lock.  *)
(* A process may be killed between any two system calls.                   *)
(*                                                                         *)
(* A log is the number of its creation; slot 0 is the log and slot n its   *)
(* backup <filename>.n.<ext>.  The recursion of fileRotation is the        *)
(* variable cur, which first grows and then shrinks.                       *)
(***************************************************************************)
EXTENDS Integers, FiniteSets

CONSTANTS
    Procs,
    maxCount, \* the number of backups kept
    MaxLogs,  \* bound on the number of logs created
    NoProc

VARIABLES
    slot,    \* the log in each file, 0 if it does not exist
    lock,    \* the process that holds the lock on .lock_<filename>
    pc,
    cur,     \* the parameter cur of the innermost call of fileRotation
    created, \* the number of logs created so far
    refused  \* history: the logs a failed os.Rename left in the way of the next

vars == <<slot, lock, pc, cur, created, refused>>

Slots == 0 .. maxCount

\* Mutant: the lock is not exclusive.
FlockShared(p) ==
    /\ pc[p] = "start"
    /\ lock' = p
    /\ pc' = [pc EXCEPT ![p] = "locked"]
    /\ UNCHANGED <<slot, cur, created, refused>>

Flock(p) ==
    /\ pc[p] = "start"
    /\ lock = NoProc
    /\ lock' = p
    /\ pc' = [pc EXCEPT ![p] = "locked"]
    /\ UNCHANGED <<slot, cur, created, refused>>

Start(p) ==
    /\ pc[p] = "idle"
    /\ pc' = [pc EXCEPT ![p] = "start"]
    /\ UNCHANGED <<slot, lock, cur, created, refused>>

\* Lstat(filename): rotate if there is a log.
LstatLog(p) ==
    /\ pc[p] = "locked"
    /\ pc' = [pc EXCEPT ![p] = IF slot[0] # 0 THEN "lstat" ELSE "create"]
    /\ cur' = [cur EXCEPT ![p] = 1]
    /\ UNCHANGED <<slot, lock, created, refused>>

\* Mutant: the last backup is never used.
LstatBackupShort(p) ==
    /\ pc[p] = "lstat"
    /\ IF slot[cur[p]] # 0 /\ cur[p] + 1 < maxCount
       THEN cur' = [cur EXCEPT ![p] = @ + 1] /\ UNCHANGED pc
       ELSE pc' = [pc EXCEPT ![p] = "rename"] /\ UNCHANGED cur
    /\ UNCHANGED <<slot, lock, created, refused>>

\* fileRotation: a backup in the way is moved first.
LstatBackup(p) ==
    /\ pc[p] = "lstat"
    /\ IF slot[cur[p]] # 0 /\ cur[p] + 1 <= maxCount
       THEN cur' = [cur EXCEPT ![p] = @ + 1] /\ UNCHANGED pc
       ELSE pc' = [pc EXCEPT ![p] = "rename"] /\ UNCHANGED cur
    /\ UNCHANGED <<slot, lock, created, refused>>

\* os.Rename replaces the backup that is there; the call returns to the one
\* that moves the next younger file.
Rename(p) ==
    /\ pc[p] = "rename"
    /\ slot' = [slot EXCEPT ![cur[p]] = slot[cur[p] - 1], ![cur[p] - 1] = 0]
    /\ IF cur[p] > 1
       THEN cur' = [cur EXCEPT ![p] = @ - 1] /\ UNCHANGED pc
       ELSE pc' = [pc EXCEPT ![p] = "create"] /\ UNCHANGED cur
    /\ UNCHANGED <<lock, created, refused>>

\* os.Rename fails.  An inner call's error is dropped, and the next younger file
\* replaces the one that could not be moved; the outermost call's is returned,
\* and no log is created.
RenameFails(p) ==
    /\ pc[p] = "rename"
    /\ IF cur[p] > 1
       THEN cur' = [cur EXCEPT ![p] = @ - 1] /\ UNCHANGED pc
       ELSE pc' = [pc EXCEPT ![p] = "unlock"] /\ UNCHANGED cur
    /\ refused' = IF cur[p] > 1 THEN refused \cup {slot[cur[p] - 1]} ELSE refused
    /\ UNCHANGED <<slot, lock, created>>

\* os.Create, and the deferred Close releases the lock.
Create(p) ==
    /\ pc[p] = "create"
    /\ created < MaxLogs
    /\ created' = created + 1
    /\ slot' = [slot EXCEPT ![0] = created + 1]
    /\ pc' = [pc EXCEPT ![p] = "unlock"]
    /\ UNCHANGED <<lock, cur, refused>>

Unlock(p) ==
    /\ pc[p] = "unlock"
    /\ lock' = NoProc
    /\ pc' = [pc EXCEPT ![p] = "idle"]
    /\ UNCHANGED <<slot, cur, created, refused>>

\* The process is killed, and the kernel releases its lock.
Kill(p) ==
    /\ pc[p] # "idle"
    /\ pc' = [pc EXCEPT ![p] = "idle"]
    /\ lock' = IF lock = p THEN NoProc ELSE lock
    /\ UNCHANGED <<slot, cur, created, refused>>

Init ==
    /\ slot = [i \in Slots |-> 0]
    /\ lock = NoProc
    /\ pc = [p \in Procs |-> "idle"]
    /\ cur = [p \in Procs |-> 1]
    /\ created = 0
    /\ refused = {}

Next ==
    \E p \in Procs : \/ Start(p) \/ Flock(p)
                     \/ LstatLog(p) \/ LstatBackup(p)
                     \/ Rename(p) \/ RenameFails(p)
                     \/ Create(p) \/ Unlock(p)
                     \/ Kill(p)

Spec == Init /\ [][Next]_vars

-----------------------------------------------------------------------------
(* Properties.                                                             *)

Kept == {i \in Slots : slot[i] # 0}
Logs == {slot[i] : i \in Kept}

\* A log is lost only when as many newer ones exist as backups are kept, and
\* it is the oldest; or when it could not be renamed.
LostIsOldest ==
    \A x \in Logs : x \notin Logs' =>
        x \in refused \/ Cardinality({y \in Logs : y > x}) = maxCount

\* So it is with every step of every process.
OnlyOldestLost == [][LostIsOldest]_vars

\* However many processes rotate and are killed, <filename>.1.<ext> is the most
\* recent backup, <filename>.2.<ext> the second most recent, and so on, and the
\* most recent logs are all there, except those that could not be renamed.
RecentKept ==
    /\ \A i, j \in Kept : i < j => slot[i] > slot[j]
    /\ \A x \in 1 .. created : created - x < maxCount => x \in Logs \cup refused

=============================================================================
