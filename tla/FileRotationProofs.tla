------------------------- MODULE FileRotationProofs -------------------------
(***************************************************************************)
(* Proofs about the rotation of log files, for any number of processes, of *)
(* logs and of backups.                                                    *)
(***************************************************************************)
EXTENDS FileRotation, FunctionTheorems, FiniteSetTheorems, TLAPS

\* There is at least one backup, and NoProc is no process.
Constants == maxCount \in Nat \ {0} /\ NoProc \notin Procs

-----------------------------------------------------------------------------
(* The inductive invariant.                                                *)

TypeOK ==
    /\ slot \in [Slots -> Nat]
    /\ pc = [p \in Procs |-> pc[p]]
    /\ cur \in [Procs -> Nat]
    /\ created \in Nat

\* A process that rotates holds the lock, hence is the only one.
Rotates(p) == pc[p] \in {"locked", "lstat", "rename", "create", "unlock"}
LockOK == \A p \in Procs : Rotates(p) => lock = p

\* The logs are in order.
OrderOK ==
    /\ \A i \in Slots : slot[i] <= created
    /\ \A i, j \in Slots : i < j /\ slot[i] # 0 /\ slot[j] # 0 => slot[i] > slot[j]

\* The call with parameter n has found all the younger files, so that the
\* youngest of the files it moves is as old as their number.
Found(n) ==
    /\ \A i \in Slots : i < n => slot[i] # 0
    /\ slot[n - 1] + n - 1 <= created

\* What a rename to slot n replaces: nothing, a log that could not be moved, or
\* the last backup when there are as many younger ones.
Expendable(n) ==
    \/ slot[n] = 0
    \/ slot[n] \in refused
    \/ n = maxCount /\ Found(n)

CallOK(p) ==
    /\ pc[p] \in {"lstat", "rename"} => cur[p] \in 1 .. maxCount
    /\ pc[p] = "lstat" => Found(cur[p])
    /\ pc[p] = "rename" => Expendable(cur[p])
    /\ pc[p] = "create" => slot[0] = 0

\* The most recent logs are there.
KeptOK == \A x \in 1 .. created : created - x < maxCount =>
                x \in refused \/ \E i \in Slots : slot[i] = x

IInv == TypeOK /\ LockOK /\ OrderOK /\ (\A p \in Procs : CallOK(p)) /\ KeptOK

-----------------------------------------------------------------------------

LEMMA InitInv ==
    ASSUME Constants, Init
    PROVE  IInv
<1>1. TypeOK /\ LockOK /\ OrderOK /\ KeptOK
  BY DEF Constants, Init, Slots, TypeOK, LockOK, Rotates, OrderOK, KeptOK
<1>2. \A p \in Procs : CallOK(p)
  BY DEF Init, CallOK
<1> QED BY <1>1, <1>2 DEF IInv

\* A step of p changes the variables of p only.
LEMMA Frame ==
    ASSUME TypeOK, NEW p \in Procs, NEW q \in Procs, q # p,
           \/ Start(p) \/ Flock(p) \/ LstatLog(p) \/ LstatBackup(p) \/ Rename(p)
           \/ RenameFails(p) \/ Create(p) \/ Unlock(p) \/ Kill(p)
    PROVE  pc'[q] = pc[q] /\ cur'[q] = cur[q]
BY DEF TypeOK, Start, Flock, LstatLog, LstatBackup, Rename, RenameFails, Create, Unlock, Kill

\* Behind the lock there is one process, so that the others' calls are not
\* disturbed.
LEMMA Others ==
    ASSUME TypeOK, LockOK, NEW p \in Procs, Rotates(p), NEW q \in Procs, q # p,
           pc'[q] = pc[q]
    PROVE  CallOK(q)'
BY DEF LockOK, Rotates, CallOK

\* The steps that leave the files alone.
LEMMA QuietStep ==
    ASSUME Constants, IInv, NEW p \in Procs,
           Start(p) \/ Flock(p) \/ LstatLog(p) \/ LstatBackup(p) \/ Unlock(p) \/ Kill(p)
    PROVE  IInv'
<1> USE DEF IInv
<1>a. \A q \in Procs : q # p => pc'[q] = pc[q] /\ cur'[q] = cur[q]
  BY Frame
<1>b. UNCHANGED <<slot, created, refused>>
  BY DEF Start, Flock, LstatLog, LstatBackup, Unlock, Kill
<1>1. TypeOK'
  BY DEF TypeOK, Start, Flock, LstatLog, LstatBackup, Unlock, Kill
<1>2. LockOK'
  BY <1>a DEF TypeOK, LockOK, Rotates, Constants, Start, Flock, LstatLog, LstatBackup, Unlock, Kill
<1>3. OrderOK' /\ KeptOK'
  BY <1>b DEF OrderOK, KeptOK
<1>4. ASSUME NEW q \in Procs, q # p PROVE CallOK(q)'
  BY <1>4, <1>a, <1>b DEF CallOK, Found, Expendable
<1>5. CallOK(p)'
  <2>1. CASE LstatLog(p)
    <3>1. cur'[p] = 1 /\ pc'[p] = IF slot[0] # 0 THEN "lstat" ELSE "create"
      BY <2>1 DEF LstatLog, TypeOK
    <3>2. slot[0] # 0 => Found(1)
      BY DEF Found, OrderOK, TypeOK, Slots, Constants
    <3> QED BY <3>1, <3>2, <1>b DEF CallOK, Found, Constants
  <2>2. CASE LstatBackup(p)
    <3>1. pc[p] = "lstat" /\ cur[p] \in 1 .. maxCount /\ Found(cur[p])
      BY <2>2 DEF LstatBackup, CallOK
    <3>2. CASE slot[cur[p]] # 0 /\ cur[p] + 1 <= maxCount
      <4>1. pc'[p] = "lstat" /\ cur'[p] = cur[p] + 1
        BY <2>2, <3>1, <3>2, Zenon DEF LstatBackup, TypeOK
      <4>2. cur[p] - 1 \in Slots /\ cur[p] \in Slots /\ cur[p] + 1 \in 1 .. maxCount
        BY <3>1, <3>2 DEF Slots, Constants
      <4>3. slot[cur[p]] < slot[cur[p] - 1]
        BY <3>1, <3>2, <4>2 DEF OrderOK, Found, Constants
      <4>4. slot[cur[p]] + cur[p] <= created
        BY <3>1, <4>2, <4>3 DEF Found, TypeOK
      <4>5. \A i \in Slots : i < cur[p] + 1 => slot[i] # 0
        BY <3>1, <3>2 DEF Found, Slots
      <4>6. Found(cur[p] + 1)
        <5>1. (cur[p] + 1) - 1 = cur[p] /\ slot[cur[p]] \in Nat
          BY <4>2 DEF TypeOK
        <5>2. slot[(cur[p] + 1) - 1] + (cur[p] + 1) - 1 <= created
          BY <4>2, <4>4, <5>1
        <5> QED BY <4>5, <5>2 DEF Found
      <4> QED BY <4>1, <4>2, <4>6, <1>b DEF CallOK, Found
    <3>3. CASE ~(slot[cur[p]] # 0 /\ cur[p] + 1 <= maxCount)
      <4>1. pc'[p] = "rename" /\ cur'[p] = cur[p]
        BY <2>2, <3>3 DEF LstatBackup, TypeOK
      <4>2. Expendable(cur[p])
        BY <3>1, <3>3 DEF Expendable, Constants
      <4> QED BY <3>1, <4>1, <4>2, <1>b DEF CallOK, Expendable, Found
    <3> QED BY <3>2, <3>3
  <2>3. CASE Start(p) \/ Flock(p) \/ Unlock(p) \/ Kill(p)
    <3>1. pc'[p] \in {"start", "locked", "idle"}
      BY <2>3 DEF Start, Flock, Unlock, Kill, TypeOK
    <3> QED BY <3>1 DEF CallOK
  <2> QED BY <2>1, <2>2, <2>3
<1> QED BY <1>1, <1>2, <1>3, <1>4, <1>5

\* To move a file keeps the order, and replaces what is expendable.
LEMMA RenameStep ==
    ASSUME Constants, IInv, NEW p \in Procs, Rename(p)
    PROVE  IInv'
<1> USE DEF IInv
<1> DEFINE n == cur[p]
<1>a. pc[p] = "rename" /\ n \in 1 .. maxCount /\ Expendable(n)
  BY DEF Rename, CallOK
<1>b. n \in Slots /\ n - 1 \in Slots /\ n - 1 # n /\ n \in Nat
  BY <1>a DEF Slots, Constants
<1>c. /\ slot'[n] = slot[n - 1] /\ slot'[n - 1] = 0
      /\ \A i \in Slots : i # n /\ i # n - 1 => slot'[i] = slot[i]
  BY <1>b DEF Rename, TypeOK
<1>d. UNCHANGED <<lock, created, refused>>
  BY DEF Rename
<1>1. TypeOK'
  BY <1>a, <1>b DEF TypeOK, Rename
<1>2. \A q \in Procs : q # p => pc'[q] = pc[q] /\ cur'[q] = cur[q]
  BY Frame
<1>3. LockOK'
  BY <1>2, <1>a, <1>d DEF LockOK, Rotates
<1>4. OrderOK'
  <2>1. \A i \in Slots : slot'[i] <= created'
    BY <1>b, <1>c, <1>d DEF OrderOK, TypeOK
  <2>2. ASSUME NEW i \in Slots, NEW j \in Slots, i < j, slot'[i] # 0, slot'[j] # 0
        PROVE  slot'[i] > slot'[j]
    <3>1. i # n - 1 /\ j # n - 1
      BY <2>2, <1>c
    <3>2. CASE i # n /\ j # n
      BY <2>2, <3>1, <3>2, <1>c DEF OrderOK
    <3>3. CASE i = n
      <4>1. j # n /\ n - 1 < j
        BY <2>2, <3>3, <1>b DEF Slots, Constants
      <4> QED BY <2>2, <3>1, <3>3, <4>1, <1>b, <1>c DEF OrderOK
    <3>4. CASE j = n
      <4>1. i # n /\ i < n - 1
        BY <2>2, <3>1, <3>4, <1>b DEF Slots, Constants
      <4> QED BY <2>2, <3>1, <3>4, <4>1, <1>b, <1>c DEF OrderOK
    <3> QED BY <3>2, <3>3, <3>4
  <2> QED BY <2>1, <2>2 DEF OrderOK
<1>5. KeptOK'
  <2> SUFFICES ASSUME NEW x \in 1 .. created, created - x < maxCount, x \notin refused
               PROVE  \E i \in Slots : slot'[i] = x
    BY <1>d DEF KeptOK
  <2>1. PICK i \in Slots : slot[i] = x
    BY DEF KeptOK
  <2>2. CASE i = n
    <3>1. n = maxCount /\ Found(n) /\ slot[n] # 0
      BY <2>1, <2>2, <1>a DEF Expendable, TypeOK
    <3>2. slot[n] < slot[n - 1] /\ slot[n - 1] + n - 1 <= created
      BY <3>1, <1>a, <1>b DEF Found, OrderOK, Constants
    <3> QED BY <2>1, <2>2, <3>1, <3>2, <1>b DEF TypeOK
  <2>3. CASE i = n - 1
    BY <2>1, <2>3, <1>b, <1>c
  <2>4. CASE i # n /\ i # n - 1
    BY <2>1, <2>4, <1>c
  <2> QED BY <2>2, <2>3, <2>4
<1>6. ASSUME NEW q \in Procs, q # p PROVE CallOK(q)'
  BY <1>6, <1>a, <1>2, Others DEF Rotates
<1>7. CallOK(p)'
  <2>1. CASE n > 1
    <3>1. pc'[p] = "rename" /\ cur'[p] = n - 1
      BY <2>1, <1>a DEF Rename, TypeOK
    <3> QED BY <2>1, <3>1, <1>a, <1>c DEF CallOK, Expendable, Constants
  <2>2. CASE ~(n > 1)
    <3>1. n = 1 /\ pc'[p] = "create"
      BY <2>2, <1>a DEF Rename, TypeOK, Constants
    <3> QED BY <3>1, <1>c DEF CallOK
  <2> QED BY <2>1, <2>2
<1> QED BY <1>1, <1>3, <1>4, <1>5, <1>6, <1>7

\* A rename that fails leaves a log in the way of the next one.
LEMMA RenameFailsStep ==
    ASSUME Constants, IInv, NEW p \in Procs, RenameFails(p)
    PROVE  IInv'
<1> USE DEF IInv
<1>a. pc[p] = "rename" /\ cur[p] \in 1 .. maxCount
  BY DEF RenameFails, CallOK
<1>b. UNCHANGED <<slot, lock, created>> /\ refused \subseteq refused'
  BY DEF RenameFails
<1>1. TypeOK'
  BY <1>a DEF TypeOK, RenameFails, Constants
<1>2. \A q \in Procs : q # p => pc'[q] = pc[q] /\ cur'[q] = cur[q]
  BY Frame
<1>3. LockOK' /\ OrderOK' /\ KeptOK'
  BY <1>2, <1>a, <1>b DEF LockOK, Rotates, OrderOK, KeptOK
<1>4. ASSUME NEW q \in Procs, q # p PROVE CallOK(q)'
  BY <1>4, <1>a, <1>2, Others DEF Rotates
<1>5. CallOK(p)'
  <2>1. CASE cur[p] > 1
    <3>1. /\ pc'[p] = "rename" /\ cur'[p] = cur[p] - 1
          /\ slot'[cur[p] - 1] \in refused'
      BY <2>1, <1>a DEF RenameFails, TypeOK
    <3> QED BY <2>1, <3>1, <1>a DEF CallOK, Expendable, Constants
  <2>2. CASE ~(cur[p] > 1)
    <3>1. pc'[p] = "unlock"
      BY <2>2 DEF RenameFails, TypeOK
    <3> QED BY <3>1 DEF CallOK
  <2> QED BY <2>1, <2>2
<1> QED BY <1>1, <1>3, <1>4, <1>5

\* A new log is the youngest, and replaces none.
LEMMA CreateStep ==
    ASSUME Constants, IInv, NEW p \in Procs, Create(p)
    PROVE  IInv'
<1> USE DEF IInv
<1>a. /\ pc[p] = "create" /\ slot[0] = 0 /\ 0 \in Slots
      /\ created' = created + 1 /\ created \in Nat /\ UNCHANGED <<lock, cur, refused>>
  BY DEF Create, CallOK, Slots, TypeOK, Constants
<1>b. slot'[0] = created + 1 /\ \A i \in Slots : i # 0 => slot'[i] = slot[i]
  BY <1>a DEF Create, TypeOK
<1>1. TypeOK'
  BY <1>a DEF Create, TypeOK
<1>2. \A q \in Procs : q # p => pc'[q] = pc[q] /\ cur'[q] = cur[q]
  BY Frame
<1>3. LockOK'
  BY <1>2, <1>a DEF LockOK, Rotates
<1>4. OrderOK'
  <2>1. \A i \in Slots : slot[i] \in Nat /\ slot[i] <= created /\ (i = 0 \/ i > 0)
    BY DEF OrderOK, TypeOK, Slots
  <2>2. \A i \in Slots : slot'[i] <= created'
    BY <2>1, <1>a, <1>b
  <2>3. \A i, j \in Slots : i < j /\ slot'[i] # 0 /\ slot'[j] # 0 => slot'[i] > slot'[j]
    BY <2>1, <1>a, <1>b DEF OrderOK, Slots
  <2> QED BY <2>2, <2>3 DEF OrderOK
<1>5. KeptOK'
  <2> SUFFICES ASSUME NEW x \in 1 .. created + 1, created + 1 - x < maxCount, x \notin refused
               PROVE  \E i \in Slots : slot'[i] = x
    BY <1>a DEF KeptOK
  <2>1. CASE x = created + 1
    BY <2>1, <1>a, <1>b
  <2>2. CASE x # created + 1
    <3>1. x \in 1 .. created /\ created - x < maxCount
      BY <2>2, <1>a DEF Constants
    <3>2. PICK i \in Slots : slot[i] = x
      BY <3>1 DEF KeptOK
    <3> QED BY <3>1, <3>2, <1>a, <1>b
  <2> QED BY <2>1, <2>2
<1>6. ASSUME NEW q \in Procs, q # p PROVE CallOK(q)'
  BY <1>6, <1>a, <1>2, Others DEF Rotates
<1>7. CallOK(p)'
  <2>1. pc'[p] = "unlock"
    BY DEF Create, TypeOK
  <2> QED BY <2>1 DEF CallOK
<1> QED BY <1>1, <1>3, <1>4, <1>5, <1>6, <1>7

\* The invariant is inductive.
THEOREM Invariant ==
    ASSUME Constants
    PROVE  Spec => []IInv
<1>1. Init => IInv
  BY InitInv
<1>2. IInv /\ [Next]_vars => IInv'
  <2> SUFFICES ASSUME IInv, [Next]_vars PROVE IInv'
    OBVIOUS
  <2>1. CASE UNCHANGED vars
    BY <2>1 DEF vars, IInv, TypeOK, LockOK, Rotates, OrderOK, CallOK, Found, Expendable, KeptOK
  <2>2. CASE Next
    BY <2>2, QuietStep, RenameStep, RenameFailsStep, CreateStep DEF Next
  <2> QED BY <2>1, <2>2
<1> QED BY <1>1, <1>2, PTL DEF Spec

\* The backups of CreateFileWithRotation are in order, and the most recent logs
\* are kept, however many processes rotate the file and are killed.
THEOREM BackupsRecent ==
    ASSUME Constants
    PROVE  Spec => []RecentKept
<1>1. IInv => RecentKept
  <2> SUFFICES ASSUME IInv PROVE RecentKept
    OBVIOUS
  <2>1. \A i, j \in Kept : i < j => slot[i] > slot[j]
    BY DEF IInv, OrderOK, Kept
  <2>2. ASSUME NEW x \in 1 .. created, created - x < maxCount
        PROVE  x \in Logs \cup refused
    BY <2>2 DEF IInv, KeptOK, Logs, Kept, TypeOK
  <2> QED BY <2>1, <2>2 DEF RecentKept
<1> QED BY <1>1, Invariant, PTL

-----------------------------------------------------------------------------
(* Which logs a step loses.                                                *)

\* When every file exists, as many logs as there are backups are younger than
\* the last one.
LEMMA YoungerThanLast ==
    ASSUME Constants, IInv, Found(maxCount), slot[maxCount] # 0
    PROVE  Cardinality({y \in Logs : y > slot[maxCount]}) = maxCount
<1> DEFINE Younger == 0 .. maxCount - 1
<1> DEFINE Newer == {y \in Logs : y > slot[maxCount]}
<1> DEFINE f == [i \in Younger |-> slot[i]]
<1>1. /\ slot \in [Slots -> Nat] /\ maxCount \in Slots /\ maxCount \in Nat \ {0}
      /\ \A i \in Younger : i \in Slots /\ i < maxCount /\ slot[i] # 0
      /\ \A i \in Slots : i \in Younger \/ i = maxCount
  BY DEF Constants, IInv, TypeOK, Slots, Found
<1>2. \A i, j \in Slots : i < j /\ slot[i] # 0 /\ slot[j] # 0 => slot[i] > slot[j]
  BY DEF IInv, OrderOK
<1>3. f \in [Younger -> Newer]
  <2> SUFFICES ASSUME NEW i \in Younger PROVE slot[i] \in Newer
    OBVIOUS
  <2>1. slot[i] \in Logs
    BY <1>1 DEF Logs, Kept
  <2>2. slot[i] > slot[maxCount]
    BY <1>1, <1>2
  <2> QED BY <2>1, <2>2
<1>4. \A i, j \in Younger : f[i] = f[j] => i = j
  <2> SUFFICES ASSUME NEW i \in Younger, NEW j \in Younger, i # j PROVE slot[i] # slot[j]
    OBVIOUS
  <2>1. slot[i] \in Nat /\ slot[j] \in Nat /\ (i < j \/ j < i)
    BY <1>1
  <2> QED BY <2>1, <1>1, <1>2
<1>5. \A y \in Newer : \E i \in Younger : f[i] = y
  <2> SUFFICES ASSUME NEW y \in Newer PROVE \E i \in Younger : slot[i] = y
    OBVIOUS
  <2>1. PICK i \in Slots : slot[i] = y
    BY DEF Logs, Kept
  <2>2. i # maxCount
    BY <2>1, <1>1
  <2> QED BY <2>1, <2>2, <1>1
<1>6. ExistsBijection(Younger, Newer)
  <2>1. f \in Bijection(Younger, Newer)
    BY <1>3, <1>4, <1>5, Fun_IsBij, Zenon
  <2> QED BY <2>1, Fun_ExistsBij
<1>7. IsFiniteSet(Younger) /\ Cardinality(Younger) = maxCount
  <2>1. /\ 0 \in Int /\ maxCount - 1 \in Int
        /\ ~(0 > maxCount - 1) /\ (maxCount - 1) - 0 + 1 = maxCount
    BY <1>1
  <2>2. IsFiniteSet(0 .. maxCount - 1)
    BY <2>1, FS_Interval, Zenon
  <2>3. Cardinality(0 .. maxCount - 1) = IF 0 > maxCount - 1 THEN 0 ELSE (maxCount - 1) - 0 + 1
    BY <2>1, FS_Interval, Zenon
  <2> QED BY <2>1, <2>2, <2>3, Zenon
<1> QED BY <1>6, <1>7, FS_Bijection

\* Only Rename replaces a log, and the one it replaces is expendable.
LEMMA StepLoses ==
    ASSUME Constants, IInv, [Next]_vars
    PROVE  LostIsOldest
<1> SUFFICES ASSUME NEW x \in Logs, x \notin Logs', x \notin refused
             PROVE  Cardinality({y \in Logs : y > x}) = maxCount
  BY DEF LostIsOldest
<1>1. PICK n \in Slots : slot[n] = x /\ x # 0
  BY DEF Logs, Kept
<1>2. \A i \in Slots : slot'[i] # x
  BY <1>1 DEF Logs, Kept
<1>3. slot' # slot
  BY <1>1, <1>2
<1>4. PICK p \in Procs : Rename(p) \/ Create(p)
  BY <1>3 DEF Next, vars, Start, Flock, LstatLog, LstatBackup, RenameFails, Unlock, Kill
<1>5. slot \in [Slots -> Nat] /\ CallOK(p)
  BY DEF IInv, TypeOK
<1>6. ~Create(p)
  <2> SUFFICES ASSUME Create(p) PROVE FALSE
    OBVIOUS
  <2>1. slot[0] = 0 /\ slot' = [slot EXCEPT ![0] = created + 1]
    BY <1>5 DEF Create, CallOK
  <2> QED BY <2>1, <1>1, <1>2, <1>5
<1>7. Rename(p) /\ cur[p] \in 1 .. maxCount /\ Expendable(cur[p])
  BY <1>4, <1>5, <1>6 DEF Rename, CallOK
<1>8. cur[p] \in Slots /\ cur[p] - 1 \in Slots /\ cur[p] - 1 # cur[p]
  BY <1>7 DEF Slots, Constants
<1>9. n = cur[p]
  <2>1. /\ slot'[cur[p]] = slot[cur[p] - 1]
        /\ \A i \in Slots : i # cur[p] /\ i # cur[p] - 1 => slot'[i] = slot[i]
    BY <1>5, <1>7, <1>8 DEF Rename
  <2> QED BY <2>1, <1>1, <1>2, <1>8
<1>10. n = maxCount /\ Found(maxCount)
  BY <1>1, <1>7, <1>9 DEF Expendable
<1> QED BY <1>1, <1>10, YoungerThanLast

\* CreateFileWithRotation loses a log only if it is the oldest and all the backups
\* are younger, or if it could not be renamed.
THEOREM LosesOnlyOldest ==
    ASSUME Constants
    PROVE  Spec => OnlyOldestLost
<1>1. IInv /\ [Next]_vars => [LostIsOldest]_vars
  BY StepLoses
<1> QED BY <1>1, Invariant, PTL DEF Spec, OnlyOldestLost

=============================================================================
