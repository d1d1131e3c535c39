---------------------------- MODULE OutDirProofs ----------------------------
(***************************************************************************)
(* Proofs about the output directory, for any number of processes, of      *)
(* commands, of configurations and of files.                               *)
(***************************************************************************)
EXTENDS OutDir, TLAPS

-----------------------------------------------------------------------------
(* The inductive invariant.                                                *)

Jobs == [command : Commands, config : Configs]
RuleFiles == [config : Configs, files : SUBSET Files]

Names == Files \cup {"list", "previous", "config"}

ProcType ==
    /\ pc = [p \in Procs |-> pc[p]]
    /\ job \in [Procs -> Jobs \cup {None}]
    /\ fd \in [Procs -> Nat]
    /\ katiSuffix \in [Procs -> Products \cup {None}]
    /\ todo \in [Procs -> SUBSET Names]

LockType == lock \in Nat /\ inodes \in Nat /\ removed \in SUBSET Nat

ListType ==
    /\ list = None \/ list \in SUBSET Files
    /\ previous = None \/ previous \in SUBSET Files
    /\ config \in Configs \cup {None, Torn}
    /\ rules \in [Products -> RuleFiles \cup {None}]
    /\ suffix \in Products \cup {None}

StagedType == DOMAIN staged \subseteq Files /\ staged \in [DOMAIN staged -> Configs]

TypeOK == ProcType /\ LockType /\ ListType /\ StagedType

\* A process past newLock has the lock file there is, or one that was removed,
\* and no two processes past the lock have the same.
LockOK ==
    /\ lock <= inodes /\ lock \notin removed
    /\ \A i \in removed : 0 < i /\ i <= inodes
    /\ \A p \in Procs : pc[p] = "lock" \/ Inside(p) =>
            fd[p] # 0 /\ fd[p] \in removed \cup {lock}
    /\ \A p, q \in Procs : p # q /\ Inside(p) /\ Inside(q) => fd[p] # fd[q]

\* A build that no clean overlapped has the lock file there is.
AloneOK ==
    ~spoiled => \A p \in Procs : Inside(p) =>
                    fd[p] \notin removed /\ \A q \in Procs : ~Cleaning(q)

\* What clean has gone past is gone.
CleanOK ==
    ~spoiled => \A p \in Procs : pc[p] = "clean_target" => DOMAIN staged \subseteq todo[p]

\* Unless a clean is at it, what is staged is among the files of the list that
\* was installed last, and from the configuration that is recorded.
StagedOK ==
    ~spoiled => \/ \E p \in Procs : pc[p] = "clean_target"
                \/ \A f \in DOMAIN staged :
                        previous # None /\ f \in previous /\ staged[f] = config

NinjaSteps == {"kati", "kati_rules", "clean_old", "remove_old", "package", "write_suffix",
               "suffix", "combine", "template", "config", "write_config", "writing_config",
               "ninja"}

\* The commands that come to a step, and the files it goes through.
JobOK ==
    \A p \in Procs :
        /\ pc[p] # "idle" => job[p] \in Jobs
        /\ pc[p] \in LockSteps => job[p].command # "clean"
        /\ pc[p] \in {"kati_rules", "staging"} => todo[p] \in SUBSET Files
        /\ pc[p] \in NinjaSteps => job[p].command \in {"build", "skip_make"}
        /\ pc[p] = "suffix" => job[p].command = "skip_make"

Builds(p) == job[p].command = "build"

\* The rules of the process are those kati wrote for its configuration.
KatiRan(p) ==
    /\ katiSuffix[p] = job[p].config.product
    /\ rules[katiSuffix[p]] # None
    /\ rules[katiSuffix[p]].config = job[p].config

AfterKati(p) == pc[p] \in {"clean_old", "remove_old"}

AfterCleanOld(p) ==
    /\ Builds(p)
    /\ pc[p] \in {"package", "write_suffix", "combine", "template", "config", "installclean",
                  "write_config", "writing_config", "ninja", "staging", "done"}

\* What a process inside has achieved when it comes to a step.
Achieved(p) ==
    /\ pc[p] = "kati_rules" =>
            /\ katiSuffix[p] = job[p].config.product
            /\ list # None /\ list = todo[p]
    /\ AfterKati(p) => KatiRan(p) /\ list = rules[katiSuffix[p]].files
    /\ pc[p] = "remove_old" => DOMAIN staged \subseteq list \cup todo[p]
    /\ AfterCleanOld(p) => KatiRan(p) /\ previous = rules[katiSuffix[p]].files
    /\ pc[p] = "installclean" => DOMAIN staged \subseteq todo[p]
    /\ pc[p] \in {"write_config", "writing_config"} => DOMAIN staged = {}
    /\ Builds(p) /\ pc[p] \in {"ninja", "staging", "done"} => config = job[p].config
    /\ pc[p] = "staging" /\ Rules(p) # None =>
            /\ Rules(p).config = config
            /\ previous # None /\ Rules(p).files \subseteq previous
            /\ todo[p] \subseteq Rules(p).files
    /\ pc[p] = "staging" /\ Builds(p) =>
            rules[katiSuffix[p]].files \subseteq DOMAIN staged \cup todo[p]
    /\ pc[p] = "done" /\ Builds(p) => rules[katiSuffix[p]].files \subseteq DOMAIN staged

AchievedOK == ~spoiled => \A p \in Procs : Inside(p) => Achieved(p)

IInv == TypeOK /\ LockOK /\ AloneOK /\ CleanOK /\ StagedOK /\ JobOK /\ AchievedOK

-----------------------------------------------------------------------------
(* Types.                                                                  *)

USE DEF procVars, lockVars, ninjaFiles, productOut

\* The product of a configuration is a product, and a product is not None.
LEMMA ProductType == \A c \in Configs : c.product \in Products
BY DEF Products

LEMMA NoneIsNoProduct == None \notin Products
BY NoneAssumption DEF Products

\* To remove a file from the staging directory leaves the others as they are.
LEMMA WithoutType ==
    ASSUME TypeOK, NEW f
    PROVE  /\ DOMAIN Without(f) = DOMAIN staged \ {f}
           /\ Without(f) \in [DOMAIN Without(f) -> Configs]
           /\ \A g \in DOMAIN Without(f) : Without(f)[g] = staged[g]
BY DEF TypeOK, StagedType, Without

LEMMA InitInv == Init => IInv
<1> SUFFICES ASSUME Init PROVE IInv
  OBVIOUS
<1> USE DEF Init
<1>1. \A p \in Procs : ~Inside(p) /\ ~Cleaning(p) /\ pc[p] = "idle"
  BY DEF Inside, Cleaning, CleanSteps
<1>2. ProcType /\ LockType
  BY DEF ProcType, LockType
<1>3. ListType /\ StagedType
  BY DEF ListType, StagedType
<1>4. LockOK /\ AloneOK /\ CleanOK
  BY <1>1 DEF LockOK, AloneOK, CleanOK
<1>5. StagedOK /\ JobOK /\ AchievedOK
  BY <1>1 DEF StagedOK, JobOK, AchievedOK, LockSteps, NinjaSteps
<1> QED BY <1>2, <1>3, <1>4, <1>5 DEF IInv, TypeOK

\* What a process does to its own variables keeps their types, and leaves those
\* of the others alone.
LEMMA EndType ==
    ASSUME ProcType, NEW p \in Procs, End(p)
    PROVE  ProcType'
BY DEF ProcType, End, Goto

LEMMA ProceedType ==
    ASSUME ProcType, NEW p \in Procs, NEW step, Proceed(p, step)
    PROVE  ProcType'
BY DEF ProcType, Proceed, Goto

LEMMA ProceedWithType ==
    ASSUME ProcType, NEW p \in Procs, NEW step, NEW files \in SUBSET Names,
           ProceedWith(p, step, files)
    PROVE  ProcType'
BY DEF ProcType, ProceedWith, Goto

\* The steps of a process keep the types of its variables.
LEMMA ProcTypeStep ==
    ASSUME TypeOK, JobOK, NEW p \in Procs, Start(p) \/ Build(p) \/ Kill(p)
    PROVE  ProcType'
<1> USE DEF TypeOK
<1>a. \A F \in SUBSET Files : F \in SUBSET Names
  BY DEF Names
<1>b. todo[p] \in SUBSET Names /\ \A f : todo[p] \ {f} \in SUBSET Names
  BY DEF ProcType
<1>c. DOMAIN staged \in SUBSET Names
  BY <1>a DEF StagedType
<1>1. CASE Start(p)
  <2>1. PICK o \in Commands, c \in Configs :
            /\ job' = [job EXCEPT ![p] = [command |-> o, config |-> c]]
            /\ Goto(p, IF o = "clean" THEN "clean_lock" ELSE "open")
    BY Zenon, <1>1 DEF Start
  <2>2. [command |-> o, config |-> c] \in Jobs
    BY DEF Jobs
  <2> QED BY <1>1, <2>1, <2>2 DEF Start, ProcType, Goto
<1>2. CASE newLock(p)
  <2>1. lock' \in Nat
    BY <1>2 DEF newLock, LockType
  <2> QED BY <1>2, <2>1 DEF newLock, ProcType, Goto
<1>3. CASE tryLock(p)
  <2>1. job[p].command \in {"build", "skip_make", "installclean"}
    BY <1>3 DEF tryLock, JobOK, LockSteps, Jobs, Commands
  <2> QED BY Zenon, <1>3, <2>1, <1>c, ProceedType, ProceedWithType DEF tryLock
<1>4. CASE checkDeadline(p) \/ Unlock(p) \/ Kill(p)
  BY <1>4, EndType DEF checkDeadline, Unlock, Kill
<1>5. CASE runKatiList(p)
  <2>1. pc[p] = "kati" /\ job[p] \in Jobs
    BY <1>5 DEF runKatiList, JobOK
  <2>2. list' \in SUBSET Names /\ job[p].config.product \in Products
    BY <1>5, <2>1, <1>a, InstallsAssumption, ProductType DEF runKatiList, Jobs
  <2> QED BY Zenon, <1>5, <2>2 DEF runKatiList, ProcType, Goto
<1>6. CASE runKatiRules(p) \/ runKatiPackage(p) \/ createCombinedBuildNinjaFile(p)
           \/ writeConfig(p)
  BY <1>6, ProceedType DEF runKatiRules, runKatiPackage, createCombinedBuildNinjaFile, writeConfig
<1>7. CASE cleanOldFiles(p)
  <2>1. previous # None => previous \ list \in SUBSET Names
    BY <1>a DEF ListType
  <2> QED BY Zenon, <1>7, <2>1, EndType, ProceedType, ProceedWithType DEF cleanOldFiles
<1>8. CASE removeOld(p)
  BY Zenon, <1>8, <1>b, ProceedType, ProceedWithType DEF removeOld
<1>9. CASE loadKatiSuffix(p)
  BY <1>9 DEF loadKatiSuffix, ProcType, ListType, Goto
<1>10. CASE installCleanIfNecessary(p)
  BY <1>10, <1>c, ProceedType, ProceedWithType DEF installCleanIfNecessary
<1>11. CASE installClean(p)
  BY Zenon, <1>11, <1>b, ProceedType, ProceedWithType DEF installClean
<1>12. CASE runNinja(p)
  <2>1. (IF Rules(p) = None THEN {} ELSE Rules(p).files) \in SUBSET Names
    BY <1>a DEF Rules, ListType, RuleFiles, ProcType
  <2> QED BY <1>12, <2>1, EndType, ProceedWithType DEF runNinja
<1>13. CASE stage(p)
  BY Zenon, <1>13, <1>b, EndType, ProceedType, ProceedWithType DEF stage
<1>14. CASE clean(p)
  BY Zenon, <1>14, <1>b, EndType, ProceedType, ProceedWithType DEF clean, Names
<1> QED BY <1>1, <1>2, <1>3, <1>4, <1>5, <1>6, <1>7, <1>8, <1>9, <1>10, <1>11, <1>12, <1>13,
           <1>14 DEF Build

\* The steps of a process keep the types of the files.
LEMMA FileTypeStep ==
    ASSUME TypeOK, JobOK, NEW p \in Procs, Start(p) \/ Build(p) \/ Kill(p)
    PROVE  LockType' /\ ListType' /\ StagedType'
<1> USE DEF TypeOK
<1>a. CASE UNCHANGED <<lockVars, ninjaFiles, productOut>>
  BY <1>a DEF LockType, ListType, StagedType
<1>b. \A f : staged' = Without(f) => StagedType'
  BY Zenon, WithoutType DEF StagedType
<1>1. CASE Start(p) \/ tryLock(p) \/ checkDeadline(p) \/ loadKatiSuffix(p)
           \/ installCleanIfNecessary(p) \/ runNinja(p) \/ Unlock(p) \/ Kill(p)
  BY Zenon, <1>1, <1>a DEF Start, tryLock, checkDeadline, loadKatiSuffix, installCleanIfNecessary,
                    runNinja, Unlock, Kill
<1>2. CASE newLock(p)
  BY <1>2 DEF newLock, LockType, ListType, StagedType
<1>3. CASE runKatiList(p)
  <2>1. job[p] \in Jobs
    BY <1>3 DEF runKatiList, JobOK
  <2>2. list' \in SUBSET Files
    BY <1>3, <2>1, InstallsAssumption DEF runKatiList, Jobs
  <2> QED BY <1>3, <2>2 DEF runKatiList, LockType, ListType, StagedType
<1>4. CASE runKatiRules(p)
  <2>1. job[p] \in Jobs
    BY <1>4 DEF runKatiRules, JobOK
  <2>2. [config |-> job[p].config, files |-> todo[p]] \in RuleFiles
    BY <1>4, <2>1 DEF runKatiRules, JobOK, RuleFiles, Jobs
  <2> QED BY Zenon, <1>4, <2>2 DEF runKatiRules, LockType, ListType, StagedType
<1>5. CASE cleanOldFiles(p)
  BY Zenon, <1>5 DEF cleanOldFiles, RenameList, LockType, ListType, StagedType
<1>6. CASE removeOld(p)
  BY Zenon, <1>6, <1>b DEF removeOld, RenameList, LockType, ListType, StagedType
<1>7. CASE runKatiPackage(p)
  BY <1>7 DEF runKatiPackage, LockType, ListType, StagedType, ProcType
<1>8. CASE createCombinedBuildNinjaFile(p)
  BY <1>8 DEF createCombinedBuildNinjaFile, LockType, ListType, StagedType
<1>9. CASE installClean(p)
  BY Zenon, <1>9, <1>b DEF installClean, LockType, ListType, StagedType
<1>10. CASE writeConfig(p)
  <2>1. job[p] \in Jobs
    BY <1>10 DEF writeConfig, JobOK
  <2> QED BY <1>10, <2>1 DEF writeConfig, LockType, ListType, StagedType, Jobs
<1>11. CASE stage(p)
  <2>1. CASE UNCHANGED staged
    BY <1>11, <2>1 DEF stage, LockType, ListType, StagedType
  <2>2. ASSUME NEW f \in todo[p], Rules(p) # None,
               staged' = [g \in DOMAIN staged \cup {f} |->
                             IF g = f THEN Rules(p).config ELSE staged[g]]
        PROVE  StagedType'
    <3>1. f \in Files
      BY <1>11 DEF stage, JobOK
    <3>2. Rules(p).config \in Configs
      BY <2>2 DEF Rules, ListType, ProcType, RuleFiles
    <3> QED BY <2>2, <3>1, <3>2 DEF StagedType
  <2> QED BY Zenon, <1>11, <2>1, <2>2 DEF stage, LockType, ListType
<1>12. CASE clean(p)
  <2>1. CASE pc[p] = "clean_lock"
    BY <1>12, <2>1 DEF clean, LockType, ListType, StagedType
  <2>2. CASE pc[p] = "clean_top"
    BY <1>12, <2>2 DEF clean, LockType, ListType, StagedType
  <2>3. CASE pc[p] = "clean_target"
    BY Zenon, <1>12, <2>3, <1>b DEF clean, LockType, ListType, StagedType
  <2> QED BY <1>12, <2>1, <2>2, <2>3 DEF clean
<1> QED BY <1>1, <1>2, <1>3, <1>4, <1>5, <1>6, <1>7, <1>8, <1>9, <1>10, <1>11, <1>12 DEF Build

\* A process changes its own variables only.
LEMMA Frame ==
    ASSUME TypeOK, JobOK, NEW p \in Procs, Start(p) \/ Build(p) \/ Kill(p),
           NEW q \in Procs, q # p
    PROVE  /\ pc'[q] = pc[q] /\ job'[q] = job[q] /\ fd'[q] = fd[q]
           /\ katiSuffix'[q] = katiSuffix[q] /\ todo'[q] = todo[q]
<1> DEFINE Same == /\ pc'[q] = pc[q] /\ job'[q] = job[q] /\ fd'[q] = fd[q]
                   /\ katiSuffix'[q] = katiSuffix[q] /\ todo'[q] = todo[q]
<1> SUFFICES Same
  OBVIOUS
<1> USE DEF TypeOK
<1>a. End(p) => Same
  BY DEF End, Goto, ProcType
<1>b. \A step : Proceed(p, step) => Same
  BY DEF Proceed, Goto, ProcType
<1>c. \A step, files : ProceedWith(p, step, files) => Same
  BY DEF ProceedWith, Goto, ProcType
<1>1. CASE Start(p)
  BY <1>1 DEF Start, Goto, ProcType
<1>2. CASE newLock(p)
  BY <1>2 DEF newLock, Goto, ProcType
<1>3. CASE runKatiList(p)
  BY <1>3 DEF runKatiList, Goto, ProcType
<1>4. CASE loadKatiSuffix(p)
  BY <1>4 DEF loadKatiSuffix, Goto, ProcType
<1> HIDE DEF Same
<1>5. CASE tryLock(p)
  <2>1. job[p].command \in {"build", "skip_make", "installclean"}
    BY <1>5 DEF tryLock, JobOK, LockSteps, Jobs, Commands
  <2> QED BY Zenon, <1>5, <2>1, <1>b, <1>c DEF tryLock
<1>6. CASE checkDeadline(p) \/ Unlock(p) \/ Kill(p)
  BY <1>6, <1>a DEF checkDeadline, Unlock, Kill
<1>7. CASE runKatiRules(p) \/ runKatiPackage(p) \/ createCombinedBuildNinjaFile(p)
           \/ writeConfig(p)
  BY <1>7, <1>b DEF runKatiRules, runKatiPackage, createCombinedBuildNinjaFile, writeConfig
<1>8. CASE cleanOldFiles(p) \/ removeOld(p)
  BY Zenon, <1>8, <1>a, <1>b, <1>c DEF cleanOldFiles, removeOld
<1>9. CASE installCleanIfNecessary(p) \/ installClean(p)
  BY Zenon, <1>9, <1>b, <1>c DEF installCleanIfNecessary, installClean
<1>10. CASE runNinja(p) \/ stage(p)
  BY Zenon, <1>10, <1>a, <1>b, <1>c DEF runNinja, stage
<1>11. CASE clean(p)
  BY Zenon, <1>11, <1>a, <1>b, <1>c DEF clean
<1> QED BY <1>1, <1>2, <1>3, <1>4, <1>5, <1>6, <1>7, <1>8, <1>9, <1>10, <1>11 DEF Build

-----------------------------------------------------------------------------
(* The lock.                                                               *)

\* A process that gets past the lock takes tryLock; after that it stays inside,
\* with the same lock file, until it ends.
LEMMA Moves ==
    ASSUME TypeOK, JobOK, NEW p \in Procs, Start(p) \/ Build(p) \/ Kill(p)
    PROVE  \/ Start(p) \/ newLock(p) \/ tryLock(p) \/ clean(p)
           \/ /\ UNCHANGED lockVars
              /\ \/ pc'[p] = "idle"
                 \/ Inside(p) /\ Inside(p)' /\ fd'[p] = fd[p]
<1> USE DEF TypeOK, LockSteps, CleanSteps
<1>a. End(p) => pc'[p] = "idle"
  BY DEF End, Goto, ProcType
<1>b. \A step : Proceed(p, step) => pc'[p] = step /\ fd'[p] = fd[p]
  BY DEF Proceed, Goto, ProcType
<1>1. CASE checkDeadline(p) \/ Unlock(p) \/ Kill(p)
  BY <1>1, <1>a DEF checkDeadline, Unlock, Kill
<1>2. CASE runKatiList(p) \/ loadKatiSuffix(p)
  BY <1>2 DEF runKatiList, loadKatiSuffix, Goto, ProcType, Inside
<1>3. CASE runKatiRules(p) \/ runKatiPackage(p) \/ writeConfig(p)
  BY <1>3, <1>b DEF runKatiRules, runKatiPackage, writeConfig, Inside
<1>4. CASE createCombinedBuildNinjaFile(p)
  BY <1>4, <1>b DEF createCombinedBuildNinjaFile, Inside
<1>5. CASE cleanOldFiles(p)
  BY Zenon, <1>5 DEF cleanOldFiles, Proceed, ProceedWith, End, Goto, ProcType, Inside
<1>6. CASE removeOld(p)
  BY <1>6 DEF removeOld, Proceed, ProceedWith, End, Goto, ProcType, Inside
<1>7. CASE installCleanIfNecessary(p)
  BY <1>7 DEF installCleanIfNecessary, Proceed, ProceedWith, End, Goto, ProcType, Inside
<1>8. CASE installClean(p)
  BY <1>8 DEF installClean, Proceed, ProceedWith, End, Goto, ProcType, Inside
<1>9. CASE runNinja(p)
  BY <1>9 DEF runNinja, Proceed, ProceedWith, End, Goto, ProcType, Inside
<1>10. CASE stage(p)
  BY Zenon, <1>10 DEF stage, Proceed, ProceedWith, End, Goto, ProcType, Inside
<1> QED BY <1>1, <1>2, <1>3, <1>4, <1>5, <1>6, <1>7, <1>8, <1>9, <1>10 DEF Build

\* The four steps that may change the lock file or come to it.
LEMMA LockMoves ==
    ASSUME TypeOK, JobOK, NEW p \in Procs
    PROVE  /\ Start(p) => ~Inside(p)' /\ pc'[p] # "lock" /\ UNCHANGED lockVars
           /\ newLock(p) => pc'[p] = "lock" /\ fd'[p] = lock' /\ UNCHANGED removed
           /\ tryLock(p) => pc[p] = "lock" /\ pc'[p] # "lock" /\ fd'[p] = fd[p]
                            /\ UNCHANGED lockVars
           /\ clean(p) => Cleaning(p) /\ ~Inside(p)' /\ pc'[p] # "lock" /\ UNCHANGED inodes
           /\ clean(p) => \/ UNCHANGED <<lock, removed>>
                          \/ lock' = 0 /\ removed' = removed \cup ({lock} \ {0})
<1> USE DEF TypeOK, LockSteps, CleanSteps
<1>1. Start(p) => ~Inside(p)' /\ pc'[p] # "lock" /\ UNCHANGED lockVars
  BY DEF Start, Goto, ProcType, Inside
<1>2. newLock(p) => pc'[p] = "lock" /\ fd'[p] = lock' /\ UNCHANGED removed
  BY DEF newLock, Goto, ProcType
<1>3. tryLock(p) => /\ pc[p] = "lock" /\ pc'[p] # "lock" /\ fd'[p] = fd[p]
                    /\ UNCHANGED lockVars
  <2> SUFFICES ASSUME tryLock(p)
               PROVE  pc[p] = "lock" /\ pc'[p] # "lock" /\ fd'[p] = fd[p] /\ UNCHANGED lockVars
    OBVIOUS
  <2>1. job[p].command \in {"build", "skip_make", "installclean"}
    BY DEF tryLock, JobOK, LockSteps, Jobs, Commands
  <2> QED BY Zenon, <2>1 DEF tryLock, Proceed, ProceedWith, End, Goto, ProcType
<1>4. clean(p) => Cleaning(p) /\ ~Inside(p)' /\ pc'[p] # "lock" /\ UNCHANGED inodes
  BY DEF clean, Proceed, ProceedWith, End, Goto, ProcType, Cleaning, Inside
<1>5. clean(p) => \/ UNCHANGED <<lock, removed>>
                  \/ lock' = 0 /\ removed' = removed \cup ({lock} \ {0})
  BY DEF clean
<1> QED BY <1>1, <1>2, <1>3, <1>4, <1>5

\* The lock files stay apart.
LEMMA LockStep ==
    ASSUME IInv, NEW p \in Procs, Start(p) \/ Build(p) \/ Kill(p)
    PROVE  LockOK'
<1> USE DEF IInv
<1>a. \A q \in Procs \ {p} : /\ pc'[q] = pc[q] /\ fd'[q] = fd[q]
                             /\ Inside(q)' = Inside(q)
  BY Frame DEF Inside
<1>b. lock \in Nat /\ inodes \in Nat /\ removed \in SUBSET Nat /\ fd \in [Procs -> Nat]
  BY DEF TypeOK, LockType, ProcType
<1>1. CASE newLock(p)
  <2>1. pc'[p] = "lock" /\ ~Inside(p)' /\ fd'[p] = lock' /\ removed' = removed
    BY <1>1, LockMoves DEF Inside, LockSteps
  <2>2. /\ lock' \in Nat /\ inodes' \in Nat /\ lock' # 0 /\ lock' <= inodes'
        /\ inodes <= inodes' /\ lock' \notin removed /\ lock \in {0, lock'}
    BY <1>1, <1>b DEF newLock, LockOK
  <2> QED BY <2>1, <2>2, <1>a, <1>b DEF LockOK
<1>2. CASE tryLock(p)
  <2>1. pc[p] = "lock" /\ pc'[p] # "lock" /\ fd'[p] = fd[p] /\ UNCHANGED lockVars
    BY <1>2, LockMoves
  <2>2. \A q \in Procs : Inside(q) => fd[q] # fd[p]
    BY <1>2 DEF tryLock, Locked
  <2> QED BY <2>1, <2>2, <1>a DEF LockOK
<1>3. CASE clean(p)
  <2>1. /\ ~Inside(p)' /\ pc'[p] # "lock" /\ UNCHANGED inodes
        /\ \/ UNCHANGED <<lock, removed>>
           \/ lock' = 0 /\ removed' = removed \cup ({lock} \ {0})
    BY <1>3, LockMoves
  <2>2. CASE UNCHANGED <<lock, removed>>
    BY <2>1, <2>2, <1>a DEF LockOK
  <2>3. CASE lock' = 0 /\ removed' = removed \cup ({lock} \ {0})
    <3>1. lock' <= inodes' /\ lock' \notin removed'
      BY <2>1, <2>3, <1>b DEF LockOK
    <3>2. \A i \in removed' : 0 < i /\ i <= inodes'
      BY <2>1, <2>3, <1>b DEF LockOK
    <3>3. \A q \in Procs : pc'[q] = "lock" \/ Inside(q)' =>
            fd'[q] # 0 /\ fd'[q] \in removed' \cup {lock'}
      BY <2>1, <2>3, <1>a DEF LockOK
    <3>4. \A q, r \in Procs : q # r /\ Inside(q)' /\ Inside(r)' => fd'[q] # fd'[r]
      BY <2>1, <1>a DEF LockOK
    <3> QED BY <3>1, <3>2, <3>3, <3>4 DEF LockOK
  <2> QED BY <2>1, <2>2, <2>3
<1>4. CASE UNCHANGED lockVars /\ pc'[p] # "lock" /\ ~Inside(p)'
  BY <1>4, <1>a DEF LockOK
<1>5. CASE UNCHANGED lockVars /\ Inside(p) /\ Inside(p)' /\ fd'[p] = fd[p]
  BY <1>5, <1>a DEF LockOK
<1>6. (pc'[p] = "idle" => ~Inside(p)') /\ (Inside(p)' => pc'[p] # "lock")
  BY DEF Inside, LockSteps
<1> QED BY <1>1, <1>2, <1>3, <1>4, <1>5, <1>6, Moves, LockMoves

\* What is spoiled stays so.
LEMMA SpoiledStays ==
    ASSUME NEW p \in Procs, Start(p) \/ Build(p) \/ Kill(p), ~spoiled'
    PROVE  ~spoiled
BY Zenon DEF Build, Start, Kill, newLock, tryLock, checkDeadline, runKatiList, runKatiRules,
       cleanOldFiles, removeOld, runKatiPackage, loadKatiSuffix, createCombinedBuildNinjaFile,
       installCleanIfNecessary, installClean, writeConfig, runNinja, stage, Unlock, clean

\* A build that is not spoiled is the only one, and no clean is under way.
LEMMA Alone ==
    ASSUME LockOK, AloneOK, ~spoiled, NEW p \in Procs, NEW q \in Procs, Inside(p)
    PROVE  fd[p] = lock /\ ~Cleaning(q) /\ (Inside(q) => p = q)
BY DEF LockOK, AloneOK

LEMMA AloneStep ==
    ASSUME IInv, NEW p \in Procs, Start(p) \/ Build(p) \/ Kill(p)
    PROVE  AloneOK'
<1> SUFFICES ASSUME ~spoiled', NEW q \in Procs, Inside(q)', NEW r \in Procs
             PROVE  fd'[q] \notin removed' /\ ~Cleaning(r)'
  BY DEF AloneOK
<1> USE DEF IInv
<1>a. ~spoiled
  BY SpoiledStays
<1>b. \A x \in Procs \ {p} : /\ pc'[x] = pc[x] /\ fd'[x] = fd[x]
                             /\ Inside(x)' = Inside(x) /\ Cleaning(x)' = Cleaning(x)
  BY Frame DEF Inside, Cleaning
<1>c. ~(Inside(p)' /\ Cleaning(p)')
  BY DEF Inside, Cleaning
<1>1. CASE Start(p)
  <2>1. pc[p] = "idle" /\ ~Inside(p)' /\ removed' = removed
    BY Zenon, <1>1, LockMoves DEF Start
  <2>2. q # p /\ Inside(q)
    BY <2>1, <1>b
  <2>3. ~Cleaning(p)'
    BY Zenon, <1>1, <2>2 DEF Start, Goto, Cleaning, CleanSteps, TypeOK, ProcType
  <2> QED BY <2>1, <2>2, <2>3, <1>a, <1>b DEF AloneOK
<1>2. CASE newLock(p)
  <2>1. pc'[p] = "lock" /\ removed' = removed
    BY <1>2, LockMoves
  <2>2. ~Inside(p)' /\ ~Cleaning(p)'
    BY <2>1 DEF Inside, Cleaning, LockSteps, CleanSteps
  <2> QED BY <2>1, <2>2, <1>a, <1>b DEF AloneOK
<1>3. CASE tryLock(p)
  <2>1. fd[p] \notin removed /\ \A x \in Procs : ~Cleaning(x)
    BY Zenon, <1>3 DEF tryLock
  <2>2. fd'[p] = fd[p] /\ UNCHANGED lockVars
    BY <1>3, LockMoves
  <2>3. \A x \in Procs \ {p} : ~Inside(x)
    <3> SUFFICES ASSUME NEW x \in Procs \ {p}, Inside(x) PROVE FALSE
      OBVIOUS
    <3>1. fd[x] = lock /\ fd[p] = lock
      BY <1>3, <2>1, <1>a, Alone DEF LockOK, tryLock
    <3> QED BY <1>3, <3>1 DEF tryLock, Locked
  <2>4. q = p
    BY <2>3, <1>b
  <2> QED BY <2>1, <2>2, <2>4, <1>b, <1>c
<1>4. CASE clean(p)
  <2>1. Cleaning(p) /\ ~Inside(p)'
    BY <1>4, LockMoves
  <2> QED BY <2>1, <1>a, <1>b DEF AloneOK
<1>5. CASE UNCHANGED lockVars /\ pc'[p] = "idle"
  <2>1. ~Inside(p)' /\ ~Cleaning(p)'
    BY <1>5 DEF Inside, Cleaning, CleanSteps
  <2> QED BY <1>5, <2>1, <1>a, <1>b DEF AloneOK
<1>6. CASE UNCHANGED lockVars /\ Inside(p) /\ Inside(p)' /\ fd'[p] = fd[p]
  BY <1>6, <1>a, <1>b, <1>c DEF AloneOK
<1> QED BY <1>1, <1>2, <1>3, <1>4, <1>5, <1>6, Moves

-----------------------------------------------------------------------------
(* The steps of the commands.                                              *)

LEMMA JobStep ==
    ASSUME IInv, NEW p \in Procs, Start(p) \/ Build(p) \/ Kill(p)
    PROVE  JobOK'
<1> USE DEF IInv
<1> DEFINE OK == /\ pc[p] # "idle" => job[p] \in Jobs
                 /\ pc[p] \in LockSteps => job[p].command # "clean"
                 /\ pc[p] \in {"kati_rules", "staging"} => todo[p] \in SUBSET Files
                 /\ pc[p] \in NinjaSteps => job[p].command \in {"build", "skip_make"}
                 /\ pc[p] = "suffix" => job[p].command = "skip_make"
<1> SUFFICES OK'
  BY Zenon, Frame DEF JobOK
<1> USE DEF LockSteps, NinjaSteps
<1>a. CASE pc'[p] = "idle"
  BY <1>a
<1>b. pc[p] # "idle" => job[p] \in Jobs
  BY DEF JobOK
<1>c. End(p) => pc'[p] = "idle"
  BY DEF TypeOK, ProcType, End, Goto
<1>1. CASE Start(p)
  <2>1. PICK o \in Commands, c \in Configs :
            /\ job' = [job EXCEPT ![p] = [command |-> o, config |-> c]]
            /\ Goto(p, IF o = "clean" THEN "clean_lock" ELSE "open")
    BY Zenon, <1>1 DEF Start
  <2>2. job'[p] \in Jobs /\ job'[p].command = o
    BY <2>1 DEF Jobs, TypeOK, ProcType
  <2>3. pc'[p] = IF o = "clean" THEN "clean_lock" ELSE "open"
    BY <2>1 DEF TypeOK, ProcType, Goto
  <2> QED BY <2>2, <2>3
<1>2. CASE newLock(p)
  BY <1>2, <1>b DEF newLock, JobOK, Goto, TypeOK, ProcType
<1>3. CASE tryLock(p)
  <2>1. job[p].command \in {"build", "skip_make", "installclean"}
    BY <1>3 DEF tryLock, JobOK, Jobs, Commands
  <2> QED BY Zenon, <1>3, <2>1, <1>b DEF tryLock, Proceed, ProceedWith, Goto, TypeOK, ProcType
<1>4. CASE checkDeadline(p) \/ Unlock(p) \/ Kill(p)
  BY <1>4, <1>a, <1>c DEF checkDeadline, Unlock, Kill
<1>5. CASE runKatiList(p)
  <2>1. list' \in SUBSET Files
    BY <1>5, <1>b, InstallsAssumption DEF runKatiList, Jobs
  <2> QED BY <1>5, <2>1, <1>b DEF runKatiList, JobOK, Goto, TypeOK, ProcType
<1>6. CASE runKatiRules(p)
  BY <1>6, <1>b DEF runKatiRules, JobOK, Proceed, Goto, TypeOK, ProcType
<1>7. CASE cleanOldFiles(p)
  BY Zenon, <1>7, <1>a, <1>b, <1>c DEF cleanOldFiles, JobOK, Proceed, ProceedWith, Goto, TypeOK, ProcType
<1>8. CASE removeOld(p)
  BY <1>8, <1>b DEF removeOld, JobOK, Proceed, ProceedWith, Goto, TypeOK, ProcType
<1>9. CASE runKatiPackage(p)
  BY <1>9, <1>b DEF runKatiPackage, JobOK, Proceed, Goto, TypeOK, ProcType
<1>10. CASE loadKatiSuffix(p)
  BY <1>10, <1>b DEF loadKatiSuffix, JobOK, Goto, TypeOK, ProcType
<1>11. CASE createCombinedBuildNinjaFile(p)
  BY <1>11, <1>b DEF createCombinedBuildNinjaFile, JobOK, Proceed, Goto, TypeOK, ProcType
<1>12. CASE installCleanIfNecessary(p)
  BY <1>12, <1>b DEF installCleanIfNecessary, JobOK, Proceed, ProceedWith, Goto, TypeOK, ProcType
<1>13. CASE installClean(p)
  BY <1>13, <1>b DEF installClean, JobOK, Proceed, ProceedWith, Goto, TypeOK, ProcType
<1>14. CASE writeConfig(p)
  BY <1>14, <1>b DEF writeConfig, JobOK, Proceed, Goto, TypeOK, ProcType
<1>15. CASE runNinja(p)
  <2>1. (IF Rules(p) = None THEN {} ELSE Rules(p).files) \in SUBSET Files
    BY DEF Rules, TypeOK, ListType, RuleFiles, ProcType
  <2> QED BY <1>15, <2>1, <1>a, <1>b, <1>c DEF runNinja, ProceedWith, Goto, TypeOK, ProcType
<1>16. CASE stage(p)
  <2>1. \/ pc'[p] = "idle"
        \/ pc'[p] = "done" /\ job'[p] = job[p]
        \/ pc'[p] = "staging" /\ job'[p] = job[p] /\ todo'[p] \subseteq todo[p]
    BY Zenon, <1>16, <1>c DEF stage, Proceed, ProceedWith, Goto, TypeOK, ProcType
  <2>2. pc[p] = "staging" /\ todo[p] \in SUBSET Files /\ job[p] \in Jobs
    BY <1>16 DEF stage, JobOK
  <2> QED BY <2>1, <2>2
<1>17. CASE clean(p)
  <2>1. \/ pc'[p] = "idle"
        \/ pc'[p] \in {"clean_top", "clean_target"} /\ job'[p] = job[p]
    BY <1>17, <1>c DEF clean, Proceed, ProceedWith, Goto, TypeOK, ProcType
  <2>2. job[p] \in Jobs
    BY Zenon, <1>17 DEF clean, JobOK
  <2> QED BY <2>1, <2>2
<1> QED BY Zenon, <1>1, <1>2, <1>3, <1>4, <1>5, <1>6, <1>7, <1>8, <1>9, <1>10, <1>11, <1>12, <1>13,
           <1>14, <1>15, <1>16, <1>17 DEF Build

-----------------------------------------------------------------------------
(* The staging directory.                                                  *)

\* A process that is not inside changes the files of the products only by a
\* clean, and a clean that does not go on is spoiled.
LEMMA Outside ==
    ASSUME TypeOK, JobOK, NEW p \in Procs, Start(p) \/ Build(p) \/ Kill(p), ~Inside(p), ~clean(p)
    PROVE  /\ UNCHANGED <<ninjaFiles, productOut>>
           /\ pc'[p] # "clean_target"
           /\ Cleaning(p) => spoiled'
<1>1. Start(p) \/ newLock(p) \/ tryLock(p) \/ checkDeadline(p) \/ Kill(p)
  BY Zenon DEF Build, Inside, LockSteps, CleanSteps, runKatiList, runKatiRules, cleanOldFiles, removeOld,
         runKatiPackage, loadKatiSuffix, createCombinedBuildNinjaFile, installCleanIfNecessary,
         installClean, writeConfig, runNinja, stage, Unlock
<1>2. UNCHANGED <<ninjaFiles, productOut>>
  BY Zenon, <1>1 DEF Start, newLock, tryLock, checkDeadline, Kill
<1>3. Cleaning(p) => spoiled'
  BY Zenon, <1>1 DEF Cleaning, CleanSteps, Start, newLock, tryLock, checkDeadline, Kill
<1>4. CASE tryLock(p)
  <2>1. job[p].command \in {"build", "skip_make", "installclean"}
    BY <1>4 DEF tryLock, JobOK, LockSteps, Jobs, Commands
  <2>2. pc'[p] # "clean_target"
    BY Zenon, <1>4, <2>1 DEF tryLock, Proceed, ProceedWith, Goto, TypeOK, ProcType
  <2> QED BY <1>2, <1>3, <2>2
<1>5. CASE ~tryLock(p)
  <2>1. pc'[p] # "clean_target"
    BY <1>1, <1>5 DEF Start, newLock, checkDeadline, Kill, End, Goto, TypeOK, ProcType
  <2> QED BY <1>2, <1>3, <2>1
<1> QED BY <1>4, <1>5

\* The steps of clean.
LEMMA CleanMoves ==
    ASSUME TypeOK, NEW p \in Procs, clean(p)
    PROVE  \/ pc[p] = "clean_lock" /\ pc'[p] = "clean_top" /\ UNCHANGED productOut
           \/ /\ pc[p] = "clean_top" /\ pc'[p] = "clean_target" /\ UNCHANGED productOut
              /\ Files \subseteq todo'[p]
           \/ /\ pc[p] = "clean_target" /\ pc'[p] = "clean_target"
              /\ \E f \in todo[p] : todo'[p] = todo[p] \ {f} /\ staged' = Without(f)
           \/ /\ pc[p] = "clean_target" /\ todo[p] = {} /\ pc'[p] = "idle" /\ UNCHANGED productOut
BY DEF clean, Proceed, ProceedWith, End, Goto, TypeOK, ProcType

LEMMA CleanStep ==
    ASSUME IInv, NEW p \in Procs, Start(p) \/ Build(p) \/ Kill(p)
    PROVE  CleanOK'
<1> SUFFICES ASSUME ~spoiled', NEW q \in Procs, pc'[q] = "clean_target"
             PROVE  DOMAIN staged' \subseteq todo'[q]
  BY DEF CleanOK
<1> USE DEF IInv
<1>a. ~spoiled
  BY SpoiledStays
<1>1. CASE q = p
  <2>1. ~Inside(p)'
    BY <1>1 DEF Inside, CleanSteps
  <2>2. ~Inside(p)
    <3>1. Inside(p) => ~(Start(p) \/ newLock(p) \/ tryLock(p) \/ clean(p))
      BY Zenon DEF Inside, LockSteps, CleanSteps, Start, newLock, tryLock, clean
    <3>2. pc'[p] # "idle"
      BY <1>1
    <3> QED BY Zenon, <2>1, <3>1, <3>2, Moves
  <2>3. clean(p)
    BY <1>1, <2>2, Outside
  <2> QED BY Zenon, <1>1, <1>a, <2>3, CleanMoves, WithoutType DEF CleanOK, TypeOK, StagedType
<1>2. CASE q # p
  <2>1. pc[q] = "clean_target" /\ todo'[q] = todo[q]
    BY <1>2, Frame
  <2>2. ~Inside(p)
    BY <2>1, <1>a, Alone DEF Cleaning, CleanSteps
  <2>3. DOMAIN staged' \subseteq DOMAIN staged
    BY Zenon, <2>2, Outside, CleanMoves, WithoutType
  <2> QED BY <2>1, <2>3, <1>a DEF CleanOK
<1> QED BY <1>1, <1>2

\* What is staged, for a build that is alone.
Recorded ==
    \A f \in DOMAIN staged : previous # None /\ f \in previous /\ staged[f] = config

LEMMA WithoutRecorded ==
    ASSUME TypeOK, Recorded, NEW f, staged' = Without(f), UNCHANGED <<previous, config>>
    PROVE  Recorded'
<1>1. DOMAIN staged' \subseteq DOMAIN staged /\ \A g \in DOMAIN staged' : staged'[g] = staged[g]
  BY Zenon, WithoutType
<1> QED BY <1>1 DEF Recorded

\* A process that goes on has the same command.
LEMMA ProceedEffect ==
    ASSUME ProcType, NEW p \in Procs, NEW step
    PROVE  /\ Proceed(p, step) =>
                /\ pc'[p] = step /\ job'[p] = job[p] /\ katiSuffix'[p] = katiSuffix[p]
                /\ todo'[p] = todo[p]
           /\ \A files : ProceedWith(p, step, files) =>
                /\ pc'[p] = step /\ job'[p] = job[p] /\ katiSuffix'[p] = katiSuffix[p]
                /\ todo'[p] = files
BY DEF ProcType, Proceed, ProceedWith, Goto

\* Behind the lock a process finds the directory as its predecessors left it.
LEMMA EnterAchieved ==
    ASSUME IInv, NEW p \in Procs, tryLock(p)
    PROVE  Achieved(p)'
<1> USE DEF IInv, TypeOK
<1>1. job[p].command \in {"build", "skip_make", "installclean"}
  BY DEF tryLock, JobOK, LockSteps, Jobs, Commands
<1>2. CASE job[p].command = "build"
  <2>1. pc'[p] = "kati"
    BY <1>2, ProceedEffect DEF tryLock
  <2> QED BY <2>1 DEF Achieved, AfterKati, AfterCleanOld
<1>3. CASE job[p].command = "skip_make"
  <2>1. pc'[p] = "suffix"
    BY <1>3, ProceedEffect DEF tryLock
  <2> QED BY <2>1 DEF Achieved, AfterKati, AfterCleanOld
<1>4. CASE job[p].command = "installclean"
  <2>1. pc'[p] = "installclean" /\ todo'[p] = DOMAIN staged /\ ~Builds(p)' /\ staged' = staged
    BY <1>4 DEF tryLock, ProceedWith, Goto, ProcType, Builds
  <2> QED BY <2>1 DEF Achieved, AfterKati, AfterCleanOld
<1> QED BY <1>1, <1>2, <1>3, <1>4

\* Each step of a build that is alone achieves what the next one needs.
LEMMA StepAchieved ==
    ASSUME IInv, NEW p \in Procs, Build(p) \/ Kill(p), Inside(p), Achieved(p), Recorded,
           pc'[p] # "idle", ~spoiled'
    PROVE  Achieved(p)' /\ Recorded'
<1> USE DEF IInv, TypeOK
<1>a. End(p) => pc'[p] = "idle"
  BY DEF End, Goto, ProcType
<1>b. job[p] \in Jobs
  BY DEF JobOK, Inside
<1>1. CASE runKatiList(p)
  <2>1. /\ pc'[p] = "kati_rules" /\ job'[p] = job[p] /\ todo'[p] = list'
        /\ katiSuffix'[p] = job[p].config.product
    BY <1>1 DEF runKatiList, Goto, ProcType
  <2>2. list' # None
    BY <1>1, <1>b, InstallsAssumption, NoneAssumption DEF runKatiList, Jobs
  <2>3. Achieved(p)'
    BY <2>1, <2>2 DEF Achieved, AfterKati, AfterCleanOld
  <2>4. Recorded'
    BY <1>1 DEF runKatiList, Recorded
  <2> QED BY <2>3, <2>4
<1>2. CASE runKatiRules(p)
  <2>1. /\ pc[p] = "kati_rules" /\ pc'[p] = "clean_old" /\ job'[p] = job[p]
        /\ katiSuffix'[p] = katiSuffix[p] /\ UNCHANGED productOut
    BY <1>2, ProceedEffect DEF runKatiRules
  <2>2. /\ katiSuffix[p] = job[p].config.product /\ katiSuffix[p] \in Products
        /\ list = todo[p]
    BY <2>1, <1>b, ProductType DEF Achieved, Jobs
  <2>3. rules'[katiSuffix[p]] = [config |-> job[p].config, files |-> todo[p]]
    BY Zenon, <1>2, <2>2 DEF runKatiRules, ListType
  <2>4. [config |-> job[p].config, files |-> todo[p]] \in RuleFiles
    BY Zenon, <2>1, <1>b DEF JobOK, RuleFiles, Jobs
  <2>5. rules'[katiSuffix[p]] # None
    BY <2>3, <2>4, NoneAssumption DEF RuleFiles
  <2>6. rules'[katiSuffix[p]].config = job[p].config /\ rules'[katiSuffix[p]].files = list'
    BY <2>1, <2>2, <2>3
  <2>7. KatiRan(p)'
    BY <2>1, <2>2, <2>5, <2>6 DEF KatiRan
  <2>8. Achieved(p)'
    BY Zenon, <2>1, <2>6, <2>7 DEF Achieved, AfterKati, AfterCleanOld
  <2> QED BY <2>1, <2>8 DEF Recorded
<1>3. CASE cleanOldFiles(p)
  <2>1. /\ pc[p] = "clean_old" /\ job'[p] = job[p] /\ katiSuffix'[p] = katiSuffix[p]
        /\ UNCHANGED <<rules, staged, config>> /\ list # None
        /\ \/ /\ pc'[p] = "package" /\ previous' = list
              /\ previous = None \/ previous = list
           \/ /\ pc'[p] = "remove_old" /\ todo'[p] = previous \ list /\ previous # None
              /\ UNCHANGED <<list, previous>>
    BY Zenon, <1>3, <1>a DEF cleanOldFiles, RenameList, Proceed, ProceedWith, Goto, ProcType
  <2>2. KatiRan(p) /\ list = rules[katiSuffix[p]].files
    BY Zenon, <2>1 DEF Achieved, AfterKati
  <2>3. KatiRan(p)'
    BY Zenon, <2>1, <2>2 DEF KatiRan
  <2>4. CASE pc'[p] = "package"
    <3>1. Achieved(p)'
      BY Zenon, <2>1, <2>2, <2>3, <2>4 DEF Achieved, AfterKati, AfterCleanOld
    <3> QED BY Zenon, <2>1, <2>4, <3>1 DEF Recorded
  <2>5. CASE pc'[p] = "remove_old"
    <3>1. DOMAIN staged' \subseteq list' \cup todo'[p]
      BY Zenon, <2>1, <2>5 DEF Recorded
    <3>2. Achieved(p)'
      BY Zenon, <2>1, <2>2, <2>3, <2>5, <3>1 DEF Achieved, AfterKati, AfterCleanOld
    <3> QED BY Zenon, <2>1, <2>5, <3>2 DEF Recorded
  <2> QED BY Zenon, <2>1, <2>4, <2>5
<1>4. CASE removeOld(p)
  <2>1. /\ pc[p] = "remove_old" /\ job'[p] = job[p] /\ katiSuffix'[p] = katiSuffix[p]
        /\ UNCHANGED <<rules, config>>
        /\ \/ \E f \in todo[p] : /\ pc'[p] = "remove_old" /\ todo'[p] = todo[p] \ {f}
                                 /\ staged' = Without(f) /\ UNCHANGED <<list, previous>>
           \/ /\ pc'[p] = "package" /\ todo[p] = {} /\ staged' = staged
              /\ list # None => previous' = list
    BY <1>4 DEF removeOld, RenameList, Proceed, ProceedWith, Goto, ProcType
  <2>2. /\ KatiRan(p) /\ list = rules[katiSuffix[p]].files
        /\ DOMAIN staged \subseteq list \cup todo[p]
    BY <2>1 DEF Achieved, AfterKati
  <2>3. KatiRan(p)'
    BY Zenon, <2>1, <2>2 DEF KatiRan
  <2>4. ASSUME NEW f \in todo[p], pc'[p] = "remove_old", todo'[p] = todo[p] \ {f},
               staged' = Without(f), UNCHANGED <<list, previous>>
        PROVE  Achieved(p)' /\ Recorded'
    <3>1. DOMAIN staged' \subseteq list' \cup todo'[p]
      BY Zenon, <2>2, <2>4, WithoutType
    <3>2. Achieved(p)'
      BY Zenon, <2>1, <2>2, <2>3, <2>4, <3>1 DEF Achieved, AfterKati, AfterCleanOld
    <3> QED BY <2>1, <2>4, <3>2, WithoutRecorded
  <2>5. CASE /\ pc'[p] = "package" /\ todo[p] = {} /\ staged' = staged
             /\ list # None => previous' = list
    <3>1. katiSuffix[p] \in Products /\ rules[katiSuffix[p]] \in RuleFiles
      BY <2>2, <1>b, ProductType DEF KatiRan, Jobs, ListType
    <3>2. list # None
      BY <2>2, <3>1, NoneAssumption DEF RuleFiles
    <3>3. Achieved(p)'
      BY Zenon, <2>1, <2>2, <2>3, <2>5, <3>2 DEF Achieved, AfterKati, AfterCleanOld
    <3> QED BY <2>1, <2>2, <2>5, <3>2, <3>3 DEF Recorded
  <2> QED BY Zenon, <2>1, <2>4, <2>5
<1>5. CASE runKatiPackage(p)
  <2>1. /\ pc[p] \in {"package", "write_suffix"} /\ pc'[p] \in {"write_suffix", "combine"}
        /\ job'[p] = job[p] /\ katiSuffix'[p] = katiSuffix[p] /\ UNCHANGED <<rules, productOut>>
    BY <1>5 DEF runKatiPackage, Proceed, ProceedWith, Goto, ProcType
  <2>2. Achieved(p)'
    BY Zenon, <2>1 DEF Achieved, AfterKati, AfterCleanOld, KatiRan, Builds
  <2> QED BY <2>1, <2>2 DEF Recorded
<1>6. CASE loadKatiSuffix(p)
  <2>1. /\ pc[p] = "suffix" /\ pc'[p] = "combine" /\ job'[p] = job[p] /\ UNCHANGED productOut
    BY <1>6 DEF loadKatiSuffix, Goto, ProcType
  <2>2. ~Builds(p)'
    BY Zenon, <2>1 DEF JobOK, Builds
  <2>3. Achieved(p)'
    BY Zenon, <2>1, <2>2 DEF Achieved, AfterKati, AfterCleanOld
  <2> QED BY Zenon, <2>1, <2>3 DEF Recorded
<1>7. CASE createCombinedBuildNinjaFile(p)
  <2>1. /\ pc[p] \in {"combine", "template"} /\ pc'[p] \in {"template", "config", "ninja"}
        /\ job'[p] = job[p] /\ katiSuffix'[p] = katiSuffix[p] /\ UNCHANGED <<rules, productOut>>
        /\ pc'[p] = "ninja" => ~Builds(p)
    BY <1>7 DEF createCombinedBuildNinjaFile, SkipMake, Builds, Proceed, ProceedWith, Goto, ProcType
  <2>2. Achieved(p)'
    BY Zenon, <2>1 DEF Achieved, AfterKati, AfterCleanOld, KatiRan, Builds
  <2> QED BY Zenon, <2>1, <2>2 DEF Recorded
<1>8. CASE installCleanIfNecessary(p)
  <2>1. /\ pc[p] = "config" /\ job'[p] = job[p] /\ katiSuffix'[p] = katiSuffix[p]
        /\ UNCHANGED <<rules, productOut>>
        /\ \/ pc'[p] = "write_config" /\ config = None
           \/ pc'[p] = "ninja" /\ config = job[p].config
           \/ pc'[p] = "installclean" /\ todo'[p] = DOMAIN staged
    BY <1>8 DEF installCleanIfNecessary, Proceed, ProceedWith, Goto, ProcType
  <2>2. config = None => DOMAIN staged = {}
    BY NoneAssumption DEF Recorded, StagedType
  <2>3. Achieved(p)'
    BY <2>1, <2>2 DEF Achieved, AfterKati, AfterCleanOld, KatiRan, Builds
  <2> QED BY Zenon, <2>1, <2>3 DEF Recorded
<1>9. CASE installClean(p)
  <2>1. /\ pc[p] = "installclean" /\ job'[p] = job[p] /\ katiSuffix'[p] = katiSuffix[p]
        /\ UNCHANGED <<rules, list, previous, config>>
        /\ \/ \E f \in todo[p] : /\ pc'[p] = "installclean" /\ todo'[p] = todo[p] \ {f}
                                 /\ staged' = Without(f)
           \/ /\ pc'[p] = IF Builds(p) THEN "write_config" ELSE "done"
              /\ todo[p] = {} /\ staged' = staged
    BY <1>9 DEF installClean, Builds, Proceed, ProceedWith, Goto, ProcType
  <2>2. DOMAIN staged \subseteq todo[p]
    BY Zenon, <2>1 DEF Achieved
  <2>3. ASSUME NEW f \in todo[p], pc'[p] = "installclean", todo'[p] = todo[p] \ {f},
               staged' = Without(f)
        PROVE  Achieved(p)' /\ Recorded'
    <3>1. DOMAIN staged' \subseteq todo'[p]
      BY Zenon, <2>2, <2>3, WithoutType
    <3>2. Achieved(p)'
      BY Zenon, <2>1, <2>3, <3>1 DEF Achieved, AfterKati, AfterCleanOld, KatiRan, Builds
    <3> QED BY Zenon, <2>1, <2>3, <3>2, WithoutRecorded
  <2>4. CASE /\ pc'[p] = IF Builds(p) THEN "write_config" ELSE "done"
             /\ todo[p] = {} /\ staged' = staged
    <3>1. Achieved(p)'
      BY Zenon, <2>1, <2>2, <2>4 DEF Achieved, AfterKati, AfterCleanOld, KatiRan, Builds
    <3> QED BY Zenon, <2>1, <2>4, <3>1 DEF Recorded
  <2> QED BY Zenon, <2>1, <2>3, <2>4
<1>10. CASE writeConfig(p)
  <2>1. /\ pc[p] \in {"write_config", "writing_config"}
        /\ job'[p] = job[p] /\ katiSuffix'[p] = katiSuffix[p]
        /\ UNCHANGED <<rules, list, previous, staged>>
        /\ \/ pc'[p] = "writing_config"
           \/ pc'[p] = "ninja" /\ config' = job[p].config
    BY Zenon, <1>10, ProceedEffect DEF writeConfig
  <2>2. DOMAIN staged = {}
    BY Zenon, <2>1 DEF Achieved
  <2>3. Achieved(p)'
    BY Zenon, <2>1, <2>2 DEF Achieved, AfterKati, AfterCleanOld, KatiRan, Builds
  <2> QED BY Zenon, <2>1, <2>2, <2>3 DEF Recorded
<1>11. CASE runNinja(p)
  <2>1. /\ pc[p] = "ninja" /\ pc'[p] = "staging" /\ job'[p] = job[p]
        /\ katiSuffix'[p] = katiSuffix[p] /\ UNCHANGED <<rules, productOut>>
        /\ todo'[p] = IF Rules(p) = None THEN {} ELSE Rules(p).files
    BY Zenon, <1>11, <1>a DEF runNinja, Proceed, ProceedWith, Goto, ProcType
  <2>2. Rules(p)' = Rules(p)
    BY Zenon, <2>1 DEF Rules
  <2>3. CASE Builds(p)
    <3>1. KatiRan(p) /\ previous = rules[katiSuffix[p]].files /\ config = job[p].config
      BY Zenon, <2>1, <2>3 DEF Achieved, AfterCleanOld
    <3>2. katiSuffix[p] \in Products /\ rules[katiSuffix[p]] \in RuleFiles
      BY Zenon, <3>1, <1>b, ProductType DEF KatiRan, Jobs, ListType
    <3>3. Rules(p) = rules[katiSuffix[p]] /\ previous # None
      BY <3>1, <3>2, NoneIsNoProduct, NoneAssumption DEF Rules, RuleFiles
    <3>4. Achieved(p)'
      BY Zenon, <2>1, <2>2, <3>1, <3>3 DEF Achieved, AfterKati, AfterCleanOld, KatiRan, Builds
    <3> QED BY Zenon, <2>1, <3>4 DEF Recorded
  <2>4. CASE ~Builds(p)
    <3>1. SkipMake(p)
      BY <2>1, <2>4 DEF JobOK, NinjaSteps, SkipMake, Builds
    <3>2. Rules(p) # None =>
            Rules(p).config = config /\ previous # None /\ Rules(p).files \subseteq previous
      BY Zenon, <1>11, <3>1 DEF runNinja, Unrecorded
    <3>3. Achieved(p)'
      BY Zenon, <2>1, <2>2, <2>4, <3>2 DEF Achieved, AfterKati, AfterCleanOld, Builds
    <3> QED BY <2>1, <3>3 DEF Recorded
  <2> QED BY <2>3, <2>4
<1>12. CASE stage(p)
  <2>1. /\ pc[p] = "staging" /\ job'[p] = job[p] /\ katiSuffix'[p] = katiSuffix[p]
        /\ UNCHANGED <<rules, list, previous, config>>
        /\ \/ \E f \in todo[p] : /\ pc'[p] = "staging" /\ todo'[p] = todo[p] \ {f}
                                 /\ Rules(p) # None
                                 /\ \/ staged' = [g \in DOMAIN staged \cup {f} |->
                                            IF g = f THEN Rules(p).config ELSE staged[g]]
                                    \/ f \in DOMAIN staged /\ UNCHANGED staged
           \/ pc'[p] = "done" /\ todo[p] = {} /\ staged' = staged
    BY Zenon, <1>12, <1>a DEF stage, Proceed, ProceedWith, Goto, ProcType
  <2>2. Rules(p)' = Rules(p)
    BY <2>1 DEF Rules
  <2>3. ASSUME NEW f \in todo[p], pc'[p] = "staging", todo'[p] = todo[p] \ {f}, Rules(p) # None,
               \/ staged' = [g \in DOMAIN staged \cup {f} |->
                                IF g = f THEN Rules(p).config ELSE staged[g]]
               \/ f \in DOMAIN staged /\ UNCHANGED staged
        PROVE  Achieved(p)' /\ Recorded'
    <3>1. /\ Rules(p).config = config
          /\ previous # None /\ Rules(p).files \subseteq previous
          /\ todo[p] \subseteq Rules(p).files
      BY <2>1, <2>3 DEF Achieved
    <3>2. DOMAIN staged' = DOMAIN staged \cup {f}
      BY <2>3
    <3>3. \A g \in DOMAIN staged' : staged'[g] = config
      BY <2>3, <3>1 DEF Recorded
    <3>4. Recorded'
      BY <2>1, <3>1, <3>2, <3>3 DEF Recorded
    <3>5. Builds(p) => rules[katiSuffix[p]].files \subseteq DOMAIN staged' \cup todo'[p]
      BY <2>1, <2>3, <3>2 DEF Achieved
    <3>6. Achieved(p)'
      BY Zenon, <2>1, <2>2, <2>3, <3>1, <3>5 DEF Achieved, AfterKati, AfterCleanOld, KatiRan, Builds
    <3> QED BY <3>4, <3>6
  <2>4. CASE pc'[p] = "done" /\ todo[p] = {} /\ staged' = staged
    <3>1. Achieved(p)'
      BY <2>1, <2>4 DEF Achieved, AfterKati, AfterCleanOld, KatiRan, Builds
    <3> QED BY <2>1, <2>4, <3>1 DEF Recorded
  <2> QED BY Zenon, <2>1, <2>3, <2>4
<1>13. ~newLock(p) /\ ~tryLock(p) /\ ~checkDeadline(p) /\ ~clean(p) /\ ~Unlock(p) /\ ~Kill(p)
  BY Zenon, <1>a DEF Inside, LockSteps, CleanSteps, newLock, tryLock, checkDeadline, clean, Unlock, Kill
<1> QED BY <1>1, <1>2, <1>3, <1>4, <1>5, <1>6, <1>7, <1>8, <1>9, <1>10, <1>11, <1>12, <1>13
        DEF Build

\* A build that is alone finds what is staged recorded.
LEMMA AloneRecorded ==
    ASSUME IInv, ~spoiled, NEW p \in Procs, Inside(p)
    PROVE  Recorded
<1>1. \A q \in Procs : pc[q] # "clean_target"
  BY Alone DEF IInv, Cleaning, CleanSteps
<1> QED BY <1>1 DEF IInv, StagedOK, Recorded

\* A process inside that does not end takes a step of StepAchieved.
LEMMA InsideStep ==
    ASSUME IInv, NEW p \in Procs, Start(p) \/ Build(p) \/ Kill(p), Inside(p), ~spoiled'
    PROVE  /\ Recorded'
           /\ pc'[p] # "idle" => Achieved(p)'
<1> USE DEF IInv
<1>1. ~spoiled /\ Recorded /\ Achieved(p)
  BY SpoiledStays, AloneRecorded DEF AchievedOK
<1>2. ~Start(p) /\ ~clean(p) /\ ~newLock(p) /\ ~tryLock(p)
  BY Zenon DEF Inside, LockSteps, CleanSteps, Start, clean, newLock, tryLock
<1>3. CASE pc'[p] # "idle"
  BY <1>1, <1>2, <1>3, StepAchieved
<1>4. CASE pc'[p] = "idle"
  <2>1. UNCHANGED <<previous, config, staged>>
    <3>a. \A step, files : /\ Proceed(p, step) => pc'[p] = step
                           /\ ProceedWith(p, step, files) => pc'[p] = step
      BY DEF Proceed, ProceedWith, Goto, TypeOK, ProcType
    <3>1. ~runKatiList(p) /\ ~loadKatiSuffix(p)
      BY <1>4 DEF runKatiList, loadKatiSuffix, Goto, TypeOK, ProcType
    <3>2. ~runKatiRules(p) /\ ~runKatiPackage(p) /\ ~createCombinedBuildNinjaFile(p)
      BY Zenon, <1>4, <3>a DEF runKatiRules, runKatiPackage, createCombinedBuildNinjaFile
    <3>3. ~removeOld(p) /\ ~writeConfig(p) /\ ~installCleanIfNecessary(p)
      BY <1>4 DEF removeOld, writeConfig, installCleanIfNecessary, Proceed, ProceedWith, Goto,
                  TypeOK, ProcType
    <3>4. ~installClean(p)
      BY <1>4 DEF installClean, Proceed, ProceedWith, Goto, TypeOK, ProcType
    <3>5. cleanOldFiles(p) => UNCHANGED productOut
      BY Zenon, <1>4 DEF cleanOldFiles, Proceed, ProceedWith, Goto, TypeOK, ProcType
    <3>6. stage(p) => UNCHANGED productOut
      BY Zenon, <1>4 DEF stage, Proceed, ProceedWith, Goto, TypeOK, ProcType
    <3> QED BY Zenon, <1>2, <3>1, <3>2, <3>3, <3>4, <3>5, <3>6
            DEF Build, Kill, checkDeadline, runNinja, Unlock
  <2> QED BY <1>1, <1>4, <2>1 DEF Recorded
<1> QED BY <1>3, <1>4

LEMMA StagedStep ==
    ASSUME IInv, NEW p \in Procs, Start(p) \/ Build(p) \/ Kill(p)
    PROVE  StagedOK'
<1> SUFFICES ASSUME ~spoiled'
             PROVE  (\E q \in Procs : pc'[q] = "clean_target") \/ Recorded'
  BY DEF StagedOK, Recorded
<1> USE DEF IInv
<1>a. ~spoiled
  BY SpoiledStays
<1>b. (\E q \in Procs : pc[q] = "clean_target") \/ Recorded
  BY <1>a DEF StagedOK, Recorded
<1>c. \A q \in Procs \ {p} : pc'[q] = pc[q]
  BY Frame
<1>1. CASE Inside(p)
  BY <1>1, InsideStep
<1>2. CASE clean(p)
  <2>1. CASE pc[p] = "clean_target" /\ todo[p] = {} /\ pc'[p] = "idle" /\ UNCHANGED productOut
    <3>1. DOMAIN staged' = {}
      BY Zenon, <1>a, <2>1 DEF CleanOK
    <3> QED BY <3>1 DEF Recorded
  <2>2. CASE pc'[p] = "clean_target"
    BY <2>2
  <2>3. CASE pc[p] = "clean_lock" /\ UNCHANGED productOut
    BY <2>3, <1>b, <1>c DEF Recorded
  <2> QED BY Zenon, <1>2, <2>1, <2>2, <2>3, CleanMoves
<1>3. CASE ~Inside(p) /\ ~clean(p)
  <2>1. UNCHANGED productOut /\ pc[p] # "clean_target"
    BY <1>3, Outside DEF Cleaning, CleanSteps
  <2> QED BY <2>1, <1>b, <1>c DEF Recorded
<1> QED BY <1>1, <1>2, <1>3

LEMMA AchievedStep ==
    ASSUME IInv, NEW p \in Procs, Start(p) \/ Build(p) \/ Kill(p)
    PROVE  AchievedOK'
<1> SUFFICES ASSUME ~spoiled', NEW q \in Procs, Inside(q)'
             PROVE  Achieved(q)'
  BY DEF AchievedOK
<1> USE DEF IInv
<1>a. ~spoiled
  BY SpoiledStays
<1>1. CASE q = p
  <2>1. pc'[p] # "idle"
    BY <1>1 DEF Inside
  <2>2. CASE Inside(p)
    BY <1>1, <2>1, <2>2, InsideStep
  <2>3. CASE tryLock(p)
    BY SMTT(30), <1>1, <2>3, EnterAchieved
  <2>4. CASE ~Inside(p) /\ ~tryLock(p)
    <3>1. newLock(p) => ~Inside(p)'
      BY Zenon, LockMoves DEF Inside, LockSteps
    <3> QED BY SMTT(30), <1>1, <2>1, <2>4, <3>1, Moves, LockMoves
  <2> QED BY <2>2, <2>3, <2>4
<1>2. CASE q # p
  <2>1. /\ pc'[q] = pc[q] /\ job'[q] = job[q] /\ katiSuffix'[q] = katiSuffix[q]
        /\ todo'[q] = todo[q]
    BY Zenon, <1>2, Frame
  <2>2. Inside(q)
    BY Zenon, <2>1 DEF Inside
  <2>3. ~Inside(p) /\ ~clean(p)
    BY Zenon, <1>2, <1>a, <2>2, Alone, LockMoves
  <2>4. UNCHANGED <<ninjaFiles, productOut>>
    BY <2>3, Outside
  <2>5. Achieved(q)
    BY <2>2, <1>a DEF AchievedOK
  <2> QED BY Zenon, <2>1, <2>4, <2>5 DEF Achieved, AfterKati, AfterCleanOld, KatiRan, Builds, Rules
<1> QED BY <1>1, <1>2

\* The invariant is inductive.
THEOREM Invariant == Spec => []IInv
<1>1. IInv /\ [Next]_vars => IInv'
  <2> SUFFICES ASSUME IInv, [Next]_vars PROVE IInv'
    OBVIOUS
  <2>1. CASE UNCHANGED vars
    <3> USE <2>1 DEF vars, IInv
    <3>1. TypeOK'
      BY DEF TypeOK, ProcType, LockType, ListType, StagedType
    <3>2. LockOK' /\ AloneOK'
      BY DEF LockOK, AloneOK, Inside, Cleaning
    <3>3. CleanOK' /\ StagedOK' /\ JobOK'
      BY SMTT(30) DEF CleanOK, StagedOK, JobOK
    <3>4. AchievedOK'
      BY DEF AchievedOK, Achieved, AfterKati, AfterCleanOld, KatiRan, Builds, Rules, Inside
    <3> QED BY <3>1, <3>2, <3>3, <3>4
  <2>2. ASSUME NEW p \in Procs, Start(p) \/ Build(p) \/ Kill(p)
        PROVE  IInv'
    <3>1. TypeOK'
      BY <2>2, ProcTypeStep, FileTypeStep DEF IInv, TypeOK
    <3> QED BY <2>2, <3>1, LockStep, AloneStep, CleanStep, StagedStep, JobStep, AchievedStep
            DEF IInv
  <2> QED BY <2>1, <2>2 DEF Next
<1> QED BY InitInv, <1>1, PTL DEF Spec

\* Two builds are never inside together, unless a clean removed the lock file of
\* one of them: the lock of proc_sync.go, however many processes wait for it, are
\* killed or find it removed.
THEOREM Exclusive == Spec => []LockExclusive
<1>1. IInv => LockExclusive
  BY DEF IInv, LockOK, LockExclusive
<1> QED BY Invariant, <1>1, PTL

\* A build leaves the staging directory as a build from scratch would, whatever
\* builds of other configurations came before it and wherever they were killed,
\* with the exceptions of IncrementalIsClean.
THEOREM BuildsAreClean == Spec => []IncrementalIsClean
<1>1. IInv => IncrementalIsClean
  <2> SUFFICES ASSUME IInv, NEW p \in Procs, pc[p] = "done", Builds(p), ~spoiled
               PROVE  staged = [f \in rules[katiSuffix[p]].files |-> job[p].config]
    BY Zenon DEF IncrementalIsClean, Builds
  <2>1. Inside(p)
    BY DEF Inside, LockSteps, CleanSteps
  <2>2. Achieved(p) /\ Recorded
    BY <2>1, AloneRecorded DEF IInv, AchievedOK
  <2>3. /\ previous = rules[katiSuffix[p]].files /\ config = job[p].config
        /\ rules[katiSuffix[p]].files \subseteq DOMAIN staged
    BY <2>2 DEF Achieved, AfterCleanOld
  <2>4. DOMAIN staged = rules[katiSuffix[p]].files
    BY Zenon, <2>2, <2>3 DEF Recorded
  <2>5. \A f \in DOMAIN staged : staged[f] = job[p].config
    BY <2>2, <2>3 DEF Recorded
  <2>6. staged = [f \in DOMAIN staged |-> staged[f]]
    BY DEF IInv, TypeOK, StagedType
  <2> QED BY <2>4, <2>5, <2>6
<1> QED BY Invariant, <1>1, PTL

=============================================================================
