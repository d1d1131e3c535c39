------------------------------- MODULE OutDir -------------------------------
(***************************************************************************)
(* Builds that share an output directory (ui/build/build.go,               *)
(* cleanbuild.go, kati.go, proc_sync.go).  A process takes the lock of the *)
(* directory, runs kati, removes what is no longer installed, clears the   *)
(* staging directory when the configuration changed, and runs ninja; clean *)
(* does not take the lock.  A process can be killed between any two of its *)
(* changes to the file system.                                             *)
(*                                                                         *)
(* The products share one device, hence one staging directory.  Kati and   *)
(* ninja are external: kati writes the list of installed files and the     *)
(* rules of a product; ninja stages the files of its rules, and nothing    *)
(* tells it that a file already there comes from another configuration.    *)
(* Soong, the variants of a list for asan and for tests, and the files     *)
(* that SetupOutDir creates are left out.                                  *)
(***************************************************************************)
EXTENDS Integers, FiniteSets

CONSTANTS
    Procs,
    Files,      \* the names of installed files
    Configs,    \* the configurations: a product and a variant
    Installs,   \* for each configuration, the lists it may install
    MaxRuns,    \* the number of commands that are run
    None, Torn  \* a file that does not exist, or was truncated and not written

ASSUME InstallsAssumption == Installs \in [Configs -> SUBSET SUBSET Files]

ASSUME NoneAssumption ==
    /\ None \notin Configs /\ Torn \notin Configs
    /\ \A c \in Configs : c.product # None
    /\ \A F \in SUBSET Files : F # None
    /\ \A r \in [config : Configs, files : SUBSET Files] : r # None

VARIABLES
    pc, job,    \* where a process is, and its command and configuration
    fd,         \* the lock file it opened, 0 if none
    katiSuffix, \* the product whose ninja files it uses
    todo,       \* the files it has still to remove or to stage
    runs,       \* the number of commands started
    lock,       \* the file out/.lock, 0 if there is none
    inodes,     \* the number of lock files ever created
    list, previous, \* .installable_files and .installable_files.previous
    config,     \* previous_build_config.mk
    rules,      \* the ninja files of kati for each product
    combined,   \* the combined ninja file for each product
    suffix,     \* last_kati_suffix
    staged,     \* the staging directory: the configuration each file is from
    removed,    \* the lock files that clean removed
    spoiled     \* a clean overlapped a build or was killed, rules were run
                \* whose installation is not recorded, or installclean was disabled

procVars == <<pc, job, fd, katiSuffix, todo, runs>>
lockVars == <<lock, inodes, removed>>
ninjaFiles == <<rules, combined, suffix>>
productOut == <<list, previous, config, staged>>
vars == <<procVars, lockVars, ninjaFiles, productOut, spoiled>>

Products == {c.product : c \in Configs}
Commands == {"build", "skip_make", "installclean", "clean"}
CleanSteps == {"clean_lock", "clean_top", "clean_target"}
LockSteps == {"open", "lock"}
Inside(p) == pc[p] \notin {"idle"} \cup LockSteps \cup CleanSteps
Cleaning(p) == pc[p] \in CleanSteps

-----------------------------------------------------------------------------
(* Steps.                                                                  *)

Goto(p, step) == pc' = [pc EXCEPT ![p] = step]

\* The process ends, and closes the lock file.
End(p) ==
    /\ Goto(p, "idle")
    /\ fd' = [fd EXCEPT ![p] = 0]
    /\ todo' = [todo EXCEPT ![p] = {}]
    /\ job' = [job EXCEPT ![p] = None]
    /\ katiSuffix' = [katiSuffix EXCEPT ![p] = None]
    /\ UNCHANGED runs

\* The process only goes on.
Proceed(p, step) == Goto(p, step) /\ UNCHANGED <<job, fd, katiSuffix, todo, runs>>

\* It goes on with a set of files to go through.
ProceedWith(p, step, files) ==
    /\ Goto(p, step)
    /\ todo' = [todo EXCEPT ![p] = files]
    /\ UNCHANGED <<job, fd, katiSuffix, runs>>

\* A command is given: clean takes no lock.
Start(p) ==
    /\ pc[p] = "idle"
    /\ runs < MaxRuns
    /\ runs' = runs + 1
    /\ \E o \in Commands, c \in Configs :
          /\ job' = [job EXCEPT ![p] = [command |-> o, config |-> c]]
          /\ Goto(p, IF o = "clean" THEN "clean_lock" ELSE "open")
          /\ spoiled' = (spoiled \/ (o = "clean" /\ \E q \in Procs : Inside(q)))
    /\ UNCHANGED <<fd, katiSuffix, todo, lockVars, ninjaFiles, productOut>>

newLock(p) ==
    /\ pc[p] = "open"
    /\ IF lock = 0
       THEN lock' = inodes + 1 /\ inodes' = inodes + 1
       ELSE UNCHANGED <<lock, inodes>>
    /\ fd' = [fd EXCEPT ![p] = lock']
    /\ Goto(p, "lock")
    /\ UNCHANGED <<job, katiSuffix, todo, runs, removed, ninjaFiles, productOut, spoiled>>

\* Whether flock would block: it locks the file, not its name.
Locked(p) == \E q \in Procs : Inside(q) /\ fd[q] = fd[p]

\* Mutant: the lock is shared.
tryLockShared(p) ==
    /\ pc[p] = "lock"
    /\ CASE job[p].command = "build" -> Proceed(p, "kati")
         [] job[p].command = "skip_make" -> Proceed(p, "suffix")
         [] job[p].command = "installclean" -> ProceedWith(p, "installclean", DOMAIN staged)
    /\ spoiled' = (spoiled \/ fd[p] \in removed \/ \E q \in Procs : Cleaning(q))
    /\ UNCHANGED <<lockVars, ninjaFiles, productOut>>

tryLock(p) ==
    /\ pc[p] = "lock"
    /\ ~Locked(p)
    /\ CASE job[p].command = "build" -> Proceed(p, "kati")
         [] job[p].command = "skip_make" -> Proceed(p, "suffix")
         [] job[p].command = "installclean" -> ProceedWith(p, "installclean", DOMAIN staged)
    /\ spoiled' = (spoiled \/ fd[p] \in removed \/ \E q \in Procs : Cleaning(q))
    /\ UNCHANGED <<lockVars, ninjaFiles, productOut>>

checkDeadline(p) ==
    /\ pc[p] = "lock"
    /\ Locked(p)
    /\ End(p)
    /\ UNCHANGED <<lockVars, ninjaFiles, productOut, spoiled>>

-----------------------------------------------------------------------------
(* Kati, and the files that are no longer installed.                       *)

\* Kati writes the list while it reads the makefiles, and the rules last.
runKatiList(p) ==
    /\ pc[p] = "kati"
    /\ list' \in Installs[job[p].config]
    /\ katiSuffix' = [katiSuffix EXCEPT ![p] = job[p].config.product]
    /\ todo' = [todo EXCEPT ![p] = list']
    /\ Goto(p, "kati_rules")
    /\ UNCHANGED <<job, fd, runs, lockVars, ninjaFiles, previous, config, staged, spoiled>>

runKatiRules(p) ==
    /\ pc[p] = "kati_rules"
    /\ rules' = [rules EXCEPT ![katiSuffix[p]] = [config |-> job[p].config, files |-> todo[p]]]
    /\ Proceed(p, "clean_old")
    /\ UNCHANGED <<lockVars, combined, suffix, productOut, spoiled>>

RenameList == previous' = list /\ list' = None

\* Mutant: the new list is the base before the old files are gone.
cleanOldFilesEarly(p) ==
    /\ pc[p] = "clean_old"
    /\ CASE list = None -> End(p) /\ UNCHANGED productOut
         [] list # None /\ previous = None ->
              Proceed(p, "package") /\ RenameList /\ UNCHANGED <<config, staged>>
         [] list # None /\ previous # None /\ list = previous ->
              Proceed(p, "package") /\ UNCHANGED productOut
         [] list # None /\ previous # None /\ list # previous ->
              ProceedWith(p, "remove_old", previous \ list) /\ RenameList
              /\ UNCHANGED <<config, staged>>
    /\ UNCHANGED <<lockVars, ninjaFiles, spoiled>>

cleanOldFiles(p) ==
    /\ pc[p] = "clean_old"
    /\ CASE list = None -> End(p) /\ UNCHANGED productOut
         [] list # None /\ previous = None ->
              Proceed(p, "package") /\ RenameList /\ UNCHANGED <<config, staged>>
         [] list # None /\ previous # None /\ list = previous ->
              Proceed(p, "package") /\ UNCHANGED productOut
         [] list # None /\ previous # None /\ list # previous ->
              ProceedWith(p, "remove_old", previous \ list) /\ UNCHANGED productOut
    /\ UNCHANGED <<lockVars, ninjaFiles, spoiled>>

Without(f) == [g \in DOMAIN staged \ {f} |-> staged[g]]

\* The last step replaces the old list; an error of this rename is ignored.
removeOld(p) ==
    /\ pc[p] = "remove_old"
    /\ \/ \E f \in todo[p] :
             /\ ProceedWith(p, "remove_old", todo[p] \ {f})
             /\ staged' = Without(f)
             /\ UNCHANGED <<list, previous>>
       \/ /\ todo[p] = {}
          /\ Proceed(p, "package")
          /\ IF list = None THEN UNCHANGED <<list, previous>> ELSE RenameList
          /\ UNCHANGED staged
    /\ UNCHANGED <<lockVars, ninjaFiles, config, spoiled>>

\* runKatiPackage, then ioutil.WriteFile, which truncates the file first.
runKatiPackage(p) ==
    /\ \/ pc[p] = "package" /\ suffix' = None /\ Proceed(p, "write_suffix")
       \/ pc[p] = "write_suffix" /\ suffix' = katiSuffix[p] /\ Proceed(p, "combine")
    /\ UNCHANGED <<lockVars, rules, combined, productOut, spoiled>>

-----------------------------------------------------------------------------
(* The combined ninja file.                                                *)

loadKatiSuffix(p) ==
    /\ pc[p] = "suffix"
    /\ katiSuffix' = [katiSuffix EXCEPT ![p] = suffix]
    /\ Goto(p, "combine")
    /\ UNCHANGED <<job, fd, todo, runs, lockVars, ninjaFiles, productOut, spoiled>>

SkipMake(p) == job[p].command = "skip_make"

createCombinedBuildNinjaFile(p) ==
    /\ \/ /\ pc[p] = "combine"
          /\ SkipMake(p) /\ combined[katiSuffix[p]] # None
          /\ Proceed(p, "ninja")
          /\ UNCHANGED combined
       \/ /\ pc[p] = "combine"
          /\ ~SkipMake(p) \/ combined[katiSuffix[p]] = None
          /\ combined' = [combined EXCEPT ![katiSuffix[p]] = Torn]
          /\ Proceed(p, "template")
       \/ /\ pc[p] = "template"
          /\ combined' = [combined EXCEPT ![katiSuffix[p]] = katiSuffix[p]]
          /\ Proceed(p, IF SkipMake(p) THEN "ninja" ELSE "config")
    /\ UNCHANGED <<lockVars, rules, suffix, productOut, spoiled>>

-----------------------------------------------------------------------------
(* Installclean.                                                           *)

installCleanIfNecessary(p) ==
    /\ pc[p] = "config"
    /\ \/ config = None /\ Proceed(p, "write_config") /\ UNCHANGED spoiled
       \/ config = job[p].config /\ Proceed(p, "ninja") /\ UNCHANGED spoiled
       \/ /\ config \notin {None, job[p].config}
          /\ ProceedWith(p, "installclean", DOMAIN staged)
          /\ UNCHANGED spoiled
       \/ \* DISABLE_AUTO_INSTALLCLEAN
          /\ config \notin {None, job[p].config}
          /\ Proceed(p, "ninja")
          /\ spoiled' = TRUE
    /\ UNCHANGED <<lockVars, ninjaFiles, productOut>>

\* RemoveAll of one file or directory after the other.
installClean(p) ==
    /\ pc[p] = "installclean"
    /\ \/ \E f \in todo[p] :
             ProceedWith(p, "installclean", todo[p] \ {f}) /\ staged' = Without(f)
       \/ /\ todo[p] = {}
          /\ Proceed(p, IF job[p].command = "build" THEN "write_config" ELSE "done")
          /\ UNCHANGED staged
    /\ UNCHANGED <<lockVars, ninjaFiles, list, previous, config, spoiled>>

writeConfig(p) ==
    /\ \/ pc[p] = "write_config" /\ config' = Torn /\ Proceed(p, "writing_config")
       \/ pc[p] = "writing_config" /\ config' = job[p].config /\ Proceed(p, "ninja")
    /\ UNCHANGED <<lockVars, ninjaFiles, list, previous, staged, spoiled>>

-----------------------------------------------------------------------------
(* Ninja.                                                                  *)

\* The rules the process runs; there are none without a suffix.
Rules(p) == IF katiSuffix[p] = None THEN None ELSE rules[katiSuffix[p]]

\* Rules that a build left without having gone on to installCleanIfNecessary,
\* or to the end of cleanOldFiles.
Unrecorded(p) ==
    Rules(p) # None
    => \/ Rules(p).config # config
       \/ previous = None
       \/ ~(Rules(p).files \subseteq previous)

\* Ninja loads the combined file, or fails.
runNinja(p) ==
    /\ pc[p] = "ninja"
    /\ IF combined[katiSuffix[p]] = katiSuffix[p] /\ (katiSuffix[p] # None => Rules(p) # None)
       THEN ProceedWith(p, "staging", IF Rules(p) = None THEN {} ELSE Rules(p).files)
       ELSE End(p)
    /\ spoiled' = (spoiled \/ (SkipMake(p) /\ Rules(p) # None /\ Unrecorded(p)))
    /\ UNCHANGED <<lockVars, ninjaFiles, productOut>>

\* A file that is already staged may look up to date.
stage(p) ==
    /\ pc[p] = "staging"
    /\ \/ \E f \in todo[p] :
             /\ ProceedWith(p, "staging", todo[p] \ {f})
             /\ Rules(p) # None
             /\ \/ staged' = [g \in DOMAIN staged \cup {f} |->
                                 IF g = f THEN Rules(p).config ELSE staged[g]]
                \/ f \in DOMAIN staged /\ UNCHANGED staged
       \/ /\ todo[p] # {} /\ Rules(p) = None
          /\ End(p)
          /\ UNCHANGED staged
       \/ todo[p] = {} /\ Proceed(p, "done") /\ UNCHANGED staged
    /\ UNCHANGED <<lockVars, ninjaFiles, list, previous, config, spoiled>>

Unlock(p) ==
    /\ pc[p] = "done"
    /\ End(p)
    /\ UNCHANGED <<lockVars, ninjaFiles, productOut, spoiled>>

-----------------------------------------------------------------------------
(* Clean, in the order of filepath.Glob: first .lock, last target/.        *)

clean(p) ==
    /\ \/ /\ pc[p] = "clean_lock"
          /\ removed' = removed \cup ({lock} \ {0})
          /\ lock' = 0
          /\ Proceed(p, "clean_top")
          /\ UNCHANGED <<ninjaFiles, productOut>>
       \/ /\ pc[p] = "clean_top"
          /\ rules' = [x \in Products |-> None]
          /\ combined' = [x \in Products \cup {None} |-> None]
          /\ suffix' = None
          /\ ProceedWith(p, "clean_target", Files \cup {"list", "previous", "config"})
          /\ UNCHANGED <<lock, removed, productOut>>
       \/ /\ pc[p] = "clean_target"
          /\ \E f \in todo[p] :
                /\ ProceedWith(p, "clean_target", todo[p] \ {f})
                /\ list' = IF f = "list" THEN None ELSE list
                /\ previous' = IF f = "previous" THEN None ELSE previous
                /\ config' = IF f = "config" THEN None ELSE config
                /\ staged' = Without(f)
          /\ UNCHANGED <<lock, removed, ninjaFiles>>
       \/ /\ pc[p] = "clean_target" /\ todo[p] = {}
          /\ End(p)
          /\ UNCHANGED <<lock, removed, ninjaFiles, productOut>>
    /\ UNCHANGED <<inodes, spoiled>>

\* The process is killed, or a step of it fails.
Kill(p) ==
    /\ pc[p] # "idle"
    /\ End(p)
    /\ spoiled' = (spoiled \/ Cleaning(p))
    /\ UNCHANGED <<lockVars, ninjaFiles, productOut>>

Build(p) ==
    \/ newLock(p) \/ tryLock(p) \/ checkDeadline(p)
    \/ runKatiList(p) \/ runKatiRules(p) \/ cleanOldFiles(p) \/ removeOld(p) \/ runKatiPackage(p)
    \/ loadKatiSuffix(p) \/ createCombinedBuildNinjaFile(p)
    \/ installCleanIfNecessary(p) \/ installClean(p) \/ writeConfig(p)
    \/ runNinja(p) \/ stage(p) \/ Unlock(p)
    \/ clean(p)

Init ==
    /\ pc = [p \in Procs |-> "idle"]
    /\ job = [p \in Procs |-> None]
    /\ fd = [p \in Procs |-> 0]
    /\ katiSuffix = [p \in Procs |-> None]
    /\ todo = [p \in Procs |-> {}]
    /\ runs = 0
    /\ lock = 0 /\ inodes = 0 /\ removed = {}
    /\ list = None /\ previous = None /\ config = None
    /\ rules = [x \in Products |-> None]
    /\ combined = [x \in Products \cup {None} |-> None]
    /\ suffix = None
    /\ staged = [f \in {} |-> None]
    /\ spoiled = FALSE

Next == \E p \in Procs : Start(p) \/ Build(p) \/ Kill(p)

Spec == Init /\ [][Next]_vars

-----------------------------------------------------------------------------
(* Properties.                                                             *)

\* "Make sure that no other Soong process is running with the same output
\* directory": two processes are past the lock only when a clean removed the
\* lock file of one of them, which the lock does not prevent.
LockExclusive ==
    \A p, q \in Procs : p # q /\ Inside(p) /\ Inside(q) => {fd[p], fd[q]} \cap removed # {}

\* An incremental build leaves what a build from scratch would: at the end of
\* a build the staging directory holds the files of the list, from the
\* configuration being built, and no others, whatever was built and killed
\* before.  What the code does not protect is excepted: a clean that overlaps a
\* build or is killed, --skip-make with rules that were not recorded, and
\* DISABLE_AUTO_INSTALLCLEAN.
IncrementalIsClean ==
    \A p \in Procs :
        pc[p] = "done" /\ job[p].command = "build" /\ ~spoiled =>
            staged = [f \in rules[katiSuffix[p]].files |-> job[p].config]

=============================================================================
