------------------------------ MODULE SoongEnv ------------------------------
(***************************************************************************)
(* The dependence of build.ninja on environment variables.  soong_build    *)
(* records each variable it reads (config.Getenv) and writes their values  *)
(* to .soong.environment (android/env.go); runSoong (ui/build/soong.go)    *)
(* compares that file with its environment, with the tool soong_env, and   *)
(* removes it when they differ, so that ninja runs soong_build again.  A   *)
(* process may be killed between any two of its changes to the files, and  *)
(* soong_build may fail.                                                   *)
(*                                                                         *)
(* ninja and the writing of build.ninja are external: ninja runs           *)
(* soong_build when build.ninja is missing or a file it depends on is      *)
(* missing or newer.  A file has its contents and the time of its last     *)
(* change; no two changes have the same time.                              *)
(***************************************************************************)
EXTENDS Integers

CONSTANTS
    Envs,     \* environments; a variable that is not set is ""
    Reads(_), \* the variables that soong_build reads in an environment
    MaxRuns,  \* the number of times runSoong is called
    MaxEdits, \* the number of times the sources change
    Absent, Torn

VARIABLES
    pc,
    env,      \* of the current run
    envDeps,  \* config.envDeps of the running soong_build
    envFile,  \* .soong.environment
    envTool,  \* the tool soong_env exists
    ninja,    \* build.ninja: the sources and the variables it was made from
    source,   \* the sources: their version and the time of their last change
    clock, runs

vars == <<pc, env, envDeps, envFile, envTool, ninja, source, clock, runs>>

Exists(f) == f # Absent
Write(contents) == [contents |-> contents, time |-> clock + 1]
Tick == clock' = clock + 1

-----------------------------------------------------------------------------
(* runSoong.                                                               *)

start(e) ==
    /\ pc = "idle" /\ runs < MaxRuns
    /\ env' = e
    /\ runs' = runs + 1
    /\ pc' = "check"
    /\ UNCHANGED <<envDeps, envFile, envTool, ninja, source, clock>>

\* Mutant: an entry that is not set now counts as unchanged.
StaleEnvFileSet ==
    \/ envFile.contents = Torn
    \/ \E k \in DOMAIN envFile.contents : env[k] \notin {envFile.contents[k], ""}

\* env.StaleEnvFile: the contents cannot be parsed, or a variable changed.
StaleEnvFile ==
    \/ envFile.contents = Torn
    \/ \E k \in DOMAIN envFile.contents : envFile.contents[k] # env[k]

\* The environment check.
checkEnvironment ==
    /\ pc = "check"
    /\ pc' = "bootstrap"
    /\ envFile' = IF Exists(envFile) /\ (~envTool \/ StaleEnvFile) THEN Absent ELSE envFile
    /\ UNCHANGED <<env, envDeps, envTool, ninja, source, clock, runs>>

\* ninja builds the tools, and then runs soong_build if it must.
Dirty ==
    \/ ~Exists(ninja)
    \/ ~Exists(envFile) /\ "env" \in ninja.contents.deps
    \/ Exists(envFile) /\ "env" \in ninja.contents.deps /\ envFile.time > ninja.time
    \/ source.time > ninja.time

bootstrap ==
    /\ pc = "bootstrap"
    /\ envTool' = TRUE
    /\ pc' = IF Dirty THEN "analysis" ELSE "done"
    /\ envDeps' = << >>
    /\ UNCHANGED <<env, envFile, ninja, source, clock, runs>>

-----------------------------------------------------------------------------
(* soong_build.                                                            *)

\* config.Getenv records the value of a variable that it had not read before.
Getenv(k) ==
    /\ pc = "analysis" /\ k \in Reads(env) \ DOMAIN envDeps
    /\ envDeps' = [j \in DOMAIN envDeps \cup {k} |-> IF j = k THEN env[k] ELSE envDeps[j]]
    /\ UNCHANGED <<pc, env, envFile, envTool, ninja, source, clock, runs>>

\* EnvSingleton truncates the file and writes it, when nothing failed before.
\* EnvDeps() has frozen the variables: to read another one is a panic.
EnvSingleton ==
    \/ /\ pc = "analysis" /\ Reads(env) = DOMAIN envDeps
       /\ pc' = "write_env"
       /\ envFile' = Write(Torn) /\ Tick
       /\ UNCHANGED <<env, envDeps, envTool, ninja, source, runs>>
    \/ /\ pc = "write_env"
       /\ pc' = "write_ninja"
       /\ envFile' = Write(envDeps) /\ Tick
       /\ UNCHANGED <<env, envDeps, envTool, ninja, source, runs>>

\* bootstrap.Main writes build.ninja, with the dependencies of AddNinjaFileDeps.
writeNinja ==
    /\ pc = "write_ninja"
    /\ pc' = "done"
    /\ ninja' = Write([source |-> source.contents, env |-> envDeps, deps |-> {"env"}]) /\ Tick
    /\ UNCHANGED <<env, envDeps, envFile, envTool, source, runs>>

-----------------------------------------------------------------------------
(* Between the steps.                                                      *)

\* The process is killed, or soong_build reports an error.
fail ==
    /\ pc \notin {"idle", "done"}
    /\ pc' = "idle"
    /\ UNCHANGED <<env, envDeps, envFile, envTool, ninja, source, clock, runs>>

finish ==
    /\ pc = "done"
    /\ pc' = "idle"
    /\ UNCHANGED <<env, envDeps, envFile, envTool, ninja, source, clock, runs>>

\* The sources change, or the tool is removed with the rest of what was bootstrapped.
edit ==
    /\ pc = "idle"
    /\ \/ /\ source.contents < MaxEdits
          /\ source' = Write(source.contents + 1) /\ Tick
          /\ UNCHANGED envTool
       \/ envTool /\ envTool' = FALSE /\ UNCHANGED <<source, clock>>
    /\ UNCHANGED <<pc, env, envDeps, envFile, ninja, runs>>

Init ==
    /\ pc = "idle"
    /\ env \in Envs
    /\ envDeps = << >>
    /\ envFile = Absent /\ envTool = FALSE /\ ninja = Absent
    /\ source = [contents |-> 0, time |-> 0]
    /\ clock = 0 /\ runs = 0

Next ==
    \/ \E e \in Envs : start(e)
    \/ checkEnvironment \/ bootstrap
    \/ \E k \in UNION {Reads(e) : e \in Envs} : Getenv(k)
    \/ EnvSingleton \/ writeNinja
    \/ fail \/ finish \/ edit

Spec == Init /\ [][Next]_vars

-----------------------------------------------------------------------------
(* Properties.                                                             *)

\* When runSoong succeeds, build.ninja is what soong_build would write from the
\* current sources and environment, whatever the runs before it were killed at and
\* in whatever environments they ran; and the file of the variables describes it.
NinjaCurrent ==
    pc = "done" =>
        /\ ninja.contents.source = source.contents
        /\ ninja.contents.env = [k \in Reads(env) |-> env[k]]
        /\ envFile.contents = ninja.contents.env

=============================================================================
