--------------------------- MODULE SoongEnvProofs ---------------------------
(***************************************************************************)
(* Proofs about the dependence of build.ninja on environment variables,    *)
(* for any environments, any reads and any number of runs and edits.       *)
(***************************************************************************)
EXTENDS SoongEnv, TLAPS

\* What soong_build records in the environment e.
Of(e) == [k \in Reads(e) |-> e[k]]

\* soong_build is deterministic: whether it reads a variable depends on those
\* it reads, so that an environment in which those have the same values is read
\* in the same way.
Deterministic ==
    \A e, f \in Envs : (\A k \in Reads(e) : e[k] = f[k]) => Reads(f) = Reads(e)

\* A file that is absent or torn is not one that was written.
Constants ==
    /\ Deterministic
    /\ \A e \in Envs : Of(e) # Torn
    /\ \A c, t : [contents |-> c, time |-> t] # Absent

-----------------------------------------------------------------------------
(* The inductive invariant.                                                *)

\* A file has its contents and a time that has passed.
IsFileAt(f, now) ==
    /\ f = [contents |-> f.contents, time |-> f.time]
    /\ f.time \in Nat /\ f.time <= now

IsFile(f) == IsFileAt(f, clock)

TypeOK ==
    /\ env \in Envs
    /\ clock \in Nat
    /\ IsFile(source)
    /\ Exists(envFile) => IsFile(envFile)
    /\ Exists(ninja) => IsFile(ninja) /\ ninja.contents.deps = {"env"}

\* A file of variables is that of some environment.
EnvFileOK ==
    Exists(envFile) => envFile.contents = Torn \/ \E e \in Envs : envFile.contents = Of(e)

\* The order of the last changes tells what build.ninja was made from.
TimesOK ==
    Exists(ninja) =>
        /\ source.time <= ninja.time => ninja.contents.source = source.contents
        /\ Exists(envFile) /\ envFile.time <= ninja.time =>
               envFile.contents = ninja.contents.env

\* What the run has done so far.
RunOK ==
    /\ pc = "bootstrap" /\ Exists(envFile) => ~StaleEnvFile
    /\ pc = "analysis" =>
           /\ DOMAIN envDeps \subseteq Reads(env)
           /\ envDeps = [k \in DOMAIN envDeps |-> env[k]]
    /\ pc \in {"write_env", "write_ninja"} => envDeps = Of(env) /\ Exists(envFile)
    /\ pc = "write_ninja" => envFile.contents = Of(env)
    /\ NinjaCurrent

IInv == TypeOK /\ EnvFileOK /\ TimesOK /\ RunOK

-----------------------------------------------------------------------------

LEMMA InitInv ==
    ASSUME Constants, Init
    PROVE  IInv
BY DEF Constants, Init, IInv, TypeOK, IsFile, IsFileAt, EnvFileOK, TimesOK, RunOK, NinjaCurrent,
       Exists

\* A new file is newer than all the others.
LEMMA WriteNew ==
    ASSUME Constants, clock \in Nat, Tick, NEW c
    PROVE  /\ Write(c).contents = c
           /\ Exists(Write(c)) /\ IsFileAt(Write(c), clock')
           /\ \A f : IsFile(f) => IsFileAt(f, clock') /\ f.time < Write(c).time
BY DEF Constants, Tick, Write, Exists, IsFile, IsFileAt

\* The steps that change no file.
LEMMA QuietStep ==
    ASSUME Constants, IInv,
           \/ \E e \in Envs : start(e)
           \/ \E k \in UNION {Reads(e) : e \in Envs} : Getenv(k)
           \/ fail \/ finish
    PROVE  IInv'
<1>1. UNCHANGED <<envFile, ninja, source, clock>>
  BY Zenon DEF start, Getenv, fail, finish
<1>2. env' \in Envs
  BY Zenon DEF start, Getenv, fail, finish, IInv, TypeOK
<1>3. TypeOK' /\ EnvFileOK' /\ TimesOK'
  BY <1>1, <1>2 DEF IInv, TypeOK, IsFile, EnvFileOK, TimesOK, Exists
<1>4. RunOK'
  <2>1. CASE pc' \in {"check", "idle"}
    BY <2>1 DEF RunOK, NinjaCurrent
  <2>2. ASSUME NEW k, Getenv(k) PROVE RunOK'
    <3>1. /\ pc' = "analysis" /\ pc = "analysis" /\ k \in Reads(env) /\ env' = env
          /\ envDeps' = [j \in DOMAIN envDeps \cup {k} |-> IF j = k THEN env[k] ELSE envDeps[j]]
      BY <2>2 DEF Getenv
    <3>2. /\ DOMAIN envDeps \subseteq Reads(env)
          /\ \A j \in DOMAIN envDeps : envDeps[j] = env[j]
      BY <3>1 DEF IInv, RunOK
    <3>3. envDeps' = [j \in DOMAIN envDeps \cup {k} |-> env[j]]
      BY <3>1, <3>2
    <3> QED BY <3>1, <3>2, <3>3 DEF RunOK, NinjaCurrent
  <2> QED BY <2>1, <2>2 DEF start, fail, finish
<1> QED BY <1>3, <1>4 DEF IInv

\* The check removes a file that is stale.
LEMMA CheckStep ==
    ASSUME Constants, IInv, checkEnvironment
    PROVE  IInv'
<1>1. UNCHANGED <<ninja, source, clock, env>> /\ pc' = "bootstrap"
  BY DEF checkEnvironment
<1>2. \/ envFile' = Absent
      \/ envFile' = envFile /\ (Exists(envFile) => ~StaleEnvFile)
  BY DEF checkEnvironment
<1>3. TypeOK' /\ EnvFileOK' /\ TimesOK'
  BY <1>1, <1>2 DEF IInv, TypeOK, IsFile, EnvFileOK, TimesOK, Exists
<1>4. RunOK'
  BY <1>1, <1>2 DEF RunOK, NinjaCurrent, Exists, StaleEnvFile
<1> QED BY <1>3, <1>4 DEF IInv

\* A file of variables that is not stale is the one that soong_build would write.
LEMMA FreshIsCurrent ==
    ASSUME Constants, IInv, Exists(envFile), ~StaleEnvFile
    PROVE  envFile.contents = Of(env)
<1>1. PICK e \in Envs : envFile.contents = Of(e)
  BY DEF IInv, EnvFileOK, StaleEnvFile
<1>2. \A k \in Reads(e) : e[k] = env[k]
  BY <1>1 DEF StaleEnvFile, Of
<1>3. Reads(env) = Reads(e)
  BY <1>2 DEF Constants, Deterministic, IInv, TypeOK
<1> QED BY <1>1, <1>2, <1>3 DEF Of

\* ninja runs soong_build unless build.ninja is current.
LEMMA BootstrapStep ==
    ASSUME Constants, IInv, bootstrap
    PROVE  IInv'
<1>1. UNCHANGED <<envFile, ninja, source, clock, env>> /\ pc = "bootstrap"
  BY DEF bootstrap
<1>2. TypeOK' /\ EnvFileOK' /\ TimesOK'
  BY <1>1 DEF IInv, TypeOK, IsFile, EnvFileOK, TimesOK, Exists
<1>3. CASE Dirty
  <2>1. pc' = "analysis" /\ envDeps' = << >>
    BY <1>3 DEF bootstrap
  <2>2. DOMAIN envDeps' = {} /\ envDeps' = [k \in {} |-> env'[k]]
    BY <2>1
  <2>3. RunOK'
    BY <2>1, <2>2 DEF RunOK, NinjaCurrent
  <2> QED BY <1>2, <2>3 DEF IInv
<1>4. CASE ~Dirty
  <2>1. pc' = "done"
    BY <1>4 DEF bootstrap
  <2>2. Exists(ninja) /\ IsFile(ninja) /\ IsFile(source) /\ ninja.contents.deps = {"env"}
    BY <1>4 DEF Dirty, IInv, TypeOK
  <2>3. Exists(envFile) /\ IsFile(envFile)
    BY <1>4, <2>2 DEF Dirty, IInv, TypeOK
  <2>4. envFile.time <= ninja.time /\ source.time <= ninja.time
    BY <1>4, <2>2, <2>3 DEF Dirty, IsFile, IsFileAt
  <2>5. ninja.contents.source = source.contents /\ envFile.contents = ninja.contents.env
    BY <2>2, <2>3, <2>4 DEF IInv, TimesOK
  <2>6. envFile.contents = Of(env)
    BY <1>1, <2>3, FreshIsCurrent DEF IInv, RunOK
  <2>7. NinjaCurrent'
    BY <1>1, <2>5, <2>6 DEF NinjaCurrent, Of
  <2>8. RunOK'
    BY <2>1, <2>7 DEF RunOK
  <2> QED BY <1>2, <2>8 DEF IInv
<1> QED BY <1>3, <1>4

\* The file of variables is newer than build.ninja while it is written.
LEMMA EnvStep ==
    ASSUME Constants, IInv, EnvSingleton
    PROVE  IInv'
<1>1. UNCHANGED <<ninja, source, env, envDeps>> /\ Tick
  BY DEF EnvSingleton
<1>2. PICK c : /\ envFile' = Write(c)
               /\ \/ pc = "analysis" /\ pc' = "write_env" /\ c = Torn
                  \/ pc = "write_env" /\ pc' = "write_ninja" /\ c = Of(env)
  BY DEF EnvSingleton, IInv, RunOK
<1>3. envDeps = Of(env)
  <2>1. CASE pc = "analysis"
    <3>1. Reads(env) = DOMAIN envDeps
      BY <2>1 DEF EnvSingleton
    <3> QED BY <2>1, <3>1 DEF IInv, RunOK, Of
  <2>2. CASE pc # "analysis"
    BY <1>2, <2>2 DEF IInv, RunOK
  <2> QED BY <2>1, <2>2
<1>4. /\ Exists(envFile') /\ IsFileAt(envFile', clock') /\ envFile'.contents = c
      /\ \A f : IsFile(f) => IsFileAt(f, clock') /\ f.time < envFile'.time
  BY <1>1, <1>2, WriteNew DEF IInv, TypeOK
<1>5. TypeOK'
  BY <1>1, <1>4 DEF IInv, TypeOK, Exists, Tick, IsFile
<1>6. EnvFileOK'
  BY <1>2, <1>4 DEF EnvFileOK, IInv, TypeOK
<1>7. TimesOK'
  BY <1>1, <1>4 DEF TimesOK, IInv, TypeOK, Exists, IsFile, IsFileAt
<1>8. RunOK'
  BY <1>1, <1>2, <1>3, <1>4 DEF RunOK, NinjaCurrent, Of, Exists
<1> QED BY <1>5, <1>6, <1>7, <1>8 DEF IInv

\* build.ninja is made from the current sources and variables.
LEMMA WriteStep ==
    ASSUME Constants, IInv, writeNinja
    PROVE  IInv'
<1> DEFINE c == [source |-> source.contents, env |-> envDeps, deps |-> {"env"}]
<1>1. /\ UNCHANGED <<envFile, source, env, envDeps>> /\ Tick
      /\ ninja' = Write(c) /\ pc = "write_ninja" /\ pc' = "done"
  BY DEF writeNinja
<1>2. /\ Exists(ninja') /\ IsFileAt(ninja', clock') /\ ninja'.contents = c
      /\ \A f : IsFile(f) => IsFileAt(f, clock') /\ f.time < ninja'.time
  BY <1>1, WriteNew DEF IInv, TypeOK
<1>3. envDeps = Of(env) /\ envFile.contents = Of(env)
  BY <1>1 DEF IInv, RunOK
<1>4. TypeOK' /\ EnvFileOK'
  BY <1>1, <1>2 DEF IInv, TypeOK, EnvFileOK, Exists, Tick, IsFile
<1>5. TimesOK' /\ NinjaCurrent'
  BY <1>1, <1>2, <1>3 DEF TimesOK, NinjaCurrent, Of
<1>6. RunOK'
  BY <1>1, <1>5 DEF RunOK
<1> QED BY <1>4, <1>5, <1>6 DEF IInv

\* Sources that change are newer than build.ninja.
LEMMA EditStep ==
    ASSUME Constants, IInv, edit
    PROVE  IInv'
<1>1. UNCHANGED <<envFile, ninja, env>> /\ pc' = "idle"
  BY DEF edit
<1>2. RunOK'
  BY <1>1 DEF RunOK, NinjaCurrent
<1>3. CASE UNCHANGED <<source, clock>>
  <2>1. TypeOK' /\ EnvFileOK' /\ TimesOK'
    BY <1>1, <1>3 DEF IInv, TypeOK, IsFile, EnvFileOK, TimesOK, Exists
  <2> QED BY <1>2, <2>1 DEF IInv
<1>4. CASE Tick /\ source' = Write(source.contents + 1)
  <2>1. IsFileAt(source', clock') /\ \A f : IsFile(f) => IsFileAt(f, clock') /\ f.time < source'.time
    BY <1>4, WriteNew DEF IInv, TypeOK
  <2>2. TypeOK' /\ EnvFileOK'
    BY <1>1, <1>4, <2>1 DEF IInv, TypeOK, EnvFileOK, Exists, Tick, IsFile
  <2>3. TimesOK'
    BY <1>1, <2>1 DEF IInv, TypeOK, TimesOK, Exists, IsFile, IsFileAt
  <2> QED BY <1>2, <2>2, <2>3 DEF IInv
<1> QED BY <1>3, <1>4 DEF edit

\* The invariant is inductive.
LEMMA Inductive ==
    ASSUME Constants
    PROVE  IInv /\ [Next]_vars => IInv'
<1> SUFFICES ASSUME IInv, [Next]_vars PROVE IInv'
  OBVIOUS
<1>1. CASE UNCHANGED vars
  BY <1>1 DEF vars, IInv, TypeOK, IsFile, EnvFileOK, TimesOK, RunOK, NinjaCurrent, StaleEnvFile,
              Exists
<1>2. CASE Next
  BY <1>2, QuietStep, CheckStep, BootstrapStep, EnvStep, WriteStep, EditStep DEF Next
<1> QED BY <1>1, <1>2

\* A run of runSoong that succeeds leaves the build.ninja that soong_build would
\* write now, whatever earlier runs were killed at and in whatever environments
\* they ran, if soong_build is deterministic.
THEOREM NinjaIsCurrent ==
    ASSUME Constants
    PROVE  Spec => []NinjaCurrent
<1>1. Init => IInv
  BY InitInv
<1>2. IInv => NinjaCurrent
  BY DEF IInv, RunOK
<1> QED BY <1>1, <1>2, Inductive, PTL DEF Spec

=============================================================================
