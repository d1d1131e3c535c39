----------------------------- MODULE MCPrograms -----------------------------
(***************************************************************************)
(* Instances for TLC of the programs that make and carry out the rules of  *)
(* a build: the parts of soong_build that MCSoongBuild describes, and the  *)
(* logs of soong_ui, soong_env, multiproduct_kati, sbox, soong_zip and     *)
(* merge_zips.  These share nothing either and are further parts of the    *)
(* same run.                                                               *)
(***************************************************************************)
EXTENDS MCSoongBuild

CONSTANTS Absent, Torn, Nil

-----------------------------------------------------------------------------
(* FileRotation: three processes that keep three backups.                  *)

F == INSTANCE FileRotation WITH
    Procs <- 1 .. 3, maxCount <- 3, MaxLogs <- 6, NoProc <- 0,
    slot <- s1, lock <- s2, pc <- s3, cur <- s4, created <- s5, refused <- s6

-----------------------------------------------------------------------------
(* SoongEnv: B is read only when A is set.                                 *)

EnvReads(e) == IF e["A"] = "" THEN {"A"} ELSE {"A", "B"}

E == INSTANCE SoongEnv WITH
    Envs <- [{"A", "B"} -> {"", "1"}], Reads <- EnvReads, MaxRuns <- 4, MaxEdits <- 1,
    pc <- s1, env <- s2, envDeps <- s3, envFile <- s4, envTool <- s5, ninja <- s6, source <- s7,
    clock <- s8, runs <- s9

-----------------------------------------------------------------------------
(* MultiProduct: two workers for up to three products.                     *)

ProductArgs ==
    [all : {<<"p", "q", "r">>}, include : {<< >>, <<"r", "p">>, <<"p", "s">>}, skip : {{}, {"q"}},
     shard : {0, 1, 2}, shardCount : {0, 1, 2}, keepArtifacts : BOOLEAN, incremental : BOOLEAN,
     alternateResultDir : BOOLEAN]

P == INSTANCE MultiProduct WITH
    Workers <- {1, 2}, Inputs <- ProductArgs,
    in <- s1, main <- s2, final <- s3, sent <- s4, products <- s5, worker <- s6, results <- s7,
    outDirs <- s8, zipped <- s9

-----------------------------------------------------------------------------
(* Sbox: two runs after each other of any two commands.                    *)

SboxArgs ==
    [outputs : {{}, {"a"}, {"a", "b"}}, depfile : BOOLEAN, copyAllOutput : BOOLEAN,
     outside : BOOLEAN, keepOutDir : BOOLEAN]

X == INSTANCE Sbox WITH
    Files <- {"a", "b", "d"}, Depfile <- "d", MaxRuns <- 2, Inputs <- SboxArgs,
    in <- s1, pc <- s2, runs <- s3, outputRoot <- s4, tempDir <- s5, todo <- s6, kept <- s7,
    rewritten <- s8

-----------------------------------------------------------------------------
(* ZipLayout: up to three files of a/b/c, META-INF/MANIFEST.MF and         *)
(* META-INF/x.                                                             *)

Dests == {"a", "a/b", "a/b/c", "META-INF", "META-INF/MANIFEST.MF", "META-INF/x"}
Outer == [d \in Dests \cup {"."} |->
    CASE d = "a/b" -> {"a"}
      [] d = "a/b/c" -> {"a", "a/b"}
      [] d \in {"META-INF/MANIFEST.MF", "META-INF/x"} -> {"META-INF"}
      [] OTHER -> {}]
Innermost == [d \in Dests |->
    CASE d = "a/b" -> "a"
      [] d = "a/b/c" -> "a/b"
      [] d \in {"META-INF/MANIFEST.MF", "META-INF/x"} -> "META-INF"
      [] OTHER -> "."]
Mappings == [dest : Dests, kind : {"file", "dir"}]
    \cup {[dest |-> ".", kind |-> "dir"], [dest |-> "a/b", kind |-> "missing"],
          [dest |-> "a/b", kind |-> "device"]}

L == INSTANCE ZipLayout WITH
    Dot <- ".", Parent <- Innermost, Above <- Outer,
    Alphabet <- <<".", "META-INF", "META-INF/MANIFEST.MF", "META-INF/x", "a", "a/b", "a/b/c">>,
    MetaDir <- "META-INF", ManifestFile <- "META-INF/MANIFEST.MF",
    Package <- [d \in Dests |-> IF d = "META-INF/x" THEN "a/b" ELSE d],
    Sources <- Mappings, MaxFiles <- 3,
    pathMappings <- s1, emulateJar <- s2, srcJar <- s3, directories <- s4, ignoreMissingFiles <- s5,
    next <- s6, createdDirs <- s7, createdFiles <- s8, written <- s9, err <- s10

-----------------------------------------------------------------------------
(* MergeZips: four archives, three of which may be open, as jars and as    *)
(* Python archives.                                                        *)

Meta == {"META-INF/", "META-INF/MANIFEST.MF", "META-INF/__init__.py", "META-INF/x"}
EntryNames == <<"META-INF/", "META-INF/MANIFEST.MF", "META-INF/__init__.py", "META-INF/x",
                "__init__.py", "__main__.py",
                "a", "a/__init__.py", "a/b/__init__.py", "a/b/c", "module-info.class">>
PackageOf == [n \in ToSet(EntryNames) \cup {"pkg a", "pkg b", "pkg meta"} |->
    CASE n \in Meta -> "pkg meta"
      [] n \in {"a/__init__.py", "pkg b"} -> "pkg a"
      [] n \in {"a/b/__init__.py", "a/b/c"} -> "pkg b"
      [] OTHER -> None]
InitFileOf == [p \in {"pkg a", "pkg b", "pkg meta", None} |->
    CASE p = "pkg a" -> "a/__init__.py"
      [] p = "pkg b" -> "a/b/__init__.py"
      [] p = "pkg meta" -> "META-INF/__init__.py"
      [] OTHER -> "__init__.py"]

Entry(n, data) == [name |-> n, dir |-> FALSE, data |-> data]
DirEntry(n) == [name |-> n, dir |-> TRUE, data |-> 0]
Jar1 == <<DirEntry("META-INF/"), Entry("META-INF/MANIFEST.MF", 1), Entry("module-info.class", 1)>>
Jar2 == <<Entry("META-INF/MANIFEST.MF", 2), Entry("a", 1), Entry("module-info.class", 2)>>
Clash == <<DirEntry("a"), Entry("META-INF/x", 1)>>
Par1 == <<Entry("a/b/c", 1), Entry("__main__.py", 2)>>
Par2 == <<Entry("a/b/__init__.py", 1), Entry("a/__init__.py", 2)>>
Par3 == <<Entry("__init__.py", 1), Entry("a/b/c", 1)>>

MergeArg(e, jar, par, sort, strip, ignore, dirs, files, not, man, py) ==
    [zips |-> <<1, 2, 3, 4>>, entries |-> e, emulateJar |-> jar, emulatePar |-> par,
     sortEntries |-> sort, stripDirEntries |-> strip, ignoreDuplicates |-> ignore,
     excludeDirs |-> dirs, excludeFiles |-> files, zipsToNotStrip |-> not,
     manifest |-> man, pyMain |-> py]

MergeArgs ==
    {MergeArg(<<e1, e2, Par1, e4>>, jar, FALSE, sort, strip, ignore, dirs, {}, not, man, None) :
        e1 \in {Jar1, Clash, << >>}, e2 \in {Jar2, Clash, None}, e4 \in {Jar1, Par3},
        jar \in BOOLEAN, sort \in BOOLEAN, strip \in BOOLEAN, ignore \in BOOLEAN,
        dirs \in {{}, {"META-INF"}}, not \in {{}, {1}}, man \in {None, 3}}
    \cup
    {MergeArg(<<e1, e2, e3, << >>>>, jar, TRUE, sort, FALSE, ignore, {}, files, {}, man, py) :
        e1 \in {Par1, Par2, Par3}, e2 \in {Par2, Par3, Clash, None}, e3 \in {Par1, Par3},
        sort \in BOOLEAN, jar \in BOOLEAN, ignore \in BOOLEAN, files \in {{}, {"a/b/c"}},
        man \in {None, Nil}, py \in {None, 2, 3, Nil}}
    \cup {MergeArg(<<Jar1, Par1, Par3, Jar2>>, FALSE, FALSE, FALSE, FALSE, FALSE, {}, {}, {}, None, 2)}

M == INSTANCE MergeZips WITH
    Zips <- {1, 2, 3, 4}, Dummy <- 0, Alphabet <- EntryNames, Package <- PackageOf,
    InitFile <- InitFileOf, MetaDir <- "META-INF/", ManifestFile <- "META-INF/MANIFEST.MF",
    ModuleInfoClass <- "module-info.class", MainFile <- "__main__.py", InMetaDir <- Meta,
    maxOpenZips <- 3, Inputs <- MergeArgs,
    in <- s1, pc <- s2, zip <- s3, index <- s4, sourceByDest <- s5, packages <- s6, list <- s7,
    out <- s8

-----------------------------------------------------------------------------
MCInit ==
    \/ Init
    \/ part = "logs" /\ F!Init /\ s7 = 0 /\ s8 = 0 /\ s9 = 0 /\ s10 = 0
    \/ part = "env" /\ E!Init /\ s10 = 0
    \/ part = "products" /\ P!Init /\ s10 = 0
    \/ part = "sbox" /\ X!Init /\ s9 = 0 /\ s10 = 0
    \/ part = "layout" /\ L!Init
    \/ part = "merge" /\ M!Init /\ s9 = 0 /\ s10 = 0

MCNext ==
    \/ Next
    \/ /\ UNCHANGED part
       /\ \/ part = "logs" /\ F!Next /\ UNCHANGED <<s7, s8, s9, s10>>
          \/ part = "env" /\ E!Next /\ UNCHANGED s10
          \/ part = "products" /\ P!Next /\ UNCHANGED s10
          \/ part = "sbox" /\ X!Next /\ UNCHANGED <<s9, s10>>
          \/ part = "layout" /\ L!Add
          \/ part = "merge" /\ M!Next /\ UNCHANGED <<s9, s10>>

MCSpec == MCInit /\ [][MCNext]_mcvars

-----------------------------------------------------------------------------
(* The properties, each stated in the module of its part.                  *)

\* FileRotation: the backups are in order and the most recent logs are kept
\* (ui/logger/logger.go).
RecentKept == part = "logs" => F!RecentKept

\* FileRotation: only the oldest log is lost (ui/logger/logger.go).
OnlyOldestLost == [][part = "logs" => F!LostIsOldest]_mcvars

\* SoongEnv: build.ninja is up to date with the environment (ui/build/soong.go,
\* android/env.go).
NinjaCurrent == part = "env" => E!NinjaCurrent

\* MultiProduct: each product is built, reported and kept as asked
\* (cmd/multiproduct_kati/main.go).
ProductsExact == part = "products" => P!ProductsExact

\* Sbox: the output directory has what the command declared (cmd/sbox/sbox.go).
OutputsExact == part = "sbox" => X!OutputsExact

\* ZipLayout: exactly the lists of files with a collision are refused (zip/zip.go).
ErrorsExact == part = "layout" => L!ErrorsExact

\* ZipLayout: the entries are distinct and in order (zip/zip.go).
EntriesOrdered == part = "layout" => L!EntriesOrdered

\* MergeZips: the output has the entries asked for (cmd/merge_zips/merge_zips.go).
MergeExact == part = "merge" => M!MergeExact

\* MergeZips: no more than maxOpenZips are open (cmd/merge_zips/merge_zips.go).
OpenZipsBounded == part = "merge" => M!OpenZipsBounded

=============================================================================
