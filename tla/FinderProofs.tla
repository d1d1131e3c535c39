---------------------------- MODULE FinderProofs ----------------------------
(***************************************************************************)
(* Proofs about the Finder, for every tree of directories, every set of    *)
(* file names and every number of changes of the file system.              *)
(***************************************************************************)
EXTENDS Finder, TLAPS

USE DEF Nodes, Stamps

\* The records dumpDb writes and NoDb and TornDb are databases.
LEMMA DbTypes == TypeOK => NoDb \in DbType /\ TornDb \in DbType /\ serializeDb \in DbType
<1> SUFFICES ASSUME TypeOK
             PROVE  NoDb \in DbType /\ TornDb \in DbType /\ serializeDb \in DbType
  OBVIOUS
<1> DEFINE Entry == [T : Stamps, F : SUBSET FileNames]
<1>1. NoEntries \in [{} -> Entry]
  BY DEF NoEntries
<1>2. NoDb \in DbType /\ TornDb \in DbType
  BY <1>1 DEF NoDb, TornDb, DbType
<1>3. DirEntries \in SUBSET Dirs
  BY DEF DirEntries
<1>4. [d \in DirEntries |-> [T |-> mod[d], F |-> names[d]]] \in [DirEntries -> Entry]
  BY <1>3 DEF TypeOK
<1>5. serializeDb \in DbType
  BY <1>3, <1>4 DEF serializeDb, DbType, TypeOK
<1> QED BY <1>2, <1>5

\* Touching inodes with a time in range keeps times in range.
LEMMA TouchType ==
    ASSUME NEW times \in [Dirs -> Stamps], NEW ds, NEW t \in Stamps
    PROVE  Touch(times, ds, t) \in [Dirs -> Stamps]
BY DEF Touch

\* The file system keeps the types of its variables.
LEMMA FileSystemType == TypeOK /\ FileSystem => TypeOK'
<1> SUFFICES ASSUME TypeOK, FileSystem PROVE TypeOK'
  OBVIOUS
<1> USE DEF finderVars, dbVars, taskVars, treeVars
<1>1. PICK d \in Dirs : \/ Mkdir(d)
                        \/ RemoveAll(d)
                        \/ \E f \in FileNames : ChangeFiles(d, f)
                        \/ Chmod(d)
  BY DEF FileSystem
<1>2. CASE Mkdir(d)
  <2>1. PICK t \in Stamps : /\ Tick(t)
                            /\ mtime' = Touch(mtime, {d, Parent[d]}, t)
                            /\ ctime' = Touch(ctime, {d, Parent[d]}, t)
    BY <1>2 DEF Mkdir, Written
  <2>2. mtime' \in [Dirs -> Stamps] /\ ctime' \in [Dirs -> Stamps]
    BY <2>1, TouchType DEF TypeOK
  <2> QED BY <1>2, <2>1, <2>2 DEF Mkdir, Tick, TypeOK
<1>3. CASE RemoveAll(d)
  <2>1. PICK t \in Stamps :
            /\ Tick(t)
            /\ mtime' = [x \in Dirs |-> IF d \in Above[x] THEN 0
                                        ELSE Touch(mtime, {Parent[d]}, t)[x]]
            /\ ctime' = [x \in Dirs |-> IF d \in Above[x] THEN 0
                                        ELSE Touch(ctime, {Parent[d]}, t)[x]]
    BY <1>3 DEF RemoveAll
  <2>2. /\ Touch(mtime, {Parent[d]}, t) \in [Dirs -> Stamps]
        /\ Touch(ctime, {Parent[d]}, t) \in [Dirs -> Stamps]
    BY TouchType DEF TypeOK
  <2>3. 0 \in Stamps
    BY BoundAssumption
  <2>4. mtime' \in [Dirs -> Stamps] /\ ctime' \in [Dirs -> Stamps]
    BY <2>1, <2>2, <2>3
  <2> QED BY <1>3, <2>1, <2>4 DEF RemoveAll, Tick, TypeOK
<1>4. ASSUME NEW f \in FileNames, ChangeFiles(d, f) PROVE TypeOK'
  <2>1. PICK t \in Stamps : /\ Tick(t)
                            /\ mtime' = Touch(mtime, {d}, t)
                            /\ ctime' = Touch(ctime, {d}, t)
    BY <1>4 DEF ChangeFiles, Written
  <2>2. mtime' \in [Dirs -> Stamps] /\ ctime' \in [Dirs -> Stamps]
    BY <2>1, TouchType DEF TypeOK
  <2>3. files' \in [Dirs -> SUBSET FileNames]
    BY <1>4 DEF ChangeFiles, TypeOK
  <2> QED BY <1>4, <2>1, <2>2, <2>3 DEF ChangeFiles, Tick, TypeOK
<1>5. CASE Chmod(d)
  <2>1. PICK t \in Stamps : Tick(t) /\ ctime' = Touch(ctime, {d}, t)
    BY <1>5 DEF Chmod
  <2>2. ctime' \in [Dirs -> Stamps]
    BY <2>1, TouchType DEF TypeOK
  <2>3. readable' \in [Dirs -> BOOLEAN]
    BY <1>5 DEF Chmod, TypeOK
  <2> QED BY <1>5, <2>1, <2>2, <2>3 DEF Chmod, Tick, TypeOK
<1> QED BY <1>1, <1>2, <1>3, <1>4, <1>5

\* How the phases of New constrain the rest of the state.
Phases ==
    /\ phase = "loading" => toLoad \subseteq DOMAIN db.entries /\ include = db.params
    /\ phase # "loading" => toWalk = {}
    /\ phase # "walking" => lists = {}
    /\ phase \in {"off", "loading", "walking"} => dump = "none"
    /\ dump = "written" => tmp = serializeDb

\* The Finder keeps the types of its variables.
LEMMA FinderType ==
    TypeOK /\ Phases /\ (Load \/ dumpDb \/ Shutdown \/ Crash \/ DamageDb) => TypeOK'
<1> SUFFICES ASSUME TypeOK, Phases, Load \/ dumpDb \/ Shutdown \/ Crash \/ DamageDb
             PROVE  TypeOK'
  OBVIOUS
<1> USE BoundAssumption DEF fsVars, dbVars, taskVars, treeVars
<1>1. CASE New
  <2>1. /\ fsVars' = fsVars /\ dbVars' = dbVars
        /\ include' \in IncludeLists /\ modified' = FALSE /\ errs' = {}
        /\ dump' = "none"
        /\ startFromExternalCache \/ startWithoutExternalCache
    BY <1>1 DEF New
  <2>2. include' \in SUBSET FileNames
    BY <2>1, NamesAssumption
  <2>3. DOMAIN db.entries \in SUBSET Dirs
    BY DEF TypeOK, DbType
  <2>4. /\ kids' \in [Nodes -> SUBSET Dirs] /\ mod' \in [Dirs -> Stamps]
        /\ names' \in [Dirs -> SUBSET FileNames]
        /\ toLoad' \in SUBSET Dirs /\ toWalk' \in SUBSET Dirs
        /\ stats' \in SUBSET Dirs /\ lists' \in SUBSET Dirs
        /\ phase' \in {"loading", "walking"}
    BY <2>1, <2>3 DEF startFromExternalCache, startWithoutExternalCache, EmptyTree, Roots
  <2> QED BY <2>1, <2>2, <2>4 DEF TypeOK
<1>2. ASSUME NEW d \in Dirs, loadBytes(d) PROVE TypeOK'
  <2>1. db.entries[d].F \in SUBSET FileNames
    BY <1>2 DEF loadBytes, Phases, TypeOK, DbType
  <2>2. statDirSync(d) \in Stamps
    BY DEF statDirSync, TypeOK
  <2>3. kids' \in [Nodes -> SUBSET Dirs]
    BY <1>2, TreeAssumption DEF loadBytes, GetNode, TypeOK
  <2>4. names' \in [Dirs -> SUBSET FileNames] /\ modified' \in BOOLEAN /\ toWalk' \in SUBSET Dirs
    BY <1>2, <2>1 DEF loadBytes, TypeOK
  <2>5. errs' \in SUBSET Dirs
    BY <1>2 DEF loadBytes, onFsError, TypeOK
  <2> QED BY <1>2, <2>2, <2>3, <2>4, <2>5 DEF loadBytes, TypeOK
<1>3. CASE listDirsAsync
  BY <1>3 DEF listDirsAsync, TypeOK
<1>4. CASE parseCacheEntryFails
  BY <1>4 DEF parseCacheEntryFails, startWithoutExternalCache, Roots, TypeOK
<1>5. ASSUME NEW d \in Dirs, statDirAsync(d) PROVE TypeOK'
  <2>1. statDirSync(d) \in Stamps
    BY DEF statDirSync, TypeOK
  <2>2. errs' \in SUBSET Dirs
    BY <1>5 DEF statDirAsync, onFsError, TypeOK
  <2>3. /\ mod' \in [Dirs -> Stamps] /\ names' \in [Dirs -> SUBSET FileNames]
        /\ modified' \in BOOLEAN /\ lists' \in SUBSET Dirs
    BY <1>5, <2>1 DEF statDirAsync, TypeOK
  <2> QED BY <1>5, <2>2, <2>3 DEF statDirAsync, TypeOK
<1>6. ASSUME NEW d \in Dirs, listDirSync(d) PROVE TypeOK'
  <2>1. SubdirsOf(d) \in SUBSET Dirs /\ FilesOf(d) \in SUBSET FileNames
    BY DEF SubdirsOf, FilesOf, TypeOK
  <2>2. errs' \in SUBSET Dirs
    BY <1>6 DEF listDirSync, onFsError, TypeOK
  <2> QED BY <1>6, <2>1, <2>2 DEF listDirSync, TypeOK
<1>7. CASE NewReturns
  <2>1. dump' \in {"serialized", "none"} /\ phase' \in {"failed", "ready"}
    BY <1>7 DEF NewReturns
  <2> QED BY <1>7, <2>1 DEF NewReturns, TypeOK
<1>8. CASE dumpDb
  <2>1. db' \in DbType /\ tmp' \in DbType
    BY <1>8, DbTypes DEF dumpDb, dumpTruncate, dumpWrite, dumpRename, TypeOK
  <2>2. dump' \in {"writing", "written", "done"}
    BY <1>8 DEF dumpDb, dumpTruncate, dumpWrite, dumpRename
  <2>3. UNCHANGED <<fsVars, phase, include, taskVars, treeVars, modified, errs>>
    BY <1>8 DEF dumpDb, dumpTruncate, dumpWrite, dumpRename
  <2> QED BY <2>1, <2>2, <2>3 DEF TypeOK
<1>9. CASE Shutdown \/ Crash
  <2>1. Exit
    BY <1>9 DEF Shutdown, Crash
  <2>2. /\ kids' \in [Nodes -> SUBSET Dirs] /\ mod' \in [Dirs -> Stamps]
        /\ names' \in [Dirs -> SUBSET FileNames]
    BY <2>1 DEF Exit, EmptyTree
  <2> QED BY <2>1, <2>2 DEF Exit, TypeOK
<1>10. CASE DamageDb
  <2>1. PICK ds \in SUBSET DOMAIN db.entries :
            db' = [db EXCEPT !.state = "torn",
                             !.entries = [d \in ds |-> db.entries[d]]]
    BY <1>10 DEF DamageDb
  <2>2. ds \in SUBSET Dirs
    BY <2>1 DEF TypeOK, DbType
  <2>3. [d \in ds |-> db.entries[d]] \in [ds -> [T : Stamps, F : SUBSET FileNames]]
    BY <2>1 DEF TypeOK, DbType
  <2>4. db' = [state |-> "torn", params |-> db.params,
               entries |-> [d \in ds |-> db.entries[d]]]
    BY <2>1 DEF TypeOK, DbType
  <2>5. db.params \in SUBSET FileNames
    BY DEF TypeOK, DbType
  <2>6. db' \in DbType
    BY <2>2, <2>3, <2>4, <2>5 DEF DbType
  <2> QED BY <1>10, <2>6 DEF DamageDb, finderVars, TypeOK
<1> QED BY <1>1, <1>2, <1>3, <1>4, <1>5, <1>6, <1>7, <1>8, <1>9, <1>10 DEF Load

-----------------------------------------------------------------------------
(* The database is sound for the files of a directory.                     *)

\* An inode never changes without its ctime, and no time is in the future.
Times ==
    \A d \in Dirs : /\ mtime[d] <= ctime[d]
                    /\ ctime[d] <= clock
                    /\ mtime[d] = 0 <=> ctime[d] = 0

\* A node that does not wait to be listed holds the files its Stat stands for.
NodesOK ==
    \A d \in Dirs :
        /\ mod[d] <= clock
        /\ /\ d \notin toWalk \cup lists
           /\ mod[d] # 0
           /\ mod[d] = statDirSync(d)
           => names[d] = Content(d, include)

\* A directory of the database whose Stat did not change did not change.
DbOK ==
    \A d \in DOMAIN db.entries :
        /\ db.entries[d].T # 0
        /\ db.entries[d].T <= clock
        /\ db.entries[d].T = statDirSync(d) => db.entries[d].F = Content(d, db.params)

\* The inductive invariant behind DbFilesSound.
IInv == TypeOK /\ Phases /\ Times /\ NodesOK /\ DbOK

\* A change of the file system gives a directory a Stat nobody has seen, or
\* leaves alone what the Finder reads of it.
LEMMA FileSystemStep ==
    ASSUME FineClock, TypeOK, Times, FileSystem
    PROVE  /\ clock' = clock + 1
           /\ Times'
           /\ UNCHANGED <<dbVars, finderVars>>
           /\ \A d \in Dirs :
                 \/ statDirSync(d)' \in {0, clock + 1}
                 \/ UNCHANGED <<mtime[d], ctime[d], files[d], readable[d]>>
<1>1. PICK d \in Dirs : \/ Mkdir(d)
                        \/ RemoveAll(d)
                        \/ \E f \in FileNames : ChangeFiles(d, f)
                        \/ Chmod(d)
  BY DEF FileSystem
<1>2. UNCHANGED <<dbVars, finderVars>>
  BY <1>1 DEF Mkdir, RemoveAll, ChangeFiles, Chmod
<1>3. clock \in Nat /\ \A x \in Dirs : mtime[x] \in Nat /\ ctime[x] \in Nat
  BY BoundAssumption DEF TypeOK
<1> DEFINE Seen(x) == \/ statDirSync(x)' \in {0, clock + 1}
                      \/ UNCHANGED <<mtime[x], ctime[x], files[x], readable[x]>>
           Sane(x) == /\ mtime'[x] <= ctime'[x]
                      /\ ctime'[x] <= clock + 1
                      /\ mtime'[x] = 0 <=> ctime'[x] = 0
<1>4. CASE Mkdir(d)
  <2>1. /\ clock' = clock + 1
        /\ mtime' = Touch(mtime, {d, Parent[d]}, clock + 1)
        /\ ctime' = Touch(ctime, {d, Parent[d]}, clock + 1)
    BY <1>4 DEF Mkdir, Written, Tick
  <2>2. ASSUME NEW x \in Dirs PROVE Seen(x) /\ Sane(x)
    <3>1. CASE x \in {d, Parent[d]}
      BY <2>1, <1>3, <3>1 DEF Touch, statDirSync
    <3>2. CASE x \notin {d, Parent[d]}
      <4>1. mtime'[x] = mtime[x] /\ ctime'[x] = ctime[x]
        BY <2>1, <3>2 DEF Touch
      <4>2. files'[x] = files[x] /\ readable'[x] = readable[x]
        BY <1>4, <3>2 DEF Mkdir, TypeOK
      <4> QED BY <4>1, <4>2, <1>3 DEF Times
    <3> QED BY <3>1, <3>2
  <2> QED BY <1>2, <2>1, <2>2 DEF Times
<1>5. CASE RemoveAll(d)
  <2>1. /\ clock' = clock + 1
        /\ mtime' = [x \in Dirs |-> IF d \in Above[x] THEN 0
                                    ELSE Touch(mtime, {Parent[d]}, clock + 1)[x]]
        /\ ctime' = [x \in Dirs |-> IF d \in Above[x] THEN 0
                                    ELSE Touch(ctime, {Parent[d]}, clock + 1)[x]]
    BY <1>5 DEF RemoveAll, Tick
  <2>2. ASSUME NEW x \in Dirs PROVE Seen(x) /\ Sane(x)
    <3>1. CASE d \in Above[x]
      BY <2>1, <1>3, <3>1 DEF statDirSync
    <3>2. CASE d \notin Above[x] /\ x = Parent[d]
      BY <2>1, <1>3, <3>2 DEF Touch, statDirSync
    <3>3. CASE d \notin Above[x] /\ x # Parent[d]
      BY <2>1, <1>3, <1>5, <3>3 DEF Touch, Times, RemoveAll, TypeOK
    <3> QED BY <3>1, <3>2, <3>3
  <2> QED BY <1>2, <2>1, <2>2 DEF Times
<1>6. ASSUME NEW f \in FileNames, ChangeFiles(d, f) PROVE /\ clock' = clock + 1
                                                          /\ \A x \in Dirs : Seen(x) /\ Sane(x)
  <2>1. /\ clock' = clock + 1
        /\ mtime' = Touch(mtime, {d}, clock + 1)
        /\ ctime' = Touch(ctime, {d}, clock + 1)
    BY <1>6 DEF ChangeFiles, Written, Tick
  <2>2. ASSUME NEW x \in Dirs PROVE Seen(x) /\ Sane(x)
    <3>1. CASE x = d
      BY <2>1, <1>3, <3>1 DEF Touch, statDirSync
    <3>2. CASE x # d
      BY <2>1, <1>3, <1>6, <3>2 DEF Touch, Times, ChangeFiles, TypeOK
    <3> QED BY <3>1, <3>2
  <2> QED BY <2>1, <2>2
<1>7. CASE Chmod(d)
  <2>1. clock' = clock + 1 /\ ctime' = Touch(ctime, {d}, clock + 1) /\ mtime' = mtime
    BY <1>7 DEF Chmod, Tick
  <2>2. ASSUME NEW x \in Dirs PROVE Seen(x) /\ Sane(x)
    <3>1. CASE x = d
      BY <2>1, <1>3, <1>7, <3>1 DEF Touch, statDirSync, Times, Chmod, Exists
    <3>2. CASE x # d
      BY <2>1, <1>3, <1>7, <3>2 DEF Touch, Times, Chmod, TypeOK
    <3> QED BY <3>1, <3>2
  <2> QED BY <1>2, <2>1, <2>2 DEF Times
<1> QED BY <1>1, <1>2, <1>4, <1>5, <1>6, <1>7 DEF Times

\* statDirSync returns the ctime.
LEMMA StatIsCtime ==
    ASSUME TypeOK, Times, NEW d \in Dirs
    PROVE  statDirSync(d) = ctime[d] /\ statDirSync(d) \in Nat /\ statDirSync(d) <= clock
BY BoundAssumption DEF TypeOK, Times, statDirSync

\* What listDirSync stores is the content of the directory.
LEMMA ListIsContent == \A d : FilesOf(d) = Content(d, include)
BY DEF FilesOf, Content, ReadDirError

\* The file system does not disturb the invariant: what it changes carries a
\* Stat that no node and no entry of the database has.
LEMMA FileSystemKeeps ==
    ASSUME FineClock, IInv, FileSystem
    PROVE  IInv'
<1>1. TypeOK' /\ Times'
  BY FileSystemType, FileSystemStep DEF IInv
<1>2. Phases'
  <2>1. UNCHANGED <<dbVars, finderVars>>
    BY FileSystemStep DEF IInv
  <2>2. serializeDb' = serializeDb
    BY <2>1 DEF serializeDb, DirEntries, InTree, finderVars, treeVars
  <2> QED BY <2>1, <2>2 DEF IInv, Phases, finderVars, dbVars, taskVars
<1> DEFINE Fresh(d) == statDirSync(d)' \in {0, clock + 1}
           Same(d) == /\ statDirSync(d)' = statDirSync(d)
                      /\ \A incl : Content(d, incl)' = Content(d, incl)
<1>3. ASSUME NEW d \in Dirs PROVE Fresh(d) \/ Same(d)
  <2>1. Fresh(d) \/ UNCHANGED <<mtime[d], ctime[d], files[d], readable[d]>>
    BY FileSystemStep DEF IInv
  <2> QED BY <2>1 DEF statDirSync, Content, Exists, Pruned
<1>4. clock' = clock + 1 /\ clock \in Nat
  BY FileSystemStep, BoundAssumption DEF IInv, TypeOK
<1>5. NodesOK'
  <2>1. UNCHANGED <<mod, names, toWalk, lists, include>>
    BY FileSystemStep DEF IInv, finderVars, treeVars, taskVars
  <2>2. \A d \in Dirs : mod[d] \in Nat /\ mod[d] <= clock
    BY BoundAssumption DEF IInv, TypeOK, NodesOK
  <2>3. ASSUME NEW d \in Dirs, d \notin toWalk \cup lists, mod[d] # 0, mod[d] = statDirSync(d)'
        PROVE  names[d] = Content(d, include)'
    <3>1. ~Fresh(d)
      BY <2>2, <2>3, <1>4
    <3>2. Same(d)
      BY <3>1, <1>3
    <3>3. names[d] = Content(d, include)
      BY <2>3, <3>2 DEF IInv, NodesOK
    <3>4. Content(d, include)' = Content(d, include)
      BY <2>1, <3>2 DEF Content, Exists, Pruned
    <3> QED BY <3>3, <3>4
  <2> QED BY <2>1, <2>2, <2>3, <1>4 DEF NodesOK
<1>6. DbOK'
  <2>1. db' = db
    BY FileSystemStep DEF IInv, dbVars
  <2>2. \A d \in DOMAIN db.entries : d \in Dirs /\ db.entries[d].T \in Nat
    BY BoundAssumption DEF IInv, TypeOK, DbType
  <2>3. ASSUME NEW d \in DOMAIN db.entries, db.entries[d].T = statDirSync(d)'
        PROVE  db.entries[d].F = Content(d, db.params)'
    <3>1. ~Fresh(d)
      BY <2>2, <2>3, <1>4 DEF IInv, DbOK
    <3>2. Same(d)
      BY <3>1, <2>2, <1>3
    <3>3. db.entries[d].F = Content(d, db.params)
      BY <2>3, <3>2 DEF IInv, DbOK
    <3>4. Content(d, db.params)' = Content(d, db.params)
      BY <2>1, <3>2 DEF Content, Exists, Pruned
    <3> QED BY <3>3, <3>4
  <2>4. \A d \in DOMAIN db.entries : db.entries[d].T # 0 /\ db.entries[d].T <= clock'
    BY <2>2, <1>4 DEF IInv, DbOK
  <2> QED BY <2>1, <2>3, <2>4 DEF DbOK
<1> QED BY <1>1, <1>2, <1>5, <1>6 DEF IInv

\* A step that leaves the file system alone keeps what depends on it only.
LEMMA SameFileSystem ==
    ASSUME UNCHANGED fsVars
    PROVE  /\ Times' = Times
           /\ \A d : statDirSync(d)' = statDirSync(d)
           /\ \A d, incl : Content(d, incl)' = Content(d, incl)
BY DEF fsVars, Times, statDirSync, Content, Exists, Pruned

\* A step that also leaves the database alone keeps DbOK.
LEMMA SameDb ==
    ASSUME DbOK, UNCHANGED fsVars, UNCHANGED db
    PROVE  DbOK'
BY DEF fsVars, DbOK, statDirSync, Content, Exists, Pruned

\* Starting a Finder, with or without a database.
LEMMA NewKeeps ==
    ASSUME IInv, New
    PROVE  Phases' /\ NodesOK'
<1>1. startFromExternalCache \/ startWithoutExternalCache
  BY DEF New
<1>2. mod' = [d \in Dirs |-> 0] /\ toWalk' = {} /\ lists' = {}
  BY <1>1 DEF startFromExternalCache, startWithoutExternalCache, EmptyTree
<1>3. NodesOK'
  <2>1. clock' = clock /\ clock \in Nat
    BY BoundAssumption DEF IInv, TypeOK, New, fsVars
  <2> QED BY <1>2, <2>1 DEF NodesOK
<1>4. Phases'
  <2>1. CASE validateCacheHeader
    BY <2>1 DEF New, validateCacheHeader, startFromExternalCache, Phases, dbVars
  <2>2. CASE ~validateCacheHeader
    BY <2>2 DEF New, startWithoutExternalCache, Phases
  <2> QED BY <2>1, <2>2
<1> QED BY <1>3, <1>4

\* A block of the database: an unchanged directory takes over the files of the
\* database, a changed one waits to be listed.
LEMMA loadBytesKeeps ==
    ASSUME IInv, NEW d \in Dirs, loadBytes(d)
    PROVE  Phases' /\ NodesOK'
<1>1. Phases'
  BY DEF IInv, Phases, loadBytes, dbVars
<1>2. ASSUME NEW x \in Dirs
      PROVE  /\ mod'[x] <= clock'
             /\ x \notin toWalk' \cup lists' /\ mod'[x] # 0 /\ mod'[x] = statDirSync(x)'
                => names'[x] = Content(x, include)'
  <2>1. /\ UNCHANGED <<fsVars, include, lists, db>>
        /\ mod' = [mod EXCEPT ![d] = statDirSync(d)]
        /\ d \in toLoad /\ phase = "loading"
    BY DEF loadBytes, dbVars
  <2>2. /\ clock' = clock /\ statDirSync(x)' = statDirSync(x)
        /\ Content(x, include)' = Content(x, include)
    BY <2>1, SameFileSystem DEF fsVars, Content, Exists, Pruned
  <2>3. CASE x # d
    <3>1. mod'[x] = mod[x] /\ names'[x] = names[x] /\ (x \notin toWalk' => x \notin toWalk)
      BY <2>1, <2>3 DEF loadBytes, IInv, TypeOK
    <3> QED BY <2>1, <2>2, <3>1 DEF IInv, NodesOK
  <2>4. CASE x = d
    <3>1. mod'[d] = statDirSync(d) /\ statDirSync(d) <= clock
      BY <2>1, StatIsCtime DEF IInv, TypeOK
    <3>2. d \in DOMAIN db.entries /\ db.params = include
      BY <2>1 DEF IInv, Phases
    <3>3. CASE ~isInfoUpToDate(db.entries[d].T, statDirSync(d)) /\ statDirSync(d) # 0
      BY <2>2, <2>4, <3>1, <3>3 DEF loadBytes
    <3>4. CASE statDirSync(d) = 0
      BY <2>2, <2>4, <3>1, <3>4
    <3>5. CASE isInfoUpToDate(db.entries[d].T, statDirSync(d)) /\ statDirSync(d) # 0
      <4>1. names'[d] = db.entries[d].F
        BY <3>5 DEF loadBytes, IInv, TypeOK
      <4>2. db.entries[d].F = Content(d, include)
        BY <3>2, <3>5 DEF IInv, DbOK, isInfoUpToDate
      <4> QED BY <2>2, <2>4, <3>1, <4>1, <4>2
    <3> QED BY <3>3, <3>4, <3>5
  <2> QED BY <2>3, <2>4
<1> QED BY <1>1, <1>2 DEF NodesOK

\* A stat task: a changed directory waits to be listed.
LEMMA statDirAsyncKeeps ==
    ASSUME IInv, NEW d \in Dirs, statDirAsync(d)
    PROVE  Phases' /\ NodesOK'
<1>1. Phases'
  BY DEF IInv, Phases, statDirAsync, dbVars
<1>2. ASSUME NEW x \in Dirs
      PROVE  /\ mod'[x] <= clock'
             /\ x \notin toWalk' \cup lists' /\ mod'[x] # 0 /\ mod'[x] = statDirSync(x)'
                => names'[x] = Content(x, include)'
  <2>1. UNCHANGED <<fsVars, include, toWalk>>
    BY DEF statDirAsync
  <2>2. /\ clock' = clock /\ statDirSync(x)' = statDirSync(x)
        /\ Content(x, include)' = Content(x, include)
    BY <2>1, SameFileSystem DEF fsVars, Content, Exists, Pruned
  <2>3. CASE isInfoUpToDate(mod[d], statDirSync(d)) \/ x # d
    <3>1. mod'[x] = mod[x] /\ names'[x] = names[x] /\ (x \notin lists' => x \notin lists)
      BY <2>3 DEF statDirAsync, IInv, TypeOK
    <3> QED BY <2>1, <2>2, <3>1 DEF IInv, NodesOK
  <2>4. CASE ~isInfoUpToDate(mod[d], statDirSync(d)) /\ x = d
    <3>1. mod'[d] = statDirSync(d) /\ statDirSync(d) <= clock
      BY <2>4, StatIsCtime DEF statDirAsync, IInv, TypeOK
    <3>2. statDirSync(d) # 0 => d \in lists'
      BY <2>4 DEF statDirAsync
    <3> QED BY <2>2, <2>4, <3>1, <3>2
  <2> QED BY <2>3, <2>4
<1> QED BY <1>1, <1>2 DEF NodesOK

\* A list task: the node takes the files the directory has now.
LEMMA listDirSyncKeeps ==
    ASSUME IInv, NEW d \in Dirs, listDirSync(d)
    PROVE  Phases' /\ NodesOK'
<1>1. Phases'
  BY DEF IInv, Phases, listDirSync, dbVars
<1>2. ASSUME NEW x \in Dirs
      PROVE  /\ mod'[x] <= clock'
             /\ x \notin toWalk' \cup lists' /\ mod'[x] # 0 /\ mod'[x] = statDirSync(x)'
                => names'[x] = Content(x, include)'
  <2>1. UNCHANGED <<fsVars, include, toWalk, mod>>
    BY DEF listDirSync
  <2>2. /\ clock' = clock /\ statDirSync(x)' = statDirSync(x)
        /\ Content(x, include)' = Content(x, include)
    BY <2>1, SameFileSystem DEF fsVars, Content, Exists, Pruned
  <2>3. CASE x # d
    <3>1. names'[x] = names[x] /\ (x \notin lists' => x \notin lists)
      BY <2>3 DEF listDirSync, IInv, TypeOK
    <3> QED BY <2>1, <2>2, <3>1 DEF IInv, NodesOK
  <2>4. CASE x = d
    <3>1. names'[d] = Content(d, include)
      BY ListIsContent DEF listDirSync, IInv, TypeOK
    <3> QED BY <2>1, <2>2, <2>4, <3>1 DEF IInv, NodesOK
  <2> QED BY <2>3, <2>4
<1> QED BY <1>1, <1>2 DEF NodesOK

\* The steps of New that only move tasks around or start again.
LEMMA OtherLoadKeeps ==
    ASSUME IInv, listDirsAsync \/ parseCacheEntryFails \/ NewReturns
    PROVE  Phases' /\ NodesOK'
<1>1. UNCHANGED fsVars /\ UNCHANGED include /\ UNCHANGED dbVars
  BY DEF listDirsAsync, parseCacheEntryFails, NewReturns
<1>2. /\ clock' = clock /\ clock \in Nat
      /\ \A x : statDirSync(x)' = statDirSync(x) /\ Content(x, include)' = Content(x, include)
  BY <1>1, SameFileSystem, BoundAssumption DEF fsVars, Content, Exists, Pruned, IInv, TypeOK
<1>3. CASE listDirsAsync
  <2>1. UNCHANGED <<mod, names>> /\ toWalk' = {} /\ lists' = toWalk
    BY <1>3 DEF listDirsAsync, treeVars
  <2>2. lists = {}
    BY <1>3 DEF listDirsAsync, IInv, Phases
  <2>3. NodesOK'
    BY <1>1, <1>2, <2>1, <2>2 DEF IInv, NodesOK
  <2>4. Phases'
    BY <1>3 DEF listDirsAsync, IInv, Phases
  <2> QED BY <2>3, <2>4
<1>4. CASE parseCacheEntryFails
  <2>1. mod' = [d \in Dirs |-> 0] /\ toWalk' = {} /\ phase' = "walking" /\ dump' = dump
    BY <1>4 DEF parseCacheEntryFails, startWithoutExternalCache
  <2>2. NodesOK'
    BY <1>2, <2>1 DEF NodesOK
  <2>3. dump = "none"
    BY <1>4 DEF parseCacheEntryFails, IInv, Phases
  <2> QED BY <2>1, <2>2, <2>3 DEF Phases
<1>5. CASE NewReturns
  <2>1. UNCHANGED <<mod, names, toWalk, lists>>
    BY <1>5 DEF NewReturns, treeVars, taskVars
  <2>2. NodesOK'
    BY <1>1, <1>2, <2>1 DEF IInv, NodesOK
  <2>3. /\ phase = "walking" /\ phase' \in {"ready", "failed"}
        /\ dump' \in {"none", "serialized"} /\ lists = {}
    BY <1>5 DEF NewReturns
  <2> QED BY <2>1, <2>2, <2>3 DEF IInv, Phases
<1> QED BY <1>3, <1>4, <1>5

\* The dump: what Rename installs is the tree New built, in which no directory
\* waits to be listed.
LEMMA dumpDbKeeps ==
    ASSUME IInv, dumpDb
    PROVE  Phases' /\ NodesOK' /\ DbOK'
<1>1. UNCHANGED <<fsVars, phase, include, taskVars, treeVars, modified, errs>>
  BY DEF dumpDb, dumpTruncate, dumpWrite, dumpRename
<1>2. NodesOK'
  BY <1>1 DEF IInv, NodesOK, fsVars, taskVars, treeVars, statDirSync, Content, Exists, Pruned
<1>3. phase \in {"ready", "failed"} /\ toWalk = {} /\ lists = {}
  BY DEF IInv, Phases, TypeOK, dumpDb, dumpTruncate, dumpWrite, dumpRename
<1>4. serializeDb' = serializeDb
  BY <1>1 DEF serializeDb, DirEntries, InTree, treeVars
<1>5. Phases'
  BY <1>1, <1>3, <1>4 DEF Phases, taskVars, dumpDb, dumpTruncate, dumpWrite, dumpRename
<1>6. DbOK'
  <2>1. CASE dumpTruncate \/ dumpWrite
    BY <1>1, <2>1, SameDb DEF dumpTruncate, dumpWrite, IInv
  <2>2. CASE dumpRename
    <3>1. db' = serializeDb
      BY <2>2 DEF dumpRename, IInv, Phases
    <3>2. /\ db'.entries = [d \in DirEntries |-> [T |-> mod[d], F |-> names[d]]]
          /\ db'.params = include
      BY <3>1 DEF serializeDb
    <3>3. ASSUME NEW d \in DirEntries
          PROVE  /\ mod[d] # 0 /\ mod[d] <= clock
                 /\ mod[d] = statDirSync(d) => names[d] = Content(d, include)
      BY <1>3 DEF DirEntries, IInv, NodesOK
    <3>4. clock' = clock /\ \A d : statDirSync(d)' = statDirSync(d)
      BY <1>1, SameFileSystem DEF fsVars
    <3>5. \A d : Content(d, db.params)' = Content(d, include)
      BY <1>1, <3>2 DEF fsVars, Content, Exists, Pruned
    <3> QED BY <3>2, <3>3, <3>4, <3>5 DEF DbOK
  <2> QED BY <2>1, <2>2 DEF dumpDb
<1> QED BY <1>2, <1>5, <1>6

\* The process ends, or the database is damaged while none runs.
LEMMA ExitKeeps ==
    ASSUME IInv, Shutdown \/ Crash \/ DamageDb
    PROVE  Phases' /\ NodesOK' /\ DbOK'
<1>1. CASE Shutdown \/ Crash
  <2>1. Exit
    BY <1>1 DEF Shutdown, Crash
  <2>2. Phases'
    BY <2>1 DEF Exit, Phases
  <2>3. clock' = clock /\ clock \in Nat /\ mod' = [d \in Dirs |-> 0]
    BY <2>1, BoundAssumption DEF Exit, EmptyTree, fsVars, IInv, TypeOK
  <2>4. NodesOK'
    BY <2>3 DEF NodesOK
  <2>5. DbOK'
    BY <2>1, SameDb DEF Exit, dbVars, IInv
  <2> QED BY <2>2, <2>4, <2>5
<1>2. CASE DamageDb
  <2>1. UNCHANGED <<fsVars, tmp, finderVars>> /\ phase = "off"
    BY <1>2 DEF DamageDb
  <2>2. PICK ds \in SUBSET DOMAIN db.entries :
            db' = [db EXCEPT !.state = "torn",
                             !.entries = [d \in ds |-> db.entries[d]]]
    BY <1>2 DEF DamageDb
  <2>3. db'.entries = [d \in ds |-> db.entries[d]] /\ db'.params = db.params
    BY <2>2 DEF IInv, TypeOK, DbType
  <2>4. NodesOK'
    BY <2>1 DEF IInv, NodesOK, fsVars, finderVars, taskVars, treeVars,
                statDirSync, Content, Exists, Pruned
  <2>5. Phases'
    BY <2>1 DEF IInv, Phases, finderVars, taskVars
  <2>6. clock' = clock /\ \A d : statDirSync(d)' = statDirSync(d)
    BY <2>1, SameFileSystem DEF fsVars
  <2>7. \A d : Content(d, db.params)' = Content(d, db.params)
    BY <2>1, <2>3 DEF fsVars, Content, Exists, Pruned
  <2>8. DbOK'
    BY <2>3, <2>6, <2>7 DEF IInv, DbOK
  <2> QED BY <2>4, <2>5, <2>8
<1> QED BY <1>1, <1>2

\* The invariant is inductive.
LEMMA IInvInductive == FineClock /\ IInv /\ [Next]_vars => IInv'
<1> SUFFICES ASSUME FineClock, IInv, [Next]_vars PROVE IInv'
  OBVIOUS
<1>1. CASE FileSystem
  BY <1>1, FileSystemKeeps
<1>2. CASE Load
  <2>1. TypeOK'
    BY <1>2, FinderType DEF IInv
  <2>2. Phases' /\ NodesOK'
    BY <1>2, NewKeeps, loadBytesKeeps, statDirAsyncKeeps, listDirSyncKeeps, OtherLoadKeeps
       DEF Load
  <2>3. UNCHANGED fsVars /\ UNCHANGED db
    BY <1>2 DEF Load, New, loadBytes, statDirAsync, listDirSync, listDirsAsync,
                parseCacheEntryFails, NewReturns, dbVars
  <2> QED BY <2>1, <2>2, <2>3, SameDb, SameFileSystem DEF IInv
<1>3. CASE dumpDb \/ Shutdown \/ Crash \/ DamageDb
  <2>1. TypeOK'
    BY <1>3, FinderType DEF IInv
  <2>2. Phases' /\ NodesOK' /\ DbOK'
    BY <1>3, dumpDbKeeps, ExitKeeps
  <2>3. UNCHANGED fsVars
    BY <1>3 DEF dumpDb, dumpTruncate, dumpWrite, dumpRename, Shutdown, Crash, Exit, DamageDb
  <2> QED BY <2>1, <2>2, <2>3, SameFileSystem DEF IInv
<1>4. CASE UNCHANGED vars
  <2> USE <1>4 DEF vars, fsVars, dbVars, finderVars, taskVars, treeVars
  <2>1. TypeOK'
    BY DEF IInv, TypeOK, DbType
  <2>2. Phases'
    BY DEF IInv, Phases, serializeDb, DirEntries, InTree
  <2>3. NodesOK'
    BY DEF IInv, NodesOK, statDirSync, Content, Exists, Pruned
  <2> QED BY <2>1, <2>2, <2>3, SameDb, SameFileSystem DEF IInv
<1> QED BY <1>1, <1>2, <1>3, <1>4 DEF Next

\* Initially no directory is known, and every time is 0 or the clock's 1.
LEMMA InitIInv == Init => IInv
<1> SUFFICES ASSUME Init PROVE IInv
  OBVIOUS
<1> USE BoundAssumption DEF Init
<1>1. TypeOK
  <2>1. NoDb \in DbType
    <3>1. NoEntries \in [{} -> [T : Stamps, F : SUBSET FileNames]]
      BY DEF NoEntries
    <3> QED BY <3>1 DEF NoDb, DbType
  <2>2. {0, 1} \subseteq Stamps
    BY DEF Stamps
  <2> QED BY <2>1, <2>2 DEF TypeOK, Nodes
<1>2. Phases
  BY DEF Phases
<1>3. Times
  BY DEF Times
<1>4. NodesOK
  BY DEF NodesOK
<1>5. DbOK
  BY DEF DbOK, NoDb, NoEntries
<1> QED BY <1>1, <1>2, <1>3, <1>4, <1>5 DEF IInv

\* The types, and what each phase of New leaves pending, do not depend on the
\* clock of the file system.
LEMMA TypePhases == TypeOK /\ Phases /\ [Next]_vars => (TypeOK /\ Phases)'
<1> SUFFICES ASSUME TypeOK, Phases, [Next]_vars PROVE (TypeOK /\ Phases)'
  OBVIOUS
<1> USE DEF fsVars, dbVars, finderVars, taskVars, treeVars
<1>1. CASE FileSystem
  <2>1. UNCHANGED <<dbVars, finderVars>>
    BY <1>1 DEF FileSystem, Mkdir, RemoveAll, ChangeFiles, Chmod
  <2>2. Phases'
    BY <2>1 DEF Phases, serializeDb, DirEntries, InTree
  <2> QED BY <1>1, <2>2, FileSystemType
<1>2. CASE UNCHANGED vars
  <2>1. TypeOK'
    BY <1>2 DEF vars, TypeOK, DbType
  <2>2. Phases'
    BY <1>2 DEF vars, Phases, serializeDb, DirEntries, InTree
  <2> QED BY <2>1, <2>2
<1>3. ASSUME Load \/ dumpDb \/ Shutdown \/ Crash \/ DamageDb, Phases'
      PROVE  (TypeOK /\ Phases)'
  BY <1>3, FinderType
<1>4. CASE New
  <2>1. Phases'
    BY <1>4 DEF New, validateCacheHeader, startFromExternalCache, startWithoutExternalCache, Phases
  <2> QED BY <1>3, <1>4, <2>1 DEF Load
<1>5. ASSUME NEW d \in Dirs, loadBytes(d) \/ statDirAsync(d) \/ listDirSync(d)
      PROVE  (TypeOK /\ Phases)'
  <2>1. Phases'
    BY <1>5 DEF Phases, loadBytes, statDirAsync, listDirSync
  <2> QED BY <1>3, <1>5, <2>1 DEF Load
<1>6. CASE listDirsAsync \/ parseCacheEntryFails
  <2>1. Phases'
    BY <1>6 DEF Phases, listDirsAsync, parseCacheEntryFails, startWithoutExternalCache
  <2> QED BY <1>3, <1>6, <2>1 DEF Load
<1>7. CASE NewReturns
  <2>1. Phases'
    BY <1>7 DEF Phases, NewReturns
  <2> QED BY <1>3, <1>7, <2>1 DEF Load
<1>8. CASE dumpDb
  <2>1. serializeDb' = serializeDb
    BY <1>8 DEF dumpDb, dumpTruncate, dumpWrite, dumpRename, serializeDb, DirEntries, InTree
  <2>2. phase \in {"ready", "failed"}
    BY <1>8 DEF dumpDb, dumpTruncate, dumpWrite, dumpRename, Phases, TypeOK
  <2>3. Phases'
    BY <1>8, <2>1, <2>2 DEF dumpDb, dumpTruncate, dumpWrite, dumpRename, Phases
  <2> QED BY <1>3, <1>8, <2>3
<1>9. CASE Shutdown \/ Crash
  <2>1. Phases'
    BY <1>9 DEF Shutdown, Crash, Exit, Phases
  <2> QED BY <1>3, <1>9, <2>1
<1>10. CASE DamageDb
  <2>1. Phases'
    BY <1>10 DEF DamageDb, Phases
  <2> QED BY <1>3, <1>10, <2>1
<1> QED BY <1>1, <1>2, <1>4, <1>5, <1>6, <1>7, <1>8, <1>9, <1>10 DEF Next, Load

\* Every variable of the Finder and of the file system keeps its type, for
\* every tree of directories and every set of file names, on a file system
\* with a fine or a coarse clock.
THEOREM TypeCorrect == Spec => []TypeOK
<1>1. Init => TypeOK /\ Phases
  BY InitIInv DEF IInv
<1> QED BY <1>1, TypePhases, PTL DEF Spec

\* On a file system that never gives two changes of a directory the same time,
\* a directory whose Stat equals the one in the database holds the files the
\* database lists: loadBytes may skip its ReadDir.  The file system may change
\* at any moment of a load, and the Finder may crash at any moment.
THEOREM FilesSound ==
    ASSUME FineClock
    PROVE  Spec => []DbFilesSound
<1>1. IInv /\ [Next]_vars => IInv'
  BY IInvInductive
<1>2. IInv => DbFilesSound
  BY DEF IInv, DbOK, DbFilesSound
<1> QED BY <1>1, <1>2, InitIInv, PTL DEF Spec

=============================================================================
