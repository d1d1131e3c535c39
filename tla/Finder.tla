------------------------------- MODULE Finder -------------------------------
(***************************************************************************)
(* The source finder of soong_ui (finder/finder.go): a parallel scan of    *)
(* the source tree that is cached in a database between builds.            *)
(*                                                                         *)
(* A directory whose Stat equals the one in the database is not read       *)
(* again.  The module models one run of the Finder after another over the  *)
(* same database: the load of the database (one block per thread), the     *)
(* thread pool's stat and list tasks, the answer of New, the dump of the   *)
(* database in the background, and a crash at any point.  Around it, the   *)
(* file system: directories and files come and go, and permissions change. *)
(*                                                                         *)
(* Abstractions.  The inode and the device of a Stat are not represented:  *)
(* a directory that is created again carries a new time.  A block of the   *)
(* database holds one directory, so every order of the Stats of a load is  *)
(* possible.  The size of the thread pool is not represented: its tasks    *)
(* never wait for each other, so it only excludes interleavings.           *)
(***************************************************************************)
EXTENDS Integers, FiniteSets

CONSTANTS
    Dirs,         \* the directories that may exist below the root directories
    Top,          \* the node "/" above the root directories
    Parent,       \* Parent[d]: the directory that contains d, or Top
    Above,        \* Above[d]: d and the directories that contain it
    FileNames,    \* the names a file can have
    PruneFiles,   \* CacheParams.PruneFiles
    ExcludeDirs,  \* the directories with a name in CacheParams.ExcludeDirs
    IncludeLists, \* the values CacheParams.IncludeFiles takes from run to run
    QuietLoad,    \* TRUE: the file system does not change while a Finder loads
    FineClock,    \* TRUE: two changes of a directory never leave equal stamps
    MaxClock      \* bound on the number of changes of the file system

ASSUME TopAssumption == Top \notin Dirs

ASSUME TreeAssumption ==
    /\ Parent \in [Dirs -> Dirs \cup {Top}]
    /\ Above \in [Dirs -> SUBSET Dirs]
    /\ \A d \in Dirs :
          Above[d] = {d} \cup (IF Parent[d] = Top THEN {} ELSE Above[Parent[d]])

ASSUME NamesAssumption ==
    /\ PruneFiles \subseteq FileNames
    /\ ExcludeDirs \subseteq Dirs
    /\ IncludeLists \subseteq SUBSET FileNames

ASSUME BoundAssumption ==
    /\ QuietLoad \in BOOLEAN
    /\ FineClock \in BOOLEAN
    /\ MaxClock \in Nat \ {0}

VARIABLES
    mtime,    \* file system: when the directory changed, 0 if it does not exist
    ctime,    \* file system: when its inode changed, its permissions included
    files,    \* file system: the files in each directory
    readable, \* file system: whether ReadDir of the directory is permitted
    clock,    \* file system: the stamp of the latest change
    db,       \* the database file
    tmp,      \* the temporary file the database is written to
    phase,    \* where New is
    include,  \* IncludeFiles of this Finder
    toLoad,   \* directories of the database whose block is not yet processed
    toWalk,   \* nodesToWalk: directories found changed by the load
    kids,     \* pathMap.children
    mod,      \* mapNode.ModTime: the Stat the node was built from
    names,    \* mapNode.FileNames
    stats,    \* pending statDirAsync tasks
    lists,    \* pending listDirAsync tasks
    modified, \* modifiedFlag
    errs,     \* fsErrs
    dump      \* progress of the goroutine that runs dumpDb

fsVars == <<mtime, ctime, files, readable, clock>>
dbVars == <<db, tmp>>
treeVars == <<kids, mod, names>>
taskVars == <<toLoad, toWalk, stats, lists>>
finderVars == <<phase, include, taskVars, treeVars, modified, errs, dump>>
vars == <<fsVars, dbVars, finderVars>>

Nodes == Dirs \cup {Top}
Roots == {d \in Dirs : Parent[d] = Top}
Stamps == 0 .. MaxClock

-----------------------------------------------------------------------------
(* The file system.                                                        *)

Exists(d) == mtime[d] # 0

\* Time passes before a change.  With a coarse clock a second change can carry
\* the time of the first.
Tick(t) ==
    /\ t \in (IF FineClock THEN {clock + 1} ELSE {clock, clock + 1})
    /\ t <= MaxClock
    /\ clock' = t

\* A quiet load sees a file system nobody changes.
MayChange == QuietLoad => phase \notin {"loading", "walking"}

\* The time t goes into the inodes ds.
Touch(times, ds, t) == [d \in Dirs |-> IF d \in ds THEN t ELSE times[d]]

\* An entry is added to or removed from the directories ds.
Written(ds) ==
    \E t \in Stamps : /\ Tick(t)
                      /\ mtime' = Touch(mtime, ds, t)
                      /\ ctime' = Touch(ctime, ds, t)

Mkdir(d) ==
    /\ MayChange
    /\ ~Exists(d)
    /\ IF Parent[d] = Top THEN TRUE ELSE Exists(Parent[d])
    /\ Written({d, Parent[d]})
    /\ files' = [files EXCEPT ![d] = {}]
    /\ readable' = [readable EXCEPT ![d] = TRUE]
    /\ UNCHANGED <<dbVars, finderVars>>

RemoveAll(d) ==
    /\ MayChange
    /\ Exists(d)
    /\ \E t \in Stamps :
          LET gone(times) == [x \in Dirs |-> IF d \in Above[x] THEN 0 ELSE times[x]]
          IN  /\ Tick(t)
              /\ mtime' = gone(Touch(mtime, {Parent[d]}, t))
              /\ ctime' = gone(Touch(ctime, {Parent[d]}, t))
    /\ files' = [x \in Dirs |-> IF d \in Above[x] THEN {} ELSE files[x]]
    /\ UNCHANGED <<readable, dbVars, finderVars>>

\* A file is created in d, or removed from it.
ChangeFiles(d, f) ==
    /\ MayChange
    /\ Exists(d)
    /\ Written({d})
    /\ files' = [files EXCEPT ![d] = IF f \in @ THEN @ \ {f} ELSE @ \cup {f}]
    /\ UNCHANGED <<readable, dbVars, finderVars>>

\* The mode of d changes: its ctime changes, its mtime does not.
Chmod(d) ==
    /\ MayChange
    /\ Exists(d)
    /\ \E t \in Stamps : Tick(t) /\ ctime' = Touch(ctime, {d}, t)
    /\ readable' = [readable EXCEPT ![d] = ~@]
    /\ UNCHANGED <<mtime, files, dbVars, finderVars>>

FileSystem ==
    \E d \in Dirs : \/ Mkdir(d)
                    \/ RemoveAll(d)
                    \/ \E f \in FileNames : ChangeFiles(d, f)
                    \/ Chmod(d)

-----------------------------------------------------------------------------
(* Calls to the file system.                                               *)

\* Errors carry the errno of the system call.
LstatError(d) == IF Exists(d) THEN "none" ELSE "ENOENT"

ReadDirError(d) == IF ~Exists(d) THEN "ENOENT"
                   ELSE IF ~readable[d] THEN "EACCES"
                   ELSE "none"

\* os.IsPermission looks through to the errno; the comparison with
\* os.ErrNotExist does not, and no errno is equal to it.
canIgnoreFsErr(err) == err \in {"EACCES", "os.ErrNotExist"}

onFsError(es, d, err) ==
    IF err = "none" \/ canIgnoreFsErr(err) THEN es ELSE es \cup {d}

\* The later of the two times; 0 for a directory that cannot be statted.
statDirSync(d) == IF ctime[d] > mtime[d] THEN ctime[d] ELSE mtime[d]

isInfoUpToDate(old, new) == old = new

\* What listDirSync keeps of the listing of d, as the file system is now.
Pruned(d) == files[d] \cap PruneFiles # {}

FilesOf(d) == IF ReadDirError(d) # "none" \/ Pruned(d) THEN {}
              ELSE files[d] \cap include

SubdirsOf(d) == IF ReadDirError(d) # "none" \/ Pruned(d) THEN {}
                ELSE {c \in Dirs \ ExcludeDirs : Parent[c] = d /\ Exists(c)}

-----------------------------------------------------------------------------
(* The tree of nodes.                                                      *)

EmptyTree ==
    /\ kids' = [n \in Nodes |-> {}]
    /\ mod' = [d \in Dirs |-> 0]
    /\ names' = [d \in Dirs |-> {}]

\* GetNode(d, false) finds a node.
InTree(d) == \A x \in Above[d] : x \in kids[Parent[x]]

\* GetNode(d, true) creates the nodes that are missing on the way to d.
GetNode(d) == [n \in Nodes |-> kids[n] \cup {x \in Above[d] : Parent[x] = n}]

\* sortedDirEntries: what is dumped of the tree.
DirEntries == {d \in Dirs : InTree(d) /\ mod[d] # 0}

serializeDb == [state   |-> "valid",
                params  |-> include,
                entries |-> [d \in DirEntries |-> [T |-> mod[d], F |-> names[d]]]]

NoEntries == [d \in {} |-> [T |-> 0, F |-> {}]]
NoDb == [state |-> "absent", params |-> {}, entries |-> NoEntries]
TornDb == [state |-> "torn", params |-> {}, entries |-> NoEntries]

validateCacheHeader == db.state # "absent" /\ db.params = include'

-----------------------------------------------------------------------------
(* The Finder.                                                             *)

\* startWithoutExternalCache: stat the root directories.
startWithoutExternalCache ==
    /\ phase' = "walking"
    /\ kids' = [n \in Nodes |-> IF n = Top THEN Roots ELSE {}]
    /\ mod' = [d \in Dirs |-> 0]
    /\ names' = [d \in Dirs |-> {}]
    /\ stats' = Roots
    /\ lists' = {}
    /\ toLoad' = {}
    /\ toWalk' = {}

startFromExternalCache ==
    /\ phase' = "loading"
    /\ EmptyTree
    /\ stats' = {}
    /\ lists' = {}
    /\ toLoad' = DOMAIN db.entries
    /\ toWalk' = {}

New ==
    /\ phase = "off"
    /\ include' \in IncludeLists
    /\ IF validateCacheHeader THEN startFromExternalCache
                              ELSE startWithoutExternalCache
    /\ modified' = FALSE
    /\ errs' = {}
    /\ dump' = "none"
    /\ UNCHANGED <<fsVars, dbVars>>

\* Mutant: a directory found changed does not mark the database modified.
loadBytesUnmodified(d) ==
    /\ phase = "loading"
    /\ d \in toLoad
    /\ toLoad' = toLoad \ {d}
    /\ errs' = onFsError(errs, d, LstatError(d))
    /\ kids' = GetNode(d)
    /\ mod' = [mod EXCEPT ![d] = statDirSync(d)]
    /\ IF ~isInfoUpToDate(db.entries[d].T, statDirSync(d)) /\ statDirSync(d) # 0
       THEN toWalk' = toWalk \cup {d} /\ UNCHANGED names
       ELSE names' = [names EXCEPT ![d] = db.entries[d].F] /\ UNCHANGED toWalk
    /\ UNCHANGED <<fsVars, dbVars, phase, include, stats, lists, modified, dump>>

\* One block is parsed, its directory statted, and the result merged into the
\* tree.  A directory that is gone keeps the file names of the database.
loadBytes(d) ==
    /\ phase = "loading"
    /\ d \in toLoad
    /\ toLoad' = toLoad \ {d}
    /\ errs' = onFsError(errs, d, LstatError(d))
    /\ kids' = GetNode(d)
    /\ mod' = [mod EXCEPT ![d] = statDirSync(d)]
    /\ IF ~isInfoUpToDate(db.entries[d].T, statDirSync(d)) /\ statDirSync(d) # 0
       THEN /\ modified' = TRUE
            /\ toWalk' = toWalk \cup {d}
            /\ UNCHANGED names
       ELSE /\ names' = [names EXCEPT ![d] = db.entries[d].F]
            /\ UNCHANGED <<modified, toWalk>>
    /\ UNCHANGED <<fsVars, dbVars, phase, include, stats, lists, dump>>

\* Every block is merged: list the directories that changed.
listDirsAsync ==
    /\ phase = "loading"
    /\ toLoad = {}
    /\ db.state = "valid"
    /\ phase' = "walking"
    /\ lists' = toWalk
    /\ toWalk' = {}
    /\ UNCHANGED <<fsVars, dbVars, include, toLoad, stats, treeVars, modified, errs, dump>>

\* A block does not parse: combineResults waits for the others, drops the tree
\* and the scan starts again without the database.
parseCacheEntryFails ==
    /\ phase = "loading"
    /\ toLoad = {}
    /\ db.state = "torn"
    /\ startWithoutExternalCache
    /\ UNCHANGED <<fsVars, dbVars, include, modified, errs, dump>>

statDirAsync(d) ==
    /\ phase = "walking"
    /\ d \in stats
    /\ stats' = stats \ {d}
    /\ errs' = onFsError(errs, d, LstatError(d))
    /\ IF ~isInfoUpToDate(mod[d], statDirSync(d))
       THEN /\ mod' = [mod EXCEPT ![d] = statDirSync(d)]
            /\ names' = [names EXCEPT ![d] = {}]
            /\ modified' = TRUE
            /\ lists' = IF statDirSync(d) # 0 THEN lists \cup {d} ELSE lists
       ELSE UNCHANGED <<mod, names, modified, lists>>
    /\ UNCHANGED <<fsVars, dbVars, phase, include, toLoad, toWalk, kids, dump>>

\* listDirSync with what it does to the three variables mutants disturb.
listing(d, newLists, newStats, newKids) ==
    /\ phase = "walking"
    /\ d \in lists
    /\ lists' = newLists
    /\ errs' = onFsError(errs, d, ReadDirError(d))
    /\ stats' = newStats
    /\ kids' = [kids EXCEPT ![d] = newKids]
    /\ names' = [names EXCEPT ![d] = FilesOf(d)]
    /\ UNCHANGED <<fsVars, dbVars, phase, include, toLoad, toWalk, mod, modified, dump>>

\* Mutants: new subdirectories are not statted; subdirectories that are gone
\* stay in the tree; the task never leaves the thread pool.
listDirSyncNoStat(d) == listing(d, lists \ {d}, stats, SubdirsOf(d))
listDirSyncKeepsKids(d) ==
    listing(d, lists \ {d}, stats \cup (SubdirsOf(d) \ kids[d]), kids[d] \cup SubdirsOf(d))
listDirSyncStays(d) ==
    listing(d, lists, stats \cup (SubdirsOf(d) \ kids[d]), SubdirsOf(d))

\* A subdirectory the tree already knows is not statted again.
listDirSync(d) ==
    /\ phase = "walking"
    /\ d \in lists
    /\ lists' = lists \ {d}
    /\ errs' = onFsError(errs, d, ReadDirError(d))
    /\ stats' = stats \cup (SubdirsOf(d) \ kids[d])
    /\ kids' = [kids EXCEPT ![d] = SubdirsOf(d)]
    /\ names' = [names EXCEPT ![d] = FilesOf(d)]
    /\ UNCHANGED <<fsVars, dbVars, phase, include, toLoad, toWalk, mod, modified, dump>>

\* discardErrsForPrunedPaths, then the check that the root directories exist.
getErr == {d \in errs : InTree(d)}

RootsMissing == \E d \in Roots : ~InTree(d) \/ mod[d] = 0

\* Mutant: the directories are statted after they were listed.
NewReturnsRestat ==
    /\ phase = "walking"
    /\ stats = {}
    /\ lists = {}
    /\ mod' = [d \in Dirs |-> IF InTree(d) THEN statDirSync(d) ELSE mod[d]]
    /\ dump' = IF modified THEN "serialized" ELSE "none"
    /\ phase' = IF getErr # {} \/ RootsMissing THEN "failed" ELSE "ready"
    /\ UNCHANGED <<fsVars, dbVars, include, taskVars, kids, names, modified, errs>>

\* The thread pool is idle: the dump starts, and New returns.
NewReturns ==
    /\ phase = "walking"
    /\ stats = {}
    /\ lists = {}
    /\ dump' = IF modified THEN "serialized" ELSE "none"
    /\ phase' = IF getErr # {} \/ RootsMissing THEN "failed" ELSE "ready"
    /\ UNCHANGED <<fsVars, dbVars, include, taskVars, treeVars, modified, errs>>

\* dumpDb: WriteFile truncates the temporary file, then writes it; Rename
\* replaces the database in one step.
dumpTruncate ==
    /\ dump = "serialized"
    /\ tmp' = TornDb
    /\ dump' = "writing"
    /\ UNCHANGED <<fsVars, db, phase, include, taskVars, treeVars, modified, errs>>

dumpWrite ==
    /\ dump = "writing"
    /\ tmp' = serializeDb
    /\ dump' = "written"
    /\ UNCHANGED <<fsVars, db, phase, include, taskVars, treeVars, modified, errs>>

dumpRename ==
    /\ dump = "written"
    /\ db' = tmp
    /\ tmp' = NoDb
    /\ dump' = "done"
    /\ UNCHANGED <<fsVars, phase, include, taskVars, treeVars, modified, errs>>

\* The process ends: nothing of the Finder but its files survives.
Exit ==
    /\ phase' = "off"
    /\ include' = {}
    /\ EmptyTree
    /\ toLoad' = {}
    /\ toWalk' = {}
    /\ stats' = {}
    /\ lists' = {}
    /\ modified' = FALSE
    /\ errs' = {}
    /\ dump' = "none"
    /\ UNCHANGED <<fsVars, dbVars>>

\* Shutdown waits for the dump; a failed New does not, the caller is fatal.
Shutdown ==
    /\ phase = "ready"
    /\ dump \in {"none", "done"}
    /\ Exit

Crash ==
    /\ phase # "off"
    /\ Exit

Load ==
    \/ New
    \/ \E d \in Dirs : loadBytes(d) \/ statDirAsync(d) \/ listDirSync(d)
    \/ listDirsAsync
    \/ parseCacheEntryFails
    \/ NewReturns

dumpDb == dumpTruncate \/ dumpWrite \/ dumpRename

\* The file of the database is damaged while no Finder runs.
DamageDb ==
    /\ phase = "off"
    /\ db.state = "valid"
    /\ \E ds \in SUBSET DOMAIN db.entries :
          /\ ds # DOMAIN db.entries
          /\ db' = [db EXCEPT !.state = "torn",
                              !.entries = [d \in ds |-> db.entries[d]]]
    /\ UNCHANGED <<fsVars, tmp, finderVars>>

Init ==
    /\ mtime \in [Dirs -> {0, 1}]
    /\ ctime = mtime
    /\ \A d \in Dirs : Exists(d) => \A x \in Above[d] : Exists(x)
    /\ files \in [Dirs -> SUBSET FileNames]
    /\ \A d \in Dirs : ~Exists(d) => files[d] = {}
    /\ readable = [d \in Dirs |-> TRUE]
    /\ clock = 1
    /\ db = NoDb
    /\ tmp = NoDb
    /\ phase = "off"
    /\ include = {}
    /\ toLoad = {}
    /\ toWalk = {}
    /\ kids = [n \in Nodes |-> {}]
    /\ mod = [d \in Dirs |-> 0]
    /\ names = [d \in Dirs |-> {}]
    /\ stats = {}
    /\ lists = {}
    /\ modified = FALSE
    /\ errs = {}
    /\ dump = "none"

Next ==
    \/ FileSystem
    \/ Load
    \/ dumpDb
    \/ Shutdown
    \/ Crash
    \/ DamageDb

Spec == Init /\ [][Next]_vars

\* The goroutines of the thread pool and of the dump are scheduled by the Go
\* runtime, and New waits for all of them.  Nothing makes a Finder start, exit
\* or crash, nor the file system change.
Running == Load /\ phase # "off"

FairSpec == Spec /\ WF_vars(Running) /\ WF_vars(dumpDb)

-----------------------------------------------------------------------------
(* Properties.                                                             *)

DbType ==
    [state : {"absent", "torn", "valid"}, params : SUBSET FileNames,
     entries : UNION {[ds -> [T : Stamps, F : SUBSET FileNames]] : ds \in SUBSET Dirs}]

\* The type of every variable.
TypeOK ==
    /\ mtime \in [Dirs -> Stamps]
    /\ ctime \in [Dirs -> Stamps]
    /\ files \in [Dirs -> SUBSET FileNames]
    /\ readable \in [Dirs -> BOOLEAN]
    /\ clock \in Stamps
    /\ db \in DbType
    /\ tmp \in DbType
    /\ phase \in {"off", "loading", "walking", "ready", "failed"}
    /\ include \in SUBSET FileNames
    /\ toLoad \in SUBSET Dirs
    /\ toWalk \in SUBSET Dirs
    /\ kids \in [Nodes -> SUBSET Dirs]
    /\ mod \in [Dirs -> Stamps]
    /\ names \in [Dirs -> SUBSET FileNames]
    /\ stats \in SUBSET Dirs
    /\ lists \in SUBSET Dirs
    /\ modified \in BOOLEAN
    /\ errs \in SUBSET Dirs
    /\ dump \in {"none", "serialized", "writing", "written", "done"}

\* The relevant content of d for a list of included files, on the file system
\* as it is now.
Content(d, incl) ==
    IF ~Exists(d) \/ ~readable[d] \/ Pruned(d) THEN {} ELSE files[d] \cap incl

\* A directory whose Stat still equals the one in the database has the files
\* the database lists for it: loadBytes may skip its ReadDir.  This is what
\* statting a directory before listing it buys, whatever the file system does
\* in between, and through crashes during a dump.
DbFilesSound ==
    db.state = "valid" =>
        \A d \in DOMAIN db.entries :
            db.entries[d].T = statDirSync(d) => db.entries[d].F = Content(d, db.params)

\* Every relevant subdirectory of a directory whose Stat still equals the one
\* in the database is in the database too: a load that skips the ReadDir of the
\* directory misses no part of the tree below it.
DbTreeSound ==
    db.state = "valid" =>
        \A d \in DOMAIN db.entries :
            db.entries[d].T = statDirSync(d) => SubdirsOf(d) \subseteq DOMAIN db.entries

\* The directories a scan of the file system should visit, from their
\* definition in CacheParams rather than from the walk.
Wanted(d) ==
    /\ Exists(d)
    /\ \A x \in Above[d] \ Roots : x \notin ExcludeDirs
    /\ \A x \in Above[d] \ {d} : readable[x] /\ ~Pruned(x)

\* When New succeeds on a file system that did not change under it, the tree
\* holds exactly the wanted directories and their relevant files, whatever the
\* database said: deleted directories and directories under a new prune file
\* are gone, new ones are found.
LoadExact ==
    [][phase = "walking" /\ phase' = "ready" =>
          \A d \in Dirs : /\ InTree(d) <=> Wanted(d)
                          /\ Wanted(d) => names[d] = Content(d, include)]_vars

\* A New that finds its database unmodified and skips the dump leaves on disk
\* the very database it would have dumped (goDumpDb).
SkippedDumpIsCurrent ==
    [][phase = "walking" /\ phase' = "ready" /\ ~modified => db = serializeDb]_vars

\* New fails only if a root directory is missing: the error recorded for a
\* cached directory that no longer exists never survives, be it because its
\* parent was listed again and dropped it or because canIgnoreFsErr ignores it.
FailsOnlyWithoutRoot ==
    [][phase = "walking" /\ phase' = "failed" => \E d \in Roots : ~Exists(d)]_vars

\* Every New returns and every dump that started ends, unless the process ends
\* first: no chain of stat and list tasks waits for itself.
NewEventuallyReturns ==
    /\ phase \in {"loading", "walking"} ~> phase \in {"ready", "failed", "off"}
    /\ dump = "serialized" ~> dump \in {"done", "none"}

=============================================================================
