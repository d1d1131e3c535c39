----------------------------- MODULE ZipLayout ------------------------------
(***************************************************************************)
(* The entries of a zip file (addFile, addManifest, writeDirectory and     *)
(* jarSort of zip/zip.go, EntryNamesLess of jar/jar.go): the goroutine     *)
(* that adds files keeps two maps of the directories and files it created, *)
(* adds the directories a file needs, and refuses destinations that        *)
(* collide.  ZipWriter models what happens to the entries it queues.       *)
(*                                                                         *)
(* A destination is a model value of a tree; names are compared by their   *)
(* position in the constant Alphabet.                                      *)
(***************************************************************************)
EXTENDS Integers, Sequences, FiniteSets, SequencesExt

CONSTANTS
    Dests,        \* the destinations
    Dot,          \* the directory "." that contains them
    Parent,       \* Parent[d]: filepath.Dir of d
    Above,        \* Above[d]: the directories that contain d, without Dot
    Alphabet,     \* the destinations in alphabetic order
    MetaDir,      \* META-INF
    ManifestFile, \* META-INF/MANIFEST.MF
    Package,      \* Package[d]: where the package of the .java file for d puts it
    Sources,      \* the mappings for the files to zip
    MaxFiles      \* bound on the number of files to zip

\* What Stat finds at the source of a mapping; a symbolic link that is stored
\* as one is added like a file.
Kinds == {"file", "dir", "missing", "device"}

Mapping == [dest : Dests, kind : Kinds] \cup [dest : {Dot}, kind : {"dir"}]

VARIABLES
    pathMappings,
    emulateJar,
    srcJar,
    directories,        \* z.directories
    ignoreMissingFiles,
    next,               \* the index of the mapping to add
    createdDirs,
    createdFiles,
    written,            \* the entries queued: their name, and whether it is a directory
    err

params == <<pathMappings, emulateJar, srcJar, directories, ignoreMissingFiles>>
vars == <<params, next, createdDirs, createdFiles, written, err>>

-----------------------------------------------------------------------------
(* The order of the entries of a jar.                                      *)

\* The position in jarOrder.  Its first pattern, META-INF/, ends in a slash
\* and no destination does.
index(d) == IF d = ManifestFile THEN 1
            ELSE IF MetaDir \in Above[d] THEN 2
            ELSE 3

Position(d) == CHOOSE n \in DOMAIN Alphabet : Alphabet[n] = d

EntryNamesLess(a, b) ==
    \/ index(a) < index(b)
    \/ index(a) = index(b) /\ Position(a) < Position(b)

\* The sort is stable: equal destinations keep their order.
jarSort(ms) ==
    LET before(i, j) == \/ EntryNamesLess(ms[i].dest, ms[j].dest)
                        \/ ms[i].dest = ms[j].dest /\ i < j
        rank(i) == Cardinality({j \in DOMAIN ms : before(j, i)}) + 1
    IN  [n \in DOMAIN ms |-> ms[CHOOSE i \in DOMAIN ms : rank(i) = n]]

-----------------------------------------------------------------------------
(* Adding a file.                                                          *)

\* The directories the walk upwards from d visits.
Path(d) == IF d = Dot THEN {} ELSE {d} \cup Above[d]

\* The part of the path of d strictly below the directories of ds, of which
\* the walk upwards meets the innermost first.
Below(d, ds) == {x \in Path(d) : (Path(d) \cap ds) \cap ({x} \cup {y \in Path(d) : x \in Above[y]}) = {}}

\* Mutant: the walk does not look at the files.
dirCollidesNever(d) == FALSE

\* The walk from d up meets a file before a directory it created.
dirCollides(d) == Below(d, createdDirs) \cap createdFiles # {}

\* createdDirs after the walk, which stops at a file.
dirsAfter(d) == createdDirs \cup Below(d, createdDirs \cup createdFiles)

\* The directory entries queued, parents before their children.
dirEntries(d) ==
    IF directories /\ ~dirCollides(d)
    THEN LET ds == SetToSortSeq(Below(d, createdDirs), LAMBDA x, y : x \in Above[y])
         IN  [n \in DOMAIN ds |-> [name |-> ds[n], dir |-> TRUE]]
    ELSE <<>>

writeDirectory(d) ==
    /\ createdDirs' = dirsAfter(d)
    /\ written' = written \o dirEntries(d)

\* writeDirectory, then the entry of a file.
writeFile(d) ==
    /\ createdDirs' = dirsAfter(Parent[d])
    /\ written' = Append(written \o dirEntries(Parent[d]), [name |-> d, dir |-> FALSE])

Skip == UNCHANGED <<createdDirs, createdFiles, written, err>>

Fail == err' = TRUE /\ UNCHANGED createdFiles

addDirectory(d) ==
    IF directories
    THEN writeDirectory(d) /\ err' = dirCollides(d) /\ UNCHANGED createdFiles
    ELSE Skip

\* Mutant: a second file with the destination of the first is let through.
addRegularTwice(d) ==
    IF dirCollides(Parent[d]) \/ d \in dirsAfter(Parent[d])
    THEN writeDirectory(Parent[d]) /\ Fail
    ELSE writeFile(d) /\ createdFiles' = createdFiles \cup {d} /\ UNCHANGED err

\* createParentDirs looks at the maps after it created the directories.
addRegular(d) ==
    IF dirCollides(Parent[d]) \/ d \in dirsAfter(Parent[d]) \cup createdFiles
    THEN writeDirectory(Parent[d]) /\ Fail
    ELSE writeFile(d) /\ createdFiles' = createdFiles \cup {d} /\ UNCHANGED err

\* With srcJar the package of a .java file decides where it goes.
StoredAt(m) == IF srcJar /\ m.kind = "file" THEN Package[m.dest] ELSE m.dest

addFile(m) ==
    CASE m.kind = "missing" /\ ignoreMissingFiles -> Skip
      [] m.kind = "missing" /\ ~ignoreMissingFiles -> Fail /\ UNCHANGED <<createdDirs, written>>
      [] m.kind = "device" -> Fail /\ UNCHANGED <<createdDirs, written>>
      [] m.kind = "dir" -> addDirectory(m.dest)
      [] m.kind = "file" -> addRegular(StoredAt(m))

\* The source of the manifest is read after its directory is created.  The
\* manifest is not recorded in createdFiles.
addManifest(m) ==
    IF m.dest \in createdDirs \cup createdFiles
    THEN Fail /\ UNCHANGED <<createdDirs, written>>
    ELSE IF dirCollides(Parent[m.dest]) \/ m.kind # "file"
    THEN writeDirectory(Parent[m.dest]) /\ Fail
    ELSE writeFile(m.dest) /\ UNCHANGED <<createdFiles, err>>

\* One iteration of the loop over pathMappings, which an error ends.
Add ==
    /\ ~err
    /\ next \in DOMAIN pathMappings
    /\ IF emulateJar /\ pathMappings[next].dest = ManifestFile
       THEN addManifest(pathMappings[next])
       ELSE addFile(pathMappings[next])
    /\ next' = next + 1
    /\ UNCHANGED params

\* The mappings that ZipTo passes to write.
Args == UNION {[1 .. n -> Sources] : n \in 0 .. MaxFiles}

Init ==
    /\ emulateJar \in BOOLEAN
    /\ srcJar \in BOOLEAN
    /\ directories \in IF emulateJar THEN {TRUE} ELSE BOOLEAN
    /\ ignoreMissingFiles \in BOOLEAN
    /\ \E ms \in Args, k \in {"file", "missing"} :
          pathMappings = IF emulateJar
                         THEN jarSort(Append(ms, [dest |-> ManifestFile, kind |-> k]))
                         ELSE ms
    /\ next = 1
    /\ createdDirs = {}
    /\ createdFiles = {}
    /\ written = <<>>
    /\ err = FALSE

Spec == Init /\ [][Add]_vars

-----------------------------------------------------------------------------
(* Properties.                                                             *)

\* What the mappings ask for, without regard to their order: the files, and
\* the directories as such or because they contain a file.
FileAt(n) == pathMappings[n].kind = "file"
DirAt(n) == directories /\ pathMappings[n].kind = "dir"

Manifest(n) == emulateJar /\ pathMappings[n].dest = ManifestFile

DirsWanted ==
    UNION {Above[StoredAt(pathMappings[n])] : n \in {i \in DOMAIN pathMappings : FileAt(i)}}
        \cup UNION {Path(pathMappings[n].dest) : n \in {i \in DOMAIN pathMappings : DirAt(i)}}

Collision ==
    \E i \in DOMAIN pathMappings :
        /\ FileAt(i)
        /\ \/ StoredAt(pathMappings[i]) \in DirsWanted
           \/ /\ ~Manifest(i)
              /\ \E j \in DOMAIN pathMappings \ {i} :
                    FileAt(j) /\ StoredAt(pathMappings[j]) = StoredAt(pathMappings[i])

Unreadable ==
    \E i \in DOMAIN pathMappings :
        \/ pathMappings[i].kind = "device"
        \/ /\ pathMappings[i].kind = "missing"
           /\ ignoreMissingFiles => Manifest(i)
        \/ pathMappings[i].kind = "dir" /\ Manifest(i)

Done == err \/ next > Len(pathMappings)

\* The incremental maps give the verdict that the set of mappings deserves:
\* write fails if and only if a source cannot be added, two files other than
\* manifests have one destination, or a destination is both a directory and a file, in whatever
\* order they are given.
ErrorsExact == Done => (err <=> Collision \/ Unreadable)

\* No two entries of the archive have one destination: addFile and addManifest
\* refuse a destination that "has two files" or is "both a directory and a
\* file".  Only the manifest of a jar whose files contain another one is there
\* twice, since addManifest does not record it.  Every directory on the path of an
\* entry precedes the entry, when directories have entries: "parent directories
\* precede their children".  A jar begins with META-INF/ and its manifest.
EntriesOrdered ==
    /\ \A i, j \in DOMAIN written :
        written[i].name = written[j].name =>
            \/ i = j
            \/ emulateJar /\ written[i] = [name |-> ManifestFile, dir |-> FALSE]
    /\ directories =>
        \A i \in DOMAIN written : \A d \in Above[written[i].name] :
            \E j \in 1 .. i - 1 : written[j] = [name |-> d, dir |-> TRUE]
    /\ emulateJar /\ Done /\ ~err =>
        /\ Len(written) > 1
        /\ written[1] = [name |-> MetaDir, dir |-> TRUE]
        /\ written[2] = [name |-> ManifestFile, dir |-> FALSE]

=============================================================================
