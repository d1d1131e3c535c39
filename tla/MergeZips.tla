----------------------------- MODULE MergeZips ------------------------------
(***************************************************************************)
(* merge_zips (cmd/merge_zips/merge_zips.go) merges archives into one.  An *)
(* entry is taken from the first place that has it: the manifest, the main *)
(* program and the packages made for a par file come before the inputs.    *)
(* When the entries are sorted they are written at the end, and inputs are *)
(* opened again for it; the manager keeps the number of open ones bounded  *)
(* with a list that is linked both ways.                                   *)
(*                                                                         *)
(* An entry is its name, whether it is a directory, and its data, which    *)
(* stands for the checksum and the size that are compared.  The patterns   *)
(* of -stripDir and -stripFile are given by the names that they match.     *)
(***************************************************************************)
EXTENDS Integers, Sequences, FiniteSets, SequencesExt

CONSTANTS
    Zips,         \* the input files
    Dummy,        \* the element openInputZips of the list
    Nil, None,
    Alphabet,     \* the names of entries, in alphabetical order
    Package,      \* filepath.Dir of each name, and of each package; None for "." and "/"
    InitFile,     \* the name of __init__.py of each package, and of None
    MetaDir, ManifestFile, ModuleInfoClass, MainFile,
    InMetaDir,    \* the names below META-INF
    maxOpenZips,
    Inputs        \* the arguments, with what is in the files they name

VARIABLES
    in,           \* the arguments
    pc,
    zip, index,   \* the input that is read, and its entry
    sourceByDest, \* the entries taken so far
    packages,     \* those found, those that have __init__.py, and those without it
    list,         \* InputZipsManager: nOpenZips, the open zips, and the links
    out           \* the entries written, each with its source

vars == <<in, pc, zip, index, sourceByDest, packages, list, out>>

Names == ToSet(Alphabet)
Buffer(name, data) == [name |-> name, dir |-> name = MetaDir, data |-> data, from |-> None]
rearrange == in.emulateJar \/ in.sortEntries

-----------------------------------------------------------------------------
(* The open inputs.  In Dummy, older is the last one opened.                *)

unlink(l, z) ==
    [l EXCEPT !.newer = [@ EXCEPT ![l.older[z]] = l.newer[z], ![z] = Nil],
              !.older = [@ EXCEPT ![l.newer[z]] = l.older[z], ![z] = Nil]]

link(l, z) ==
    [l EXCEPT !.newer = [@ EXCEPT ![l.older[Dummy]] = z, ![z] = Dummy],
              !.older = [@ EXCEPT ![Dummy] = z, ![z] = l.older[Dummy]]]

closeZip(l, z) ==
    IF z \in l.open THEN unlink([l EXCEPT !.open = @ \ {z}, !.nOpenZips = @ - 1], z) ELSE l

\* Mutant: a file is closed only when there are more than allowed.
reopenLate(l, z) ==
    IF z \in l.open
    THEN link(unlink(l, z), z)
    ELSE LET room == IF l.nOpenZips > maxOpenZips THEN closeZip(l, l.older[Dummy]) ELSE l
         IN  link([room EXCEPT !.open = @ \cup {z}, !.nOpenZips = @ + 1], z)

\* InputZipsManager.reopen, for a file that can be opened.
reopen(l, z) ==
    IF z \in l.open
    THEN link(unlink(l, z), z)
    ELSE LET room == IF l.nOpenZips >= maxOpenZips THEN closeZip(l, l.older[Dummy]) ELSE l
         IN  link([room EXCEPT !.open = @ \cup {z}, !.nOpenZips = @ + 1], z)

unreadable(z) == z \notin list.open /\ in.entries[z] = None

-----------------------------------------------------------------------------
(* What becomes of an entry.                                               *)

\* isEntryExcluded.  The test for the names of the manifest changes nothing:
\* the statement after it returns true as well.
isEntryExcluded(name) ==
    \/ "META-INF" \in in.excludeDirs /\ name \in InMetaDir
    \/ name \in in.excludeFiles

\* A new entry is written at once, unless the entries are rearranged.
addZipEntry(source) ==
    IF source.name \in DOMAIN sourceByDest
    THEN UNCHANGED <<sourceByDest, out>>
    ELSE /\ sourceByDest' = [n \in DOMAIN sourceByDest \cup {source.name} |->
                                IF n = source.name THEN source ELSE sourceByDest[n]]
         /\ out' = IF rearrange THEN out ELSE Append(out, source)

\* Mutant: only a manifest may differ, and not the description of a module.
DuplicateStrict(a, b) ==
    \/ in.ignoreDuplicates
    \/ in.emulateJar /\ b.name = ManifestFile
    \/ a.data = b.data
    \/ b.dir

\* The second of two entries is left out without an error.
Duplicate(a, b) ==
    \/ in.ignoreDuplicates
    \/ in.emulateJar /\ b.name = ManifestFile
    \/ b.name = ModuleInfoClass
    \/ a.data = b.data
    \/ b.dir

mismatch(source) ==
    /\ source.name \in DOMAIN sourceByDest
    /\ LET old == sourceByDest[source.name]
       IN  old.dir # source.dir \/ ~Duplicate(old, source)

-----------------------------------------------------------------------------
(* mergeZips.                                                              *)

Goto(step) == pc' = step /\ zip' = 1 /\ index' = 1

\* main refuses some arguments, after it created the output file.
main ==
    /\ pc = "main"
    /\ Goto(IF (in.manifest # None /\ ~in.emulateJar) \/ (in.pyMain # None /\ ~in.emulatePar)
            THEN "failed" ELSE "meta_dir")
    /\ UNCHANGED <<in, sourceByDest, packages, list, out>>

\* addManifest first adds the directory of the manifest, then the manifest.
\* A file that cannot be read is Nil.
addManifest ==
    \/ /\ pc = "meta_dir"
       /\ IF in.manifest # None /\ ~in.stripDirEntries
          THEN addZipEntry(Buffer(MetaDir, 0))
          ELSE UNCHANGED <<sourceByDest, out>>
       /\ Goto("manifest")
       /\ UNCHANGED <<in, packages, list>>
    \/ /\ pc = "manifest"
       /\ IF in.manifest \notin {None, Nil}
          THEN addZipEntry(Buffer(ManifestFile, in.manifest))
          ELSE UNCHANGED <<sourceByDest, out>>
       /\ Goto(IF in.manifest = Nil THEN "failed" ELSE "py_main")
       /\ UNCHANGED <<in, packages, list>>

addPyMain ==
    /\ pc = "py_main"
    /\ IF in.pyMain \notin {None, Nil}
       THEN addZipEntry(Buffer(MainFile, in.pyMain))
       ELSE UNCHANGED <<sourceByDest, out>>
    /\ Goto(IF in.pyMain = Nil THEN "failed" ELSE IF in.emulatePar THEN "scan" ELSE "copy")
    /\ UNCHANGED <<in, packages, list>>

\* The packages a name is in, from the inside out.
Around[x \in Names \cup (DOMAIN InitFile \ {None})] ==
    IF Package[x] = None THEN {} ELSE {Package[x]} \cup Around[Package[x]]

\* getUninitializedPythonPackages, for one input at a time; a second
\* __init__.py of a package is a panic.
getUninitializedPythonPackages ==
    /\ pc = "scan"
    /\ IF zip > Len(in.zips)
       THEN /\ packages' = [packages EXCEPT !.todo = packages.all \ packages.inited]
            /\ Goto("add_init")
            /\ UNCHANGED list
       ELSE LET z == in.zips[zip]
                names == [i \in 1 .. Len(in.entries[z]) |-> in.entries[z][i].name]
                inits == {i \in DOMAIN names : \E p \in DOMAIN InitFile : names[i] = InitFile[p]}
            IN  IF unreadable(z)
                THEN Goto("failed") /\ UNCHANGED <<packages, list>>
                ELSE /\ list' = reopen(list, z)
                     /\ packages' = [packages EXCEPT
                            !.all = @ \cup UNION {Around[names[i]] : i \in DOMAIN names},
                            !.inited = @ \cup {Package[names[i]] : i \in inits}]
                     /\ IF \E i \in inits : \/ Package[names[i]] \in packages.inited
                                            \/ \E j \in inits : i # j /\ names[i] = names[j]
                        THEN Goto("panic")
                        ELSE pc' = pc /\ zip' = zip + 1 /\ index' = 1
    /\ UNCHANGED <<in, sourceByDest, out>>

\* The packages come from a map, in any order.
addEmptyEntry ==
    /\ pc = "add_init"
    /\ \/ \E p \in packages.todo :
            /\ addZipEntry(Buffer(InitFile[p], 0))
            /\ packages' = [packages EXCEPT !.todo = @ \ {p}]
            /\ UNCHANGED <<pc, zip, index>>
       \/ /\ packages.todo = {}
          /\ Goto("copy")
          /\ UNCHANGED <<sourceByDest, out, packages>>
    /\ UNCHANGED <<in, list>>

\* An entry of an input, or its end.  The input was opened before its first
\* entry; to write an entry opens it again, which changes nothing.
copyEntry ==
    /\ pc = "copy" /\ zip <= Len(in.zips)
    /\ LET z == in.zips[zip]
       IN  \/ /\ unreadable(z)
              /\ Goto("failed")
              /\ UNCHANGED <<sourceByDest, out, list>>
           \/ /\ ~unreadable(z) /\ index <= Len(in.entries[z])
              /\ list' = reopen(list, z)
              /\ LET e == in.entries[z][index]
                     source == [name |-> e.name, dir |-> e.dir, data |-> e.data, from |-> z]
                 IN  IF \/ z \notin in.zipsToNotStrip /\ isEntryExcluded(e.name)
                        \/ in.stripDirEntries /\ e.dir
                     THEN index' = index + 1 /\ UNCHANGED <<sourceByDest, out, pc, zip>>
                     ELSE /\ addZipEntry(source)
                          /\ IF mismatch(source)
                             THEN Goto("failed")
                             ELSE index' = index + 1 /\ UNCHANGED <<pc, zip>>
           \/ /\ ~unreadable(z) /\ index > Len(in.entries[z])
              /\ list' = IF rearrange THEN reopen(list, z) ELSE closeZip(reopen(list, z), z)
              /\ zip' = zip + 1 /\ index' = 1
              /\ UNCHANGED <<sourceByDest, out, pc>>
    /\ UNCHANGED <<in, packages>>

-----------------------------------------------------------------------------
(* The order of the entries.                                               *)

Rank(name) == CHOOSE i \in DOMAIN Alphabet : Alphabet[i] = name

\* The position in jarOrder.
jarIndex(name) ==
    CASE name = MetaDir -> 0
      [] name = ManifestFile -> 1
      [] name \in InMetaDir \ {MetaDir, ManifestFile} -> 2
      [] OTHER -> 3

jarLess(a, b) ==
    \/ jarIndex(a) < jarIndex(b)
    \/ jarIndex(a) = jarIndex(b) /\ Rank(a) < Rank(b)

sorted ==
    LET less(a, b) == IF in.emulateJar THEN jarLess(a, b) ELSE Rank(a) < Rank(b)
        entries == DOMAIN sourceByDest
    IN  [i \in 1 .. Cardinality(entries) |->
            CHOOSE a \in entries : Cardinality({b \in entries : less(b, a)}) = i - 1]

\* WriteToZip opens the input of the entry again.
writeEntries ==
    /\ pc = "copy" /\ zip > Len(in.zips)
    /\ IF ~rearrange \/ Len(out) = Len(sorted)
       THEN Goto("ok") /\ UNCHANGED <<list, out>>
       ELSE LET source == sourceByDest[sorted[Len(out) + 1]]
            IN  /\ out' = Append(out, source)
                /\ list' = IF source.from = None THEN list ELSE reopen(list, source.from)
                /\ UNCHANGED <<pc, zip, index>>
    /\ UNCHANGED <<in, sourceByDest, packages>>

-----------------------------------------------------------------------------

Init ==
    /\ in \in Inputs
    /\ pc = "main" /\ zip = 1 /\ index = 1
    /\ sourceByDest = << >>
    /\ packages = [all |-> {}, inited |-> {}, todo |-> {}]
    /\ list = LET links == [z \in Zips \cup {Dummy} |-> IF z = Dummy THEN Dummy ELSE Nil]
              IN  [nOpenZips |-> 0, open |-> {}, older |-> links, newer |-> links]
    /\ out = << >>

Next ==
    \/ main \/ addManifest \/ addPyMain
    \/ getUninitializedPythonPackages \/ addEmptyEntry
    \/ copyEntry \/ writeEntries

Spec == Init /\ [][Next]_vars

-----------------------------------------------------------------------------
(* Properties.                                                             *)

AllEntries == FlattenSeq([i \in 1 .. Len(in.zips) |->
    LET z == in.zips[i]
    IN  [j \in 1 .. Len(in.entries[z]) |-> [entry |-> in.entries[z][j], from |-> z]]])

\* The entries of the inputs that are asked for, in the order of the inputs.
Asked ==
    LET keep(x) == /\ ~(in.stripDirEntries /\ x.entry.dir)
                   /\ \/ x.from \in in.zipsToNotStrip
                      \/ /\ x.entry.name \notin in.excludeFiles
                         /\ "META-INF" \in in.excludeDirs => x.entry.name \notin InMetaDir
        kept == SelectSeq(AllEntries, keep)
    IN  [i \in DOMAIN kept |-> [name |-> kept[i].entry.name, dir |-> kept[i].entry.dir,
                                data |-> kept[i].entry.data, from |-> kept[i].from]]

InitFilesOf(p) == {i \in DOMAIN AllEntries : AllEntries[i].entry.name = InitFile[p]}

\* The packages of a par file that have no __init__.py.
Made == IF ~in.emulatePar THEN {}
        ELSE {p \in DOMAIN InitFile \ {None} :
                /\ \E i \in DOMAIN AllEntries : p \in Around[AllEntries[i].entry.name]
                /\ InitFilesOf(p) = {}}

\* What comes before the inputs.
Leading ==
    (IF in.manifest # None
     THEN {Buffer(ManifestFile, in.manifest)}
            \cup (IF in.stripDirEntries THEN {} ELSE {Buffer(MetaDir, 0)})
     ELSE {})
    \cup (IF in.pyMain # None THEN {Buffer(MainFile, in.pyMain)} ELSE {})
    \cup {Buffer(InitFile[p], 0) : p \in Made}

\* The first place that has an entry of that name.
FirstOf(name) ==
    IF \E b \in Leading : b.name = name
    THEN CHOOSE b \in Leading : b.name = name
    ELSE Asked[CHOOSE i \in DOMAIN Asked :
                 Asked[i].name = name /\ \A j \in 1 .. i - 1 : Asked[j].name # name]

NamesAsked == {b.name : b \in Leading} \cup {Asked[i].name : i \in DOMAIN Asked}

MayDiffer(name) ==
    in.ignoreDuplicates \/ name = ModuleInfoClass \/ (in.emulateJar /\ name = ManifestFile)

Refused ==
    \/ in.manifest # None /\ ~in.emulateJar
    \/ in.pyMain # None /\ ~in.emulatePar
    \/ Nil \in {in.manifest, in.pyMain}
    \/ \E i \in DOMAIN in.zips : in.entries[in.zips[i]] = None
    \/ \E i \in DOMAIN Asked :
            LET e == Asked[i]
                f == FirstOf(e.name)
            IN  e.dir # f.dir \/ (~e.dir /\ e.data # f.data /\ ~MayDiffer(e.name))

PanicExpected == in.emulatePar /\ \E p \in DOMAIN InitFile : Cardinality(InitFilesOf(p)) > 1

\* Where an entry goes: META-INF/ and the manifest lead a jar, the names of a
\* sorted archive are in alphabetical order, and in others what was added first is
\* first.
InOrder(a, b) ==
    CASE in.emulateJar ->
            \/ a.name = MetaDir
            \/ a.name = ManifestFile /\ b.name # MetaDir
            \/ a.name \in InMetaDir /\ b.name \notin InMetaDir
            \/ (a.name \in InMetaDir <=> b.name \in InMetaDir) /\ Rank(a.name) < Rank(b.name)
      [] ~in.emulateJar /\ in.sortEntries -> Rank(a.name) < Rank(b.name)
      [] OTHER -> \/ a.from = None
                  \/ /\ b.from # None
                     /\ \E i, j \in DOMAIN Asked : i < j /\ Asked[i] = a /\ Asked[j] = b

\* mergeZips writes every entry that is asked for exactly once, taken from the
\* first place that has it (the manifest, the main program and the packages it
\* makes before the inputs), in the order that is asked for; it fails only for an
\* argument it refuses, a file it cannot read or two entries that differ, and panics
\* only for a package that has two __init__.py.
MergeExact ==
    CASE pc = "ok" ->
            /\ ~Refused /\ ~PanicExpected
            /\ {out[i].name : i \in DOMAIN out} = NamesAsked
            /\ \A i \in DOMAIN out : out[i] = FirstOf(out[i].name)
            /\ \A i, j \in DOMAIN out : i < j => InOrder(out[i], out[j]) /\ out[i] # out[j]
      [] pc = "failed" -> Refused
      [] pc = "panic" -> PanicExpected
      [] OTHER -> TRUE

\* The inputs that are open are those on the list of the manager, linked both
\* ways in the same order, they are as many as it counts and never more than its
\* limit, and the one that is read or was opened last is among them: the limit
\* closes another one (InputZipsManager, and its checkOpenZipsDeque).
OpenZipsBounded ==
    LET Step[n \in 0 .. Cardinality(Zips) + 1] == IF n = 0 THEN Dummy ELSE list.older[Step[n - 1]]
    IN  /\ list.nOpenZips = Cardinality(list.open) /\ list.nOpenZips <= maxOpenZips
        /\ {Step[n] : n \in 1 .. list.nOpenZips} = list.open
        /\ Step[list.nOpenZips + 1] = Dummy
        /\ \A z \in list.open \cup {Dummy} : list.newer[list.older[z]] = z
        /\ pc = "copy" /\ zip <= Len(in.zips) /\ index > 1 => in.zips[zip] \in list.open

=============================================================================
