----------------------------- MODULE Namespaces -----------------------------
(***************************************************************************)
(* The namespaces of modules (android/namespace.go).  Blueprint parses the *)
(* files in parallel and hands the modules to NewModule one at a time, in  *)
(* the order of their file, a file after the files of the directories      *)
(* above it.  Once all are parsed without an error, namespaceMutator       *)
(* resolves the imports of each namespace, and names can be looked up.     *)
(*                                                                         *)
(* A namespace is named by its directory; an item of a file is             *)
(* [kind |-> "namespace", imports] or [kind |-> "module", name].           *)
(***************************************************************************)
EXTENDS Naturals, Sequences, SequencesExt

CONSTANTS
    Dirs,      \* the directories
    Root,      \* the directory "."
    Within,    \* Within[d]: d and the directories that contain it, nearest first
    Misnamed,  \* the directories whose file is not named Android.bp
    Names,     \* the names of modules
    None,
    Trees      \* the contents of the files to check

VARIABLES
    files,            \* files[d]: the items of the file in d
    parsed,           \* parsed[d]: how many of them NewModule has seen
    namespacesByDir,
    namespaces,       \* sortedNamespaces
    modules,          \* modules[n]: the names in the moduleContainer of n
    visible,          \* visible[n]: n.visibleNamespaces, Unresolved before the mutator
    failed            \* where an error was reported

vars == <<files, parsed, namespacesByDir, namespaces, modules, visible, failed>>

Unresolved == <<>>

Parsing == \E d \in Dirs : parsed[d] < Len(files[d])

-----------------------------------------------------------------------------
namespaceAt(path) ==
    IF path \in DOMAIN namespacesByDir THEN namespacesByDir[path] ELSE None

\* findNamespace searches upwards for a directory it knows ...
Nearest(path) ==
    SelectInSeq(Within[path], LAMBDA d : namespaceAt(d) # None)

findNamespace(path) == namespaceAt(Within[path][Nearest(path)])

\* ... and remembers the answer for the directories it searched.
Remembered(path) ==
    LET new == {Within[path][i] : i \in 1 .. Nearest(path)}
    IN  [d \in new \cup DOMAIN namespacesByDir |->
            IF d \in new THEN findNamespace(path) ELSE namespacesByDir[d]]

\* Blueprint: the files of the directories above d were parsed.
Turn(d) ==
    /\ parsed[d] < Len(files[d])
    /\ \A e \in Range(Tail(Within[d])) : parsed[e] = Len(files[e])

Read(d) == files[d][parsed[d] + 1]

addNamespaceAnywhere(d) ==
    /\ Turn(d)
    /\ Read(d).kind = "namespace"
    /\ parsed' = [parsed EXCEPT ![d] = @ + 1]
    /\ IF d \in Misnamed \/ namespaceAt(d) = d
       THEN /\ failed' = failed \cup {<<d, parsed'[d]>>}
            /\ UNCHANGED <<namespaces, namespacesByDir>>
       ELSE /\ namespaces' = namespaces \cup {d}
            /\ namespacesByDir' = [e \in DOMAIN namespacesByDir \cup {d} |->
                                     IF e = d THEN d ELSE namespacesByDir[e]]
            /\ UNCHANGED failed
    /\ UNCHANGED <<files, modules, visible>>

\* NewModule for a soong_namespace: addNewNamespaceForModule, addNamespace.
addNamespace(d) ==
    /\ Turn(d)
    /\ Read(d).kind = "namespace"
    /\ parsed' = [parsed EXCEPT ![d] = @ + 1]
    /\ IF d \in Misnamed \/ namespaceAt(d) # None
       THEN /\ failed' = failed \cup {<<d, parsed'[d]>>}
            /\ UNCHANGED <<namespaces, namespacesByDir>>
       ELSE /\ namespaces' = namespaces \cup {d}
            /\ namespacesByDir' = [e \in DOMAIN namespacesByDir \cup {d} |->
                                     IF e = d THEN d ELSE namespacesByDir[e]]
            /\ UNCHANGED failed
    /\ UNCHANGED <<files, modules, visible>>

\* NewModule for a module: the container of its namespace refuses a name twice.
NewModule(d) ==
    /\ Turn(d)
    /\ Read(d).kind = "module"
    /\ parsed' = [parsed EXCEPT ![d] = @ + 1]
    /\ namespacesByDir' = Remembered(d)
    /\ LET ns == findNamespace(d)
           name == Read(d).name
       IN  IF name \in modules[ns]
           THEN failed' = failed \cup {<<d, parsed'[d]>>} /\ UNCHANGED modules
           ELSE modules' = [modules EXCEPT ![ns] = @ \cup {name}] /\ UNCHANGED failed
    /\ UNCHANGED <<files, namespaces, visible>>

-----------------------------------------------------------------------------
importedNamespaceNames(n) == files[n][1].imports

\* FindNamespaceImports stops at the first import that does not exist.
namespaceMutator(n) ==
    /\ ~Parsing /\ failed = {}
    /\ n \in namespaces \ {Root}
    /\ visible[n] = Unresolved
    /\ LET names == importedNamespaceNames(n)
           missing == SelectInSeq(names, LAMBDA i : namespaceAt(i) = None)
           found == [k \in DOMAIN names |-> namespaceAt(names[k])]
       IN  IF missing # 0
           THEN /\ failed' = {<<n, 1>>}
                /\ visible' = [visible EXCEPT ![n] = <<n>> \o SubSeq(found, 1, missing - 1)]
           ELSE /\ visible' = [visible EXCEPT ![n] = <<n>> \o found \o <<Root>>]
                /\ UNCHANGED failed
    /\ UNCHANGED <<files, parsed, namespacesByDir, namespaces, modules>>

\* ModuleFromName for a name from namespace n: the namespace it is found in.
ModuleFromName(name, n) ==
    LET k == SelectInSeq(visible[n], LAMBDA c : name \in modules[c])
    IN  IF k = 0 THEN None ELSE visible[n][k]

\* ModuleFromName for //path:name.
FullyQualified(path, name) ==
    IF namespaceAt(path) # None /\ name \in modules[namespaceAt(path)]
    THEN namespaceAt(path) ELSE None

-----------------------------------------------------------------------------
Init ==
    /\ files \in Trees
    /\ parsed = [d \in Dirs |-> 0]
    /\ namespacesByDir = [d \in {Root} |-> Root]
    /\ namespaces = {Root}
    /\ modules = [d \in Dirs |-> {}]
    /\ visible = [d \in Dirs |-> IF d = Root THEN <<Root>> ELSE Unresolved]
    /\ failed = {}

Next ==
    \/ \E d \in Dirs : addNamespace(d) \/ NewModule(d)
    \/ \E n \in Dirs : namespaceMutator(n)

Spec == Init /\ [][Next]_vars

-----------------------------------------------------------------------------
(* What the files declare, whatever the order they are parsed in.          *)

ItemsOf(d, kind) == {i \in DOMAIN files[d] : files[d][i].kind = kind}

Declares(d) == d = Root \/ ItemsOf(d, "namespace") # {}

\* The directory of the namespace that the files of d belong to.
Home(d) == Within[d][SelectInSeq(Within[d], Declares)]

Defined(n, name) ==
    {<<d, i>> \in Dirs \X (1 .. 3) :
        /\ i \in ItemsOf(d, "module")
        /\ Home(d) = n
        /\ files[d][i].name = name}

WellFormed ==
    /\ \A d \in Dirs : ItemsOf(d, "namespace") \subseteq {1}
    /\ \A d \in Misnamed \cup {Root} : ItemsOf(d, "namespace") = {}
    /\ \A n \in Dirs, name \in Names : \A p, q \in Defined(n, name) : p = q

\* A namespace lies at path, or path is a directory between a module and its
\* namespace.
Exists(path) ==
    \/ Declares(path)
    \/ \E d \in Dirs :
          /\ ItemsOf(d, "module") # {}
          /\ path \in Range(Within[d]) /\ Home(d) \in Range(Within[path])

Imports(n) == IF n = Root THEN <<>> ELSE files[n][1].imports

ImportsExist == \A n \in namespaces : \A i \in Range(Imports(n)) : Exists(i)

SearchOrder(n) == <<n>> \o [i \in DOMAIN Imports(n) |-> Home(Imports(n)[i])] \o <<Root>>

Expected(name, n) ==
    LET k == SelectInSeq(SearchOrder(n), LAMBDA c : Defined(c, name) # {})
    IN  IF k = 0 THEN None ELSE SearchOrder(n)[k]

Resolved == ~Parsing /\ \A n \in namespaces : visible[n] # Unresolved

\* In whatever order the files are parsed: an error is reported exactly when a
\* namespace is not the first item of an Android.bp file, a name is defined
\* twice in a namespace or an import does not exist; and without one every name
\* is looked up in the nearest namespace above its user, then in its imports in
\* their order, then in the root.
NamesResolve ==
    /\ failed # {} => ~WellFormed \/ ~ImportsExist
    /\ ~Parsing /\ failed = {} => WellFormed
    /\ Resolved /\ failed = {} =>
          /\ ImportsExist
          /\ \A n \in namespaces, name \in Names :
                ModuleFromName(name, n) = Expected(name, n)
          /\ \A d \in Dirs, name \in Names :
                Exists(d) => FullyQualified(d, name) =
                                (IF Defined(Home(d), name) # {} THEN Home(d) ELSE None)

=============================================================================
