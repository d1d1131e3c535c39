----------------------------- MODULE Visibility -----------------------------
(***************************************************************************)
(* The visibility of modules in soong_build (android/visibility.go) with   *)
(* the expansion of defaults (android/defaults.go) and the packages        *)
(* (android/package.go) that supply what a module does not say.            *)
(*                                                                         *)
(* Four mutators run one after the other, and the build stops after one    *)
(* that reported an error: the checker, the expansion of defaults, the     *)
(* gatherer and the enforcer.  A mutator visits the modules in parallel.   *)
(* The visits of the checker, the gatherer and the enforcer touch nothing  *)
(* in common, so each of them is one step here.  A visit of the defaults   *)
(* mutator changes properties that another visit may read, so each visit   *)
(* is a step, and a module is visited before what it depends on.           *)
(*                                                                         *)
(* A rule is [pkg, name] with "" for a part that was left out, or Invalid. *)
(***************************************************************************)
EXTENDS Naturals, Sequences, SequencesExt

CONSTANTS
    Modules,   \* the modules, defaults modules and packages included
    Kind,      \* Kind[m] \in {"module", "defaults", "package"}
    Dir,       \* Dir[m]: the package (directory) of m
    Within,    \* Within[p]: p and the packages that contain it, nearest first
    Uses,      \* Uses[m]: the modules m depends on other than its defaults
    Unset,     \* a property that was not set
    Invalid,   \* a string that is no visibility rule
    Inputs     \* the settings of the modules to check

VARIABLES
    visibility,          \* the property visibility (default_visibility of a package)
    defaults_visibility, \* of a defaults module
    defaults,            \* the property defaults
    phase,               \* the mutator that runs next
    visited,             \* the modules the defaults mutator visited
    ruleMap,             \* moduleToVisibilityRuleMap
    errors,              \* the modules or dependencies reported
    declared             \* history: visibility as the Android.bp files have it

vars == <<visibility, defaults_visibility, defaults, phase, visited, ruleMap,
          errors, declared>>

-----------------------------------------------------------------------------
splitRule(v, currentPkg) ==
    IF v = Invalid THEN v
    ELSE [pkg |-> IF v.pkg = "" THEN currentPkg ELSE v.pkg,
          name |-> IF v.name = "" THEN "__pkg__" ELSE v.name]

isAncestor(p1, p2) == p1 \in Range(Within[p2])

\* A package that no rule of the instance can name has no Within.
inVendor(pkg) == pkg \in DOMAIN Within /\ isAncestor("vendor", pkg)

isAllowedFromOutsideVendor(r) ==
    IF r.pkg = "vendor" THEN r.name = "__subpackages__" ELSE ~inVendor(r.pkg)

Keyword(name) == [pkg |-> "visibility", name |-> name]

\* How many rules checkRules counts once it has read the first i.
ruleCount(list, i) ==
    Len(list) - Len(SelectSeq(SubSeq(list, 1, i), LAMBDA v : v = Keyword("override")))

badRule(list, i, currentPkg) ==
    LET r == splitRule(list[i], currentPkg)
    IN  \/ r = Invalid
        \/ /\ r.pkg = "visibility"
           /\ \/ r.name \notin {"private", "public", "override"}
              \/ r.name = "override" /\ i # 1
              \/ r.name \in {"private", "public"} /\ ruleCount(list, i) # 1
        \/ ~inVendor(currentPkg) /\ ~isAllowedFromOutsideVendor(r)

checkRules(list, currentPkg) ==
    \/ list = Unset
    \/ list # <<>> /\ \A i \in DOMAIN list : ~badRule(list, i, currentPkg)

visibilityRuleChecker ==
    /\ phase = "check"
    /\ errors' = {m \in Modules : \/ ~checkRules(visibility[m], Dir[m])
                                  \/ ~checkRules(defaults_visibility[m], Dir[m])}
    /\ phase' = IF errors' = {} THEN "defaults" ELSE "done"
    /\ UNCHANGED <<visibility, defaults_visibility, defaults, visited, ruleMap, declared>>

-----------------------------------------------------------------------------
RECURSIVE WalkDefaults(_, _)
\* The walk of defaultsMutator: todo is what is left to visit, in order, and
\* seen the defaultsList so far.
WalkDefaults(todo, seen) ==
    IF todo = <<>> THEN seen
    ELSE LET d == Head(todo)
         IN  IF d \in Range(seen) THEN WalkDefaults(Tail(todo), seen)
             ELSE WalkDefaults(defaults[d] \o Tail(todo), Append(seen, d))

\* PrependProperties for a list of strings.
prepend(list, dst) ==
    CASE list = Unset -> dst
      [] dst = Unset -> list
      [] OTHER -> list \o dst

applyDefaults(dst, defaultsList) ==
    FoldLeft(LAMBDA list, d : prepend(visibility[d], list), dst, defaultsList)

\* The modules whose visit does something.
Defaulting == {m \in Modules : defaults[m] # <<>>}

\* Blueprint: a top-down mutator visits a module after those that depend on it.
TopDown(m) == {n \in Defaulting : m \in Range(defaults[n])} \subseteq visited

defaultsMutatorAnyOrder(m) ==
    /\ phase = "defaults"
    /\ m \in Defaulting \ visited
    /\ visibility' = [visibility EXCEPT
                        ![m] = applyDefaults(@, WalkDefaults(defaults[m], <<>>))]
    /\ visited' = visited \cup {m}
    /\ UNCHANGED <<defaults_visibility, defaults, phase, ruleMap, errors, declared>>

defaultsMutator(m) ==
    /\ phase = "defaults"
    /\ m \in Defaulting \ visited
    /\ TopDown(m)
    /\ visibility' = [visibility EXCEPT
                        ![m] = applyDefaults(@, WalkDefaults(defaults[m], <<>>))]
    /\ visited' = visited \cup {m}
    /\ UNCHANGED <<defaults_visibility, defaults, phase, ruleMap, errors, declared>>

-----------------------------------------------------------------------------
\* What parseRules keeps of a list: the rules after the last override, and
\* Unset (nil) when there are none but an override.
LastOverride(list) == SelectLastInSeq(list, LAMBDA v : v = Keyword("override"))

parsed(list, currentPkg) ==
    LET split == [i \in DOMAIN list |-> splitRule(list[i], currentPkg)]
        kept == SubSeq(split, LastOverride(split) + 1, Len(split))
    IN  {r \in Range(kept) : \/ r.pkg = "visibility"
                             \/ r.name \in {"__pkg__", "__subpackages__"}}

Mixed(rules) == Keyword("private") \in rules /\ rules # {Keyword("private")}

parseRules(list, currentPkg) ==
    LET rules == parsed(list, currentPkg)
    IN  CASE Mixed(rules) -> {Keyword("private")}
          [] Keyword("public") \in rules -> {Keyword("public")}
          [] rules = {} /\ LastOverride(list) = Len(list) -> Unset
          [] OTHER -> rules

primary(m) == IF Kind[m] = "defaults" THEN defaults_visibility[m] ELSE visibility[m]

\* The id of m: a package has no name of its own.
qualifiedModuleId(m) == IF Kind[m] = "package" THEN <<Dir[m]>> ELSE <<Dir[m], m>>

visibilityRuleGatherer ==
    /\ phase = "defaults" /\ visited = Defaulting
    /\ LET set == {m \in Modules : primary(m) # Unset}
           stored == {m \in set : parseRules(primary(m), Dir[m]) # Unset}
       IN  /\ ruleMap' = [id \in {qualifiedModuleId(m) : m \in stored} |->
                            LET m == CHOOSE n \in stored : qualifiedModuleId(n) = id
                            IN  parseRules(primary(m), Dir[m])]
           /\ errors' = {m \in set : Mixed(parsed(primary(m), Dir[m]))}
    /\ phase' = IF errors' = {} THEN "enforce" ELSE "done"
    /\ UNCHANGED <<visibility, defaults_visibility, defaults, visited, declared>>

-----------------------------------------------------------------------------
matches(rule, pkg) ==
    CASE rule.pkg = "visibility" -> rule.name = "public"
      [] rule.name = "__pkg__" -> rule.pkg = pkg
      [] rule.name = "__subpackages__" -> isAncestor(rule.pkg, pkg)

packageDefaultVisibility(m) ==
    LET ids == SelectSeq([i \in DOMAIN Within[Dir[m]] |-> <<Within[Dir[m]][i]>>],
                         LAMBDA id : id \in DOMAIN ruleMap)
    IN  IF ids = <<>> THEN Unset ELSE ruleMap[Head(ids)]

effectiveVisibilityRules(m) ==
    IF qualifiedModuleId(m) \in DOMAIN ruleMap THEN ruleMap[qualifiedModuleId(m)]
    ELSE packageDefaultVisibility(m)

Dependencies == {<<m, d>> \in Modules \X Modules : d \in Uses[m] \cup Range(defaults[m])}

visibilityRuleEnforcer ==
    /\ phase = "enforce"
    /\ errors' = {e \in Dependencies :
                    LET pkg == Dir[e[1]]
                        rule == effectiveVisibilityRules(e[2])
                    IN  /\ Dir[e[2]] # pkg
                        /\ rule # Unset
                        /\ \A r \in rule : ~matches(r, pkg)}
    /\ phase' = "done"
    /\ UNCHANGED <<visibility, defaults_visibility, defaults, visited, ruleMap, declared>>

-----------------------------------------------------------------------------
Init ==
    /\ \E in \in Inputs :
          /\ visibility = in.visibility
          /\ defaults_visibility = in.defaults_visibility
          /\ defaults = in.defaults
    /\ phase = "check"
    /\ visited = {}
    /\ ruleMap = <<>>
    /\ errors = {}
    /\ declared = visibility

Next ==
    \/ visibilityRuleChecker
    \/ \E m \in Modules : defaultsMutator(m)
    \/ visibilityRuleGatherer
    \/ visibilityRuleEnforcer

Spec == Init /\ [][Next]_vars

-----------------------------------------------------------------------------
(* What the lists mean.  A module's rules are its own and those of its     *)
(* defaults, nearest first, up to the first list that begins with an       *)
(* override; a package's are its own.                                      *)

Sources(m) ==
    CASE Kind[m] = "defaults" -> <<defaults_visibility[m]>>
      [] Kind[m] = "package" -> <<declared[m]>>
      [] OTHER -> LET ds == WalkDefaults(defaults[m], <<>>)
                  IN  <<declared[m]>> \o [i \in DOMAIN ds |-> declared[ds[i]]]

Overriding(list) == list # Unset /\ list[1] = Keyword("override")

Counted(m) ==
    {i \in DOMAIN Sources(m) :
        /\ Sources(m)[i] # Unset
        /\ \A j \in 1 .. (i - 1) : ~Overriding(Sources(m)[j])}

RulesOf(m) ==
    UNION {{splitRule(v, Dir[m]) : v \in Range(Sources(m)[i])} : i \in Counted(m)}
        \ {Keyword("override")}

\* m says who may see it.
Says(m) == RulesOf(m) # {}

\* m is private, and visible to somebody too.  A rule for one module of a
\* package is accepted and grants nothing.
Contradicts(m) ==
    /\ Keyword("private") \in RulesOf(m)
    /\ \E r \in RulesOf(m) \ {Keyword("private")} :
          r.pkg = "visibility" \/ r.name \in {"__pkg__", "__subpackages__"}

\* The rules of m admit the modules of pkg.
Admits(m, pkg) ==
    \/ Keyword("public") \in RulesOf(m)
    \/ [pkg |-> pkg, name |-> "__pkg__"] \in RulesOf(m)
    \/ \E p \in Range(Within[pkg]) :
          [pkg |-> p, name |-> "__subpackages__"] \in RulesOf(m)

Packages(m) ==
    {p \in Modules : Kind[p] = "package" /\ Says(p) /\ isAncestor(Dir[p], Dir[m])}

Visible(m, pkg) ==
    \/ Dir[m] = pkg
    \/ IF Says(m) THEN Admits(m, pkg)
       ELSE \A p \in Packages(m) :
               (\A q \in Packages(m) : isAncestor(Dir[q], Dir[p])) => Admits(p, pkg)

\* The lists of a module and its defaults, the furthest first.
Flattened(m) ==
    FoldLeft(LAMBDA list, src : prepend(src, list), Unset, Sources(m))

\* Whatever the order the defaults mutator visits the modules in, a module ends
\* with its list after those of its defaults, each exactly once.  The
\* gatherer stops the build for a module that is private and visible to others,
\* and the enforcer reports exactly the dependencies that are not visible: by
\* the lists of the module and its defaults, else by the nearest package that
\* says something, else everything is.
VisibilityExact ==
    /\ phase = "enforce" => \A m \in Modules :
          /\ ~Contradicts(m)
          /\ Kind[m] = "module" => visibility[m] = Flattened(m)
    /\ phase = "done" /\ visited = Defaulting /\ errors \subseteq Dependencies
          => errors = {e \in Dependencies : ~Visible(e[2], Dir[e[1]])}

=============================================================================
