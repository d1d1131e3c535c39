----------------------------- MODULE Sanitizers -----------------------------
(***************************************************************************)
(* The sanitized variants of C and C++ modules (cc/sanitize.go).  For each *)
(* sanitizer, a top-down mutator marks what the modules that enable it     *)
(* link, and a bottom-up one splits the marked modules into variants whose *)
(* dependencies Blueprint resolves by the name of the variation.           *)
(*                                                                         *)
(* A visit of sanitizerDepsMutator only sets marks, which no visit reads,  *)
(* and a visit of sanitizerMutator only splits its own module, so a        *)
(* mutator is one step here.  A sanitizer that no module enables changes   *)
(* nothing, so an instance has only those it enables.                      *)
(*                                                                         *)
(* A variant is <<m, v>>: v[i] is its variation for the i-th sanitizer, "" *)
(* without it, and None when the mutator did not split the module.         *)
(***************************************************************************)
EXTENDS Naturals, Sequences, SequencesExt

CONSTANTS
    Modules,
    Kind,      \* Kind[m]: "binary", "shared", "static", "header" or "apex"
    None,      \* the variation of a module that was not split
    Inputs     \* the modules to check

VARIABLES
    in,          \* an element of Inputs
    done,        \* the number of sanitizers whose mutators ran
    marking,     \* TRUE before sanitizerDepsMutator of the next one
    set,         \* set[x][t]: the property of variant x, "unset", "on" or "off"
    SanitizeDep, \* the variants that have it set
    hidden,      \* the variants that are neither installed nor shown to Make
    links        \* the dependencies between variants

vars == <<in, done, marking, set, SanitizeDep, hidden, links>>

\* in.types: the sanitizers, in the order of their mutators; in.set[m][t]: what
\* begin makes of the properties of m; in.deps: the dependencies with a tag
\* that isSanitizableDependencyTag accepts, and those of an APEX; in.never: the
\* modules with never; in.device: whether they are built for a device.

Variants == DOMAIN set
ModuleOf(x) == x[1]
KindOf(x) == Kind[ModuleOf(x)]
t == in.types[done + 1]

isSanitizerEnabled(x) == set[x][t] = "on"

Below(x) == {y \in Variants : <<x, y>> \in links}

-----------------------------------------------------------------------------
RECURSIVE Walk(_)
\* The children that WalkDeps visits from the variants in S.
Walk(S) ==
    LET T == S \cup UNION {Below(x) : x \in S}
    IN  IF T = S THEN S ELSE Walk(T)

\* The modules a walk may mark.
markable(x) ==
    /\ KindOf(x) # "apex"
    /\ ModuleOf(x) \notin in.never
    /\ set[x][t] # "off"
    /\ t \in {"cfi", "hwasan", "scs"} => KindOf(x) = "static"

sanitizerDepsMutator ==
    /\ marking
    /\ done < Len(in.types)
    /\ LET roots == {x \in Variants : KindOf(x) # "apex" /\ isSanitizerEnabled(x)}
           apexes == {x \in Variants : /\ KindOf(x) = "apex"
                                       /\ \E y \in Below(x) : isSanitizerEnabled(y)}
       IN  /\ SanitizeDep' = SanitizeDep \cup
                 {y \in UNION {Walk(Below(x)) : x \in roots} : markable(y)}
           /\ set' = [x \in Variants |->
                        IF x \in apexes THEN [set[x] EXCEPT ![t] = "on"] ELSE set[x]]
    /\ marking' = FALSE
    /\ UNCHANGED <<in, done, hidden, links>>

-----------------------------------------------------------------------------
incompatibleWithCfi == t \in {"asan", "fuzzer", "hwasan"}

wantedEnabledOnly(x) == isSanitizerEnabled(x)

\* A module that sanitizerMutator gives variants to.
wanted(x) == isSanitizerEnabled(x) \/ x \in SanitizeDep

\* The variations it makes of a variant, <<None>> when it makes none.
variations(x) ==
    CASE ~wanted(x) -> <<None>>
      [] KindOf(x) = "apex" -> <<t>>
      [] KindOf(x) = "binary" /\ isSanitizerEnabled(x) -> <<t>>
      [] KindOf(x) \in {"static", "header"} \/ t \in {"asan", "fuzzer"} -> <<"", t>>
      [] OTHER -> <<t>>

split(x, v) == <<ModuleOf(x), Append(x[2], v)>>

\* The properties of variation v of x.  SetSanitizer clears a property, which is
\* not the same as disabling it.
setFor(x, v) ==
    CASE v = None \/ KindOf(x) = "apex" -> set[x]
      [] v = "" -> [set[x] EXCEPT ![t] = "unset"]
      [] KindOf(x) = "binary" /\ isSanitizerEnabled(x) -> set[x]
      [] OTHER -> [s \in DOMAIN set[x] |->
                     CASE s = t -> "on"
                       [] s = "cfi" /\ in.device /\ incompatibleWithCfi -> "unset"
                       [] OTHER -> set[x][s]]

\* Blueprint: the variation of y that variation v of a module depends on: the
\* first one for a module that was not split, the one with the same name, or the
\* default variation t.
resolve(v, y) ==
    LET of == Range(variations(y))
    IN  CASE v = None -> variations(y)[1]
          [] v \in of -> v
          [] None \in of -> None
          [] OTHER -> t

\* The variation that is suppressed when only one of two may be installed.
suppressed(x) ==
    IF Len(variations(x)) = 2 /\ t \notin {"cfi", "scs", "hwasan"}
    THEN {split(x, IF isSanitizerEnabled(x) THEN "" ELSE t)} ELSE {}

sanitizerMutator ==
    /\ ~marking
    /\ LET pairs == UNION {{x} \X Range(variations(x)) : x \in Variants}
       IN  /\ set' = [z \in {split(p[1], p[2]) : p \in pairs} |->
                        LET p == CHOOSE q \in pairs : split(q[1], q[2]) = z
                        IN  setFor(p[1], p[2])]
           /\ links' = UNION {{<<split(p[1], p[2]), split(y, resolve(p[2], y))>> :
                                  y \in Below(p[1])} : p \in pairs}
           /\ hidden' = {split(p[1], p[2]) : p \in {q \in pairs : q[1] \in hidden}}
                            \cup UNION {suppressed(x) : x \in Variants}
    /\ SanitizeDep' = {}
    /\ marking' = TRUE
    /\ done' = done + 1
    /\ UNCHANGED in

-----------------------------------------------------------------------------
Init ==
    /\ in \in Inputs
    /\ done = 0
    /\ marking = TRUE
    /\ set = [x \in Modules \X {<<>>} |-> in.set[x[1]]]
    /\ SanitizeDep = {}
    /\ hidden = {}
    /\ links = {<<<<d[1], <<>>>>, <<d[2], <<>>>>>> : d \in in.deps}

Next == sanitizerDepsMutator \/ sanitizerMutator

Spec == Init /\ [][Next]_vars

-----------------------------------------------------------------------------
\* The sanitizers that cannot be combined with control flow integrity.
Excluding(x) == {s \in {"asan", "fuzzer", "hwasan"} \cap DOMAIN set[x] : set[x][s] = "on"}

\* The binaries, the shared libraries and what is linked into them.
Shipped == Walk({x \in Variants : KindOf(x) \in {"binary", "shared"}})

\* y must have the sanitizer s when what links it has.
MustFollow(y, s) ==
    /\ ModuleOf(y) \notin in.never
    /\ in.set[ModuleOf(y)][s] # "off"
    /\ s \in {"cfi", "hwasan", "scs"} => KindOf(y) = "static"
    /\ s = "cfi" => Excluding(y) = {}

\* After all mutators, for every sanitizer: a sanitized variant links the
\* sanitized variant of everything that does not refuse it (of static libraries
\* only, for the sanitizers that can be mixed at the border of a shared one),
\* and a variant without asan or fuzzer never links one with it.  On a device no
\* variant that is linked into a binary or a shared library has control flow
\* integrity together with a sanitizer that excludes it (a static library can
\* have such a variant, which nothing links), and something of every module is
\* installed.
SanitizersExact ==
    done = Len(in.types) =>
       /\ \A l \in links, s \in Range(in.types) :
             LET x == l[1]
                 y == l[2]
             IN  /\ (set[x][s] = "on" /\ KindOf(x) # "apex" /\ MustFollow(y, s))
                       => set[y][s] = "on"
                 /\ (set[x][s] # "on" /\ s \in {"asan", "fuzzer"}) => set[y][s] # "on"
       /\ \A x \in Shipped :
             (in.device /\ "cfi" \in Range(in.types) /\ set[x]["cfi"] = "on")
                => Excluding(x) = {}
       /\ \A m \in Modules : \E x \in Variants : ModuleOf(x) = m /\ x \notin hidden

=============================================================================
