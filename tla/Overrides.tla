------------------------------ MODULE Overrides -----------------------------
(***************************************************************************)
(* Which module a dependency on a name leads to when the name has a        *)
(* prebuilt (android/prebuilt.go), when it is an override module with a    *)
(* base (android/override_module.go), or both.  The mutators run in the    *)
(* order of android/mutator.go: prebuilts, the DepsMutator that adds the   *)
(* dependencies, prebuilt_select, prebuilt_postdeps, override_deps,        *)
(* register_override, perform_override and replace_deps_on_override.       *)
(*                                                                         *)
(* Visits of one mutator run in parallel.  They touch nothing in common    *)
(* but the list of overrides of a base, which register_override fills in   *)
(* the order of its visits.                                                *)
(*                                                                         *)
(* A module is [name, prebuilt, variant]; only a base has a variant, the   *)
(* name of the override module it was made for.                            *)
(***************************************************************************)
EXTENDS Naturals, Sequences, SequencesExt

CONSTANTS
    Names,     \* the names of modules
    Base,      \* Base[o]: the base of the override module o
    None,
    Inputs     \* the modules to check

VARIABLES
    in,             \* the Android.bp files: an element of Inputs
    phase,          \* the mutator that runs next
    SourceExists,   \* the names whose prebuilt has it set
    UsePrebuilt,    \* the names whose prebuilt has it set
    deps,           \* deps[u][n]: the module that user u's dependency on n leads to
    SkipInstall,    \* the modules that are not installed
    overriddenByPrebuilt,
    overrides,      \* overrides[b]: what addOverride was called with
    variants,       \* variants[b]: the variants of b
    failed

vars == <<in, phase, SourceExists, UsePrebuilt, deps, SkipInstall, overriddenByPrebuilt,
          overrides, variants, failed>>

\* in.source: the names with a source (or override) module; in.disabled: the
\* sources that are disabled; in.prebuilt[n]: None, or [prefer, srcs] of
\* prebuilt_n; the user "keeps" has a tag that refuses the replacement of
\* sources by prebuilts.
Users == {"replaces", "keeps"}

Overriding == DOMAIN Base
HasPrebuilt(n) == in.prebuilt[n] # None

Source(n) == [name |-> n, prebuilt |-> FALSE, variant |-> ""]
PrebuiltOf(n) == [name |-> n, prebuilt |-> TRUE, variant |-> ""]
Variant(b, o) == [name |-> b, prebuilt |-> FALSE, variant |-> o]

-----------------------------------------------------------------------------
\* A prebuilt without a source is renamed: the name leads to it.
ModuleNamed(n) == IF n \in in.source THEN Source(n) ELSE PrebuiltOf(n)

PrebuiltMutator ==
    /\ phase = "prebuilts"
    /\ SourceExists' = {n \in in.source : HasPrebuilt(n)}
    /\ deps' = [u \in Users |-> [n \in Names |-> ModuleNamed(n)]]
    /\ phase' = "prebuilt_select"
    /\ UNCHANGED <<in, UsePrebuilt, SkipInstall, overriddenByPrebuilt, overrides,
                   variants, failed>>

usePrebuiltNoSrcs(n) ==
    \/ in.prebuilt[n].prefer
    \/ n \notin in.source
    \/ n \in in.disabled

usePrebuilt(n) ==
    /\ in.prebuilt[n].srcs
    /\ \/ in.prebuilt[n].prefer
       \/ n \notin in.source
       \/ n \in in.disabled

PrebuiltSelectModuleMutator ==
    /\ phase = "prebuilt_select"
    /\ UsePrebuilt' = {n \in Names : HasPrebuilt(n) /\ usePrebuilt(n)}
    /\ SkipInstall' = {Source(n) : n \in UsePrebuilt' \cap SourceExists}
    /\ phase' = "prebuilt_postdeps"
    /\ UNCHANGED <<in, SourceExists, deps, overriddenByPrebuilt, overrides, variants,
                   failed>>

\* ReplaceDependenciesIf spares the dependencies whose tag asks for it.
PrebuiltPostDepsMutator ==
    /\ phase = "prebuilt_postdeps"
    /\ deps' = [deps EXCEPT !["replaces"] =
                  [n \in Names |-> IF n \in UsePrebuilt \cap SourceExists
                                   THEN PrebuiltOf(n) ELSE @[n]]]
    /\ SkipInstall' = SkipInstall \cup
          {PrebuiltOf(n) : n \in {n \in Names : HasPrebuilt(n)} \ UsePrebuilt}
    /\ phase' = "override_deps"
    /\ UNCHANGED <<in, SourceExists, UsePrebuilt, overriddenByPrebuilt, overrides,
                   variants, failed>>

-----------------------------------------------------------------------------
overrideModuleDepsMutator ==
    /\ phase = "override_deps"
    /\ overriddenByPrebuilt' = Overriding \cap in.source \cap UsePrebuilt
    /\ phase' = "register_override"
    /\ UNCHANGED <<in, SourceExists, UsePrebuilt, deps, SkipInstall, overrides, variants,
                   failed>>

Registered == UNION {Range(overrides[b]) : b \in Names}

\* The visit of an override module; a base that is only a prebuilt is an error.
registerOverrideMutator(o) ==
    /\ phase = "register_override"
    /\ o \in (Overriding \cap in.source) \ (Registered \cup failed)
    /\ IF ModuleNamed(Base[o]) = Source(Base[o])
       THEN overrides' = [overrides EXCEPT ![Base[o]] = Append(@, o)] /\ UNCHANGED failed
       ELSE failed' = failed \cup {o} /\ UNCHANGED overrides
    /\ UNCHANGED <<in, phase, SourceExists, UsePrebuilt, deps, SkipInstall,
                   overriddenByPrebuilt, variants>>

\* CreateLocalVariations copies the properties of the base, SkipInstall included.
performOverrideMutator ==
    /\ phase = "register_override"
    /\ Overriding \cap in.source = Registered \cup failed
    /\ phase' = IF failed = {} THEN "replace_deps_on_override" ELSE "done"
    /\ IF failed = {}
       THEN /\ variants' = [b \in Names |-> {Variant(b, o) : o \in Range(overrides[b])}]
            /\ SkipInstall' = SkipInstall \cup
                  {Variant(Base[o], o) :
                      o \in {o \in Registered : \/ o \in overriddenByPrebuilt
                                                \/ Source(Base[o]) \in SkipInstall}}
       ELSE UNCHANGED <<variants, SkipInstall>>
    /\ UNCHANGED <<in, SourceExists, UsePrebuilt, deps, overriddenByPrebuilt, overrides,
                   failed>>

\* ReplaceDependencies: what still leads to an override module.
replaceDepsOnOverridingModuleMutator ==
    /\ phase = "replace_deps_on_override"
    /\ deps' = [u \in Users |-> [n \in Names |->
                  IF \E b \in Names : Variant(b, n) \in variants[b] /\ deps[u][n] = Source(n)
                  THEN Variant(Base[n], n) ELSE deps[u][n]]]
    /\ phase' = "done"
    /\ UNCHANGED <<in, SourceExists, UsePrebuilt, SkipInstall, overriddenByPrebuilt,
                   overrides, variants, failed>>

-----------------------------------------------------------------------------
Init ==
    /\ in \in Inputs
    /\ phase = "prebuilts"
    /\ SourceExists = {}
    /\ UsePrebuilt = {}
    /\ deps = [u \in Users |-> [n \in Names |-> None]]
    /\ SkipInstall = {}
    /\ overriddenByPrebuilt = {}
    /\ overrides = [b \in Names |-> <<>>]
    /\ variants = [b \in Names |-> {}]
    /\ failed = {}

Next ==
    \/ PrebuiltMutator
    \/ PrebuiltSelectModuleMutator
    \/ PrebuiltPostDepsMutator
    \/ overrideModuleDepsMutator
    \/ \E o \in Names : registerOverrideMutator(o)
    \/ performOverrideMutator
    \/ replaceDepsOnOverridingModuleMutator

Spec == Init /\ [][Next]_vars

-----------------------------------------------------------------------------
\* A prebuilt that has a file takes a name when it is preferred, or nobody else
\* can have it.
TakenByPrebuilt(n) ==
    /\ HasPrebuilt(n) /\ in.prebuilt[n].srcs
    /\ in.prebuilt[n].prefer \/ n \notin in.source \ in.disabled

\* What is built for the source of n.
Built(n) == IF n \in Overriding THEN Variant(Base[n], n) ELSE Source(n)

\* The modules that produce something that could be installed as n.
Makers(n) == {PrebuiltOf(n) : x \in {x \in {n} : HasPrebuilt(x)}}
                \cup {Built(x) : x \in {n} \cap in.source}

\* A name leads its users to one module: the prebuilt that takes it, otherwise
\* what is built from the source, for an override module its variant of the
\* base; only a user whose tag asks for it keeps the source.  No other maker of
\* the name is installed, and this one is, unless it is a variant of a base whose
\* own installation gave way to a prebuilt.  The order in which override modules
\* register does not matter.
OverridesExact ==
    phase = "done" /\ failed = {} =>
       \A n \in Names :
          LET winner == IF TakenByPrebuilt(n) \/ n \notin in.source
                        THEN PrebuiltOf(n) ELSE Built(n)
          IN  /\ deps["replaces"][n] = winner
              /\ deps["keeps"][n] = IF n \in in.source THEN Built(n) ELSE winner
              /\ (Makers(n) \ {winner}) \subseteq SkipInstall
              /\ winner \in SkipInstall <=>
                    \/ winner = PrebuiltOf(n) /\ ~TakenByPrebuilt(n)
                    \/ /\ winner = Built(n) /\ n \in Overriding
                       /\ TakenByPrebuilt(Base[n])

=============================================================================
