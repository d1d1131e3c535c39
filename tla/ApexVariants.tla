---------------------------- MODULE ApexVariants ----------------------------
(***************************************************************************)
(* The variants that soong_build makes of a library for the APEXes that    *)
(* contain it (android/apex.go and the mutators of apex/apex.go): every    *)
(* APEX marks what it contains, APEXes that would build a library the same *)
(* way share a variant of it, and the dependencies of the variants are     *)
(* resolved by the name of the variation.                                  *)
(*                                                                         *)
(* The visits of a mutator run in parallel; a bottom-up one visits a       *)
(* module after its dependencies.  The walks of two APEXes interleave at   *)
(* every call of BuildForApex, which takes a lock.                         *)
(***************************************************************************)
EXTENDS Naturals, Sequences, FiniteSets, SequencesExt

CONSTANTS
    Apexes,   \* the apex bundles
    Libs,     \* the modules that can have APEX variants
    Order,    \* the names of the bundles in alphabetic order
    Platform, \* the variation "", and //apex_available:platform
    Inputs    \* the module graphs to check

VARIABLES
    g,                            \* the graph: an element of Inputs
    phase,
    marked,                       \* marked[a]: the modules BuildForApex was called on for a
    apexVariations,               \* apexVariations[m]: the APEXes, in the order they came
    directly,                     \* apexNamesMap: the pairs m, a that hold TRUE
    UniqueApexVariationsForDeps,
    visited,                      \* the modules the mutator of this phase visited
    variants,                     \* variants[m]: the variations, with the APEXes of each
    links,                        \* links[m][v]: the variation of each dependency of m's v
    NotAvailableForPlatform

vars == <<g, phase, marked, apexVariations, directly, UniqueApexVariationsForDeps,
          visited, variants, links, NotAvailableForPlatform>>

\* g.deps: the dependencies; g.same: those DepIsInSameApex; g.key[a]: what
\* mergedName makes of the minimum SDK version and the SDKs of a; g.unique: the
\* modules with UniqueApexVariations; g.available[m]: apex_available of m.

DepsOf(m) == {c \in Libs : <<m, c>> \in g.deps}

-----------------------------------------------------------------------------
\* What the walk of apexDepsMutator from a reaches.
RECURSIVE Walked(_)
Walked(S) ==
    LET T == S \cup {e[2] : e \in {e \in g.same : e[1] \in S}}
    IN  IF T = S THEN S ELSE Walked(T)

Contents(a) == Walked({a}) \ {a}

\* One child of the walk of a: UpdateApexDependency and BuildForApex.
BuildForApex(a, m) ==
    /\ phase = "deps"
    /\ a \in g.enabled
    /\ m \in Contents(a) \ marked[a]
    /\ marked' = [marked EXCEPT ![a] = @ \cup {m}]
    /\ apexVariations' = [apexVariations EXCEPT ![m] = Append(@, a)]
    /\ directly' = IF <<a, m>> \in g.same THEN directly \cup {<<m, a>>} ELSE directly
    /\ UNCHANGED <<g, phase, UniqueApexVariationsForDeps, visited, variants, links,
                   NotAvailableForPlatform>>

depsDone ==
    /\ phase = "deps"
    /\ \A a \in g.enabled : Contents(a) = marked[a]
    /\ phase' = "unique"
    /\ UNCHANGED <<g, marked, apexVariations, directly, UniqueApexVariationsForDeps,
                   visited, variants, links, NotAvailableForPlatform>>

-----------------------------------------------------------------------------
\* Blueprint: the visits of a bottom-up mutator, and its end.
Visit(m, mutator, following) ==
    /\ phase = mutator
    /\ m \notin visited
    /\ DepsOf(m) \subseteq visited
    /\ IF visited \cup {m} = Libs
       THEN visited' = {} /\ phase' = following
       ELSE visited' = visited \cup {m} /\ UNCHANGED phase

anyInSameApex(m, n) == Range(apexVariations[m]) \cap Range(apexVariations[n]) # {}

usesUniqueItself(m) == m \in g.unique

usesUnique(m) == m \in g.unique \/ m \in UniqueApexVariationsForDeps

UpdateUniqueApexVariationsForDeps(m) ==
    /\ Visit(m, "unique", "apex")
    /\ UniqueApexVariationsForDeps' =
          IF \E d \in DepsOf(m) : anyInSameApex(d, m) /\ usesUnique(d)
          THEN UniqueApexVariationsForDeps \cup {m} ELSE UniqueApexVariationsForDeps
    /\ UNCHANGED <<g, marked, apexVariations, directly, variants, links,
                   NotAvailableForPlatform>>

-----------------------------------------------------------------------------
\* The variations of CreateApexVariations and the InApexes of each.  A merged
\* variation has the name g.key[a], and an alias for each of its APEXes.
sorted(list) == SelectSeq(Order, LAMBDA a : a \in Range(list))

merged(list) ==
    [k \in {g.key[a] : a \in Range(list)} |->
        SelectSeq(sorted(list), LAMBDA a : g.key[a] = k)]

createVariations(m) ==
    LET apexes == IF usesUnique(m) THEN [a \in Range(apexVariations[m]) |-> <<a>>]
                  ELSE merged(apexVariations[m])
    IN  IF apexVariations[m] = <<>> THEN [v \in {Platform} |-> <<>>]
        ELSE [v \in DOMAIN apexes \cup {Platform} |->
                 IF v = Platform THEN <<>> ELSE apexes[v]]

\* Blueprint: the variation of d that a dependency of variation v gets.  A
\* module that was not split has only Platform; an alias leads to the variation
\* it names; the default variation is Platform.
variationFor(d, v) ==
    CASE v \in DOMAIN variants[d] -> v
      [] \E w \in DOMAIN variants[d] : v \in Range(variants[d][w])
            -> CHOOSE w \in DOMAIN variants[d] : v \in Range(variants[d][w])
      [] OTHER -> Platform

CreateApexVariations(m) ==
    /\ Visit(m, "apex", "platform")
    /\ variants' = [variants EXCEPT ![m] = createVariations(m)]
    /\ links' = [links EXCEPT ![m] =
                    [v \in DOMAIN createVariations(m) |->
                        [d \in DepsOf(m) |-> variationFor(d, v)]]]
    /\ UNCHANGED <<g, marked, apexVariations, directly, UniqueApexVariationsForDeps,
                   NotAvailableForPlatform>>

-----------------------------------------------------------------------------
\* CheckAvailableForApex for the platform.
AvailableForPlatform(m) == g.available[m] = {} \/ Platform \in g.available[m]

markPlatformAvailability(m) ==
    /\ Visit(m, "platform", "done")
    /\ LET available ==
              /\ AvailableForPlatform(m) \/ apexVariations[m] = <<>>
              /\ \A d \in DepsOf(m) :
                    <<m, d>> \in g.same => d \notin NotAvailableForPlatform
       IN  NotAvailableForPlatform' =
              IF available THEN NotAvailableForPlatform
              ELSE NotAvailableForPlatform \cup {m}
    /\ UNCHANGED <<g, marked, apexVariations, directly, UniqueApexVariationsForDeps,
                   variants, links>>

-----------------------------------------------------------------------------
Init ==
    /\ g \in Inputs
    /\ phase = "deps"
    /\ marked = [a \in Apexes |-> {}]
    /\ apexVariations = [m \in Libs |-> <<>>]
    /\ directly = {}
    /\ UniqueApexVariationsForDeps = {}
    /\ visited = {}
    /\ variants = [m \in Libs |-> [v \in {Platform} |-> <<>>]]
    /\ links = [m \in Libs |-> <<>>]
    /\ NotAvailableForPlatform = {}

Next ==
    \/ \E a \in Apexes, m \in Libs : BuildForApex(a, m)
    \/ depsDone
    \/ \E m \in Libs :
          \/ UpdateUniqueApexVariationsForDeps(m)
          \/ CreateApexVariations(m)
          \/ markPlatformAvailability(m)

Spec == Init /\ [][Next]_vars

-----------------------------------------------------------------------------
Holders(m) == {a \in g.enabled : m \in Contents(a)}

\* m or something below it is built for one APEX at a time, in APEXes they share.
RECURSIVE KeptApart(_)
KeptApart(m) ==
    \/ m \in g.unique
    \/ \E d \in DepsOf(m) : Holders(d) \cap Holders(m) # {} /\ KeptApart(d)

\* The variation of m that goes into a.
InApex(m, a) == IF KeptApart(m) THEN a ELSE g.key[a]

\* m, or something it takes into its APEXes, is in an APEX and says it is not
\* for the platform.
OffPlatform(m) ==
    \E d \in Walked({m}) : Holders(d) # {} /\ ~AvailableForPlatform(d)

\* In whatever order the APEXes mark their contents and the modules are visited:
\* an APEX gets of every module it contains the variation built for it, which
\* is shared exactly by the APEXes that would build it the same way and
\* separate when a module below it must be; what this variation depends on in
\* the same APEX is again the variation built for that APEX; the platform's
\* variations depend only on the platform's; and a module stays off the platform
\* exactly when it takes in one that is not for it.
ApexLinksExact ==
    phase = "done" =>
       /\ \A m \in Libs, a \in g.enabled : m \in Contents(a) =>
             /\ InApex(m, a) \in DOMAIN variants[m]
             /\ variants[m][InApex(m, a)] =
                   IF KeptApart(m) THEN <<a>>
                   ELSE SelectSeq(Order, LAMBDA b : b \in Holders(m) /\ g.key[b] = g.key[a])
             /\ variationFor(m, a) = InApex(m, a)
             /\ \A d \in DepsOf(m) : <<m, d>> \in g.same =>
                   links[m][InApex(m, a)][d] = InApex(d, a)
       /\ \A m \in Libs : \A d \in DepsOf(m) : links[m][Platform][d] = Platform
       /\ directly = {<<e[2], e[1]>> : e \in g.same \cap (g.enabled \X Libs)}
       /\ NotAvailableForPlatform = {m \in Libs : OffPlatform(m)}

=============================================================================
