------------------------------ MODULE MCFinder ------------------------------
(* Instances of Finder for TLC: a root directory, a chain of two           *)
(* directories below it and an excluded one.                               *)
EXTENDS Finder, TLC

CONSTANTS r, a, b, git, top, src, prune

MCDirs == {r, a, b, git}

MCParent == (r :> top) @@ (a :> r) @@ (b :> a) @@ (git :> r)

MCAbove == (r :> {r}) @@ (a :> {r, a}) @@ (b :> {r, a, b}) @@ (git :> {r, git})

MCFileNames == {src, prune}

MCIncludeLists == {{}, {src}}

\* The tree starts without files, with or without its inner directories.
MCInit == Init /\ files = [d \in Dirs |-> {}] /\ Exists(r) /\ Exists(git)

MCSpec == MCInit /\ [][Next]_vars

MCFairSpec == MCSpec /\ WF_vars(Running) /\ WF_vars(dumpDb)

=============================================================================
