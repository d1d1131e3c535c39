------------------------------ MODULE MCOutDir ------------------------------
(* Instances of OutDir for TLC.                                            *)
EXTENDS OutDir, TLC

\* Two products, one of them in two variants.
Product(p, v) == [product |-> p, variant |-> v]
MCConfigs == {Product("a", "eng"), Product("b", "eng"), Product("a", "user")}

\* The first product may stop installing a file that the second one installs.
MCInstalls ==
    (Product("a", "eng") :> {{"f", "g"}, {"f"}}) @@ (Product("b", "eng") :> {{"g"}})
        @@ (Product("a", "user") :> {{"f"}})

Symmetry == Permutations(Procs)

=============================================================================
