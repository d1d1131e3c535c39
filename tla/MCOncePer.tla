----------------------------- MODULE MCOncePer ------------------------------
(* Instances of OncePer for TLC.                                           *)
EXTENDS OncePer

CONSTANTS g1, g2, g3, k1, k2, x, y

MCThree == {g1, g2, g3}
MCKeys == {k1, k2}
MCNeeds == [k \in MCKeys |-> IF k = k1 THEN {k2} ELSE {}]
MCOneValue == {x}

=============================================================================
