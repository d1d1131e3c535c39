---------------------------- MODULE MCRateLimit -----------------------------
(* Instances of RateLimit for TLC.                                         *)
EXTENDS RateLimit

CONSTANTS c1, c2, c3

MCClients == {c1, c2, c3}
MCSizes == {0, 1, 2, 4}

=============================================================================
