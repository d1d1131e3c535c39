----------------------------- MODULE MCSoongUi ------------------------------
(* Instances of SoongUi for TLC.                                           *)
EXTENDS SoongUi

=============================================================================
