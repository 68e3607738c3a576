------------------------------ MODULE MCIsleVM ------------------------------
(* Instances of IsleVM for TLC.                                             *)
EXTENDS IsleVM
=============================================================================
