---------------------------- MODULE MCIsleDisks ----------------------------
(* Instances of IsleDisks for TLC.                                          *)
EXTENDS IsleDisks
=============================================================================
