--------------------------- MODULE MCIsleContainers ---------------------------
(* Instances of IsleContainers for TLC: model values for isles, container    *)
(* ids and requests, which the specification treats alike.                   *)
EXTENDS IsleContainers, TLC

Symmetry == Permutations(Ids) \cup Permutations(Reqs)
===============================================================================
