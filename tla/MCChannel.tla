----------------------------- MODULE MCChannel -----------------------------
(***************************************************************************)
(* Instances of Channel: two buffers that pass their output in every way   *)
(* for the safety properties, and one buffer for the liveness properties.  *)
(***************************************************************************)
EXTENDS Channel, TLC

CONSTANTS i1, i2

(* Nothing tells one buffer from the other. *)
Symmetry == Permutations(Ids)
=============================================================================
