------------------------- MODULE MCAllocationIndex -------------------------
(***************************************************************************)
(* A small instance of AllocationIndex for model checking.                 *)
(***************************************************************************)
EXTENDS AllocationIndex
=============================================================================
