------------------------------ MODULE MCPager ------------------------------
(***************************************************************************)
(* Small instances of Pager for model checking.                            *)
(***************************************************************************)
EXTENDS Pager, FiniteSetsExt, TLC

CONSTANTS zero, one, MaxTotal

Symmetry == Permutations(Buffer)

(* Bound: the pages all buffers have together. *)
Fits == MapThenSumSet(LAMBDA b : buf[b].size, Buffer) <= MaxTotal
=============================================================================
