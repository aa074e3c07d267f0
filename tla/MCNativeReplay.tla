--------------------------- MODULE MCNativeReplay ---------------------------
(***************************************************************************)
(* NativeReplay for TLC: outputs of up to three pages and a piece, blocks  *)
(* that store nothing, less than a page, a page, or across a boundary, and *)
(* windows of one page and of two.                                         *)
(***************************************************************************)
EXTENDS NativeReplay

Windows == {PAGE, 2 * PAGE}
=============================================================================
