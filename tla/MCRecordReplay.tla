--------------------------- MODULE MCRecordReplay ---------------------------
(***************************************************************************)
(* RecordReplay for TLC: a page that holds inputs and instructions, and an *)
(* output of three pages of which the last is partial.  The entries of a   *)
(* recipe's tables weigh nothing and its header one byte, so that small    *)
(* recipes are smaller than the output.                                    *)
(***************************************************************************)
EXTENDS RecordReplay

MCCode == {2}

(* One instruction; or one of two bytes, and a jump to the second of them. *)
MCLayouts == {{{2}}, {{2, 3}, {3}}}
=============================================================================
