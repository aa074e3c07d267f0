---------------------------- MODULE MCControlFlow ---------------------------
(***************************************************************************)
(* ControlFlow for TLC: every program of up to N instructions, loops and   *)
(* branches into nowhere among them.                                       *)
(***************************************************************************)
EXTENDS ControlFlow
=============================================================================
