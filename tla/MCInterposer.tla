---------------------------- MODULE MCInterposer ----------------------------
(***************************************************************************)
(* Interposer for TLC.  Sizes: 1 stays with libc, 2 and 3 are managed, 2   *)
(* may also be a region of 3, and 4 is more than a buffer may have.        *)
(***************************************************************************)
EXTENDS Interposer

CONSTANTS f, g, Lib

OneArgument == {<<a>> : a \in Addresses}
TwoArguments == OneArgument \cup {<<a, b>> : a, b \in Addresses}

(* f lives in a library of its own, g in the program. *)
HomeOf == [e \in Entries |-> IF e = f THEN Lib ELSE Main]

(* Sizes 2 of f and 3 of g have a place of their own, the others share one. *)
Hash(e, n) == IF (e = f) = (n = 2) THEN 0 ELSE 1
=============================================================================
