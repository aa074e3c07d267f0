-------------------------- MODULE MCTemplateCache ---------------------------
(***************************************************************************)
(* TemplateCache for TLC: more entries than the cache may hold, templates  *)
(* of which two, three or none fit, and one that is larger than the cache. *)
(***************************************************************************)
EXTENDS TemplateCache

MCBytes == {1, 2, 4, 6}
=============================================================================
