----------------------------- MODULE MCGameLife ------------------------------
(***************************************************************************)
(* GameLife on small instances.  Players are interchangeable.              *)
(***************************************************************************)
EXTENDS GameLife

AnyPlayer == Permutations(Pids)
=============================================================================
