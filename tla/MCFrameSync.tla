----------------------------- MODULE MCFrameSync -----------------------------
(***************************************************************************)
(* FrameSync on small instances.  The two controls are interchangeable.    *)
(***************************************************************************)
EXTENDS FrameSync

AnyControl == Permutations(Controls)
=============================================================================
