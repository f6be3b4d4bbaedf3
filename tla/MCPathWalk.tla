----------------------------- MODULE MCPathWalk -----------------------------
(***************************************************************************)
(* Model checking of PathWalk.                                             *)
(***************************************************************************)
EXTENDS PathWalk
=============================================================================
