---------------------------- MODULE MCInodeCrash ----------------------------
(***************************************************************************)
(* Model checking of InodeCrash on a small disk.                           *)
(***************************************************************************)
EXTENDS InodeCrash
=============================================================================
