--------------------------- MODULE MCOneDirectory ---------------------------
(***************************************************************************)
(* Model checking of OneDirectory with three names and one too long.       *)
(***************************************************************************)
EXTENDS OneDirectory
=============================================================================
