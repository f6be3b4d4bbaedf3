----------------------------- MODULE MCStorage -----------------------------
(***************************************************************************)
(* Model checking of Storage on a small image.                             *)
(***************************************************************************)
EXTENDS Storage

(* The answer of the last handler has no influence on the next one, unless *)
(* it killed the daemon.                                                   *)
View == <<fs, rv = "abort">>
=============================================================================
