--------------------------- MODULE MCStorageCrash ---------------------------
(***************************************************************************)
(* Model checking of StorageCrash on a small image.                        *)
(***************************************************************************)
EXTENDS StorageCrash, TLC

(* The answer of the last handler has no influence on the next one, unless *)
(* it killed the daemon.                                                   *)
View == <<fs, kills, aborts, owed, rv = "abort">>

(* No handler prefers one name to another.                                 *)
NameSymmetry == Permutations(Names)
=============================================================================
