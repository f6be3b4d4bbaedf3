------------------------------ MODULE MCInode ------------------------------
(***************************************************************************)
(* Model checking of Inode on a small disk.                                *)
(***************************************************************************)
EXTENDS Inode
=============================================================================
