----------------------------- MODULE MCFileData -----------------------------
(***************************************************************************)
(* Model checking of FileData on a small disk.                             *)
(***************************************************************************)
EXTENDS FileData

(* What is written: one byte, and two that differ. *)
OneOrTwo == {<<1>>, <<0, 1>>}

(* Aligned and unaligned, in the first block and in the second. *)
FirstBlocks == {0, 1, 3}

(* Nothing, two blocks, and three, which take a second inode. *)
UpToThreeBlocks == {0, 3, 5}
=============================================================================
