----------------------------- MODULE MCTreeDisk -----------------------------
(***************************************************************************)
(* TreeDisk for TLC.                                                       *)
(***************************************************************************)
EXTENDS TreeDisk, TLC

Symmetry == Permutations(Data)
=============================================================================
