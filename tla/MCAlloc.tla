------------------------------ MODULE MCAlloc ------------------------------
(***************************************************************************)
(* Instances of Alloc for TLC.                                             *)
(***************************************************************************)
EXTENDS Alloc, TLC

BlockSymmetry == Permutations(Block)
=============================================================================
