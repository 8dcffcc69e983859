------------------------------ MODULE MCIRList ------------------------------
(* Small instances of IRList for TLC. *)
EXTENDS IRList, TLC

Symmetry == Permutations(Node)
=============================================================================
