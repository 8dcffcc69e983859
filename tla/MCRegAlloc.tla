----------------------------- MODULE MCRegAlloc -----------------------------
(* Small instances of RegAlloc for TLC. *)
EXTENDS RegAlloc, TLC

Symmetry == Permutations(Temp)
=============================================================================
