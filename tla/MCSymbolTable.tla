---------------------------- MODULE MCSymbolTable ---------------------------
(* Small instances of SymbolTable for TLC. *)
EXTENDS SymbolTable, TLC

CONSTANTS a, b, c, h1, h2

(* Two short identifiers share a bucket, the long one can meet them. *)
HashFun == [n \in Name |-> IF n = c THEN h2 ELSE h1]

Symmetry == Permutations(Sym) \cup Permutations(Env)
=============================================================================
