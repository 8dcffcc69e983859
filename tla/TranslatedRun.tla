--------------------------- MODULE TranslatedRun ---------------------------
(***************************************************************************)
(* The run (module InterCodeRun) of what module Translate makes of a       *)
(* program, compared with what the program means (module Meaning).         *)
(***************************************************************************)
EXTENDS InterCodeRun, Meaning

CONSTANT Programs   \* sequences of functions, the last of which is main

TInit == prog \in Programs /\ code = TransProgram(prog) /\ Start

(* The processor goes on. *)
TSpec == TInit /\ [][Next]_vars /\ WF_vars(Next)

-----------------------------------------------------------------------------
(* Properties.                                                             *)

(* main returns what the program means and has written what it writes, in  *)
(* that order: conditions jump to the right label, logical operators only  *)
(* evaluate what C evaluates, arguments arrive at their parameters,        *)
(* addresses lead to the cell that was meant.                              *)
MeansTheSame == pc = 0 => [out |-> out, ret |-> ret] = Meaning(prog)

(* The program halts, with no ARG left over. *)
Halts == <>[](pc = 0 /\ arg_list = <<>>)
=============================================================================
