----------------------------- MODULE Translate -----------------------------
(***************************************************************************)
(* The translation of Code/translate.c, from the tree of a program to      *)
(* intermediate code.                                                      *)
(*                                                                         *)
(* A tree is a tuple whose first component names its production:           *)
(*   expressions  int n | id x | assign l e | and l r | or l r | not e     *)
(*                rel op l r | arith kind l r | minus e | paren e          *)
(*                call f args | read | write e | index a e | field s f     *)
(*   statements   exp e | comp defs stmts | return e | if c s              *)
(*                ifelse c s s | while c s                                 *)
(* a definition is [name, type, init], init being NULL or an expression,   *)
(* and a function [name, params, body].  Floats, read() as a statement and *)
(* the assignment of whole arrays or structures are left out.              *)
(*                                                                         *)
(* Where the code counts temp_num and label_num up, a temporary and a      *)
(* label are named here by the place in the tree that asks for them.       *)
(***************************************************************************)
EXTENDS InterCode, FiniteSets, SequencesExt

-----------------------------------------------------------------------------
(* Types.                                                                  *)

INT == <<"int">>

RECURSIVE type_size(_)
type_size(t) ==
    CASE t[1] = "int"    -> 4
      [] t[1] = "array"  -> t[3] * type_size(t[2])
      [] t[1] = "struct" ->
            FoldSeq(LAMBDA f, n : n + type_size(f[2]), 0, t[2])

(* A field lies behind those declared before it. *)
Field(t, f) == CHOOSE i \in DOMAIN t[2] : t[2][i][1] = f
field_type(t, f) == t[2][Field(t, f)][2]
field_offset(t, f) ==
    FoldSeq(LAMBDA g, n : n + type_size(g[2]), 0, SubSeq(t[2], 1, Field(t, f) - 1))

(* The type that TransExp leaves in *ret; sc is the innermost declaration  *)
(* of each name.                                                           *)
RECURSIVE TypeOf(_, _)
TypeOf(e, sc) ==
    CASE e[1] = "id"    -> sc[e[2]].type
      [] e[1] = "index" -> TypeOf(e[2], sc)[2]
      [] e[1] = "field" -> field_type(TypeOf(e[2], sc), e[3])
      [] OTHER -> INT

-----------------------------------------------------------------------------
(* Operands and instructions.                                              *)

Temp(p, i)  == <<"t", p, i>>
Const(n)    == <<"c", n>>
Label(p, i) == <<p, i>>

gen_assign_code(right, left, kind) ==
    IF left = NULL THEN <<>> ELSE <<[op |-> kind, x |-> left, y |-> right]>>

gen_arith_code(result, a, b, kind) ==
    IF result = NULL THEN <<>> ELSE <<[op |-> kind, x |-> result, y |-> a, z |-> b]>>

gen_cjp_code(a, b, relop, l) ==
    <<[op |-> "CJP", y |-> a, z |-> b, relop |-> relop, label |-> l]>>

gen_goto_code(l)    == <<[op |-> "GOTO", label |-> l]>>
new_label(l)        == <<[op |-> "LABEL", label |-> l]>>
gen_opx_code(a, k)  == <<[op |-> k, x |-> a]>>
gen_dec_code(a, n)  == <<[op |-> "DEC", x |-> a, size |-> n]>>
gen_func_code(f)    == <<[op |-> "FUNCDEF", name |-> f]>>
(* Mutant of gen_call_code: the result has no place. *)
gen_call_codeNowhere(f, a, p) == <<[op |-> "CALL", x |-> a, name |-> f]>>
gen_call_code(f, a, p) ==
    <<[op |-> "CALL", x |-> IF a = NULL THEN Temp(p, 9) ELSE a, name |-> f]>>

-----------------------------------------------------------------------------
(* Expressions.  p is the position of the expression in the program.       *)

RECURSIVE TransExp(_, _, _, _), TransCond(_, _, _, _, _)

TransId(e, place, sc) ==
    LET sym == sc[e[2]]
    IN  gen_assign_code(sym.op, place,
                        IF sym.type # INT /\ sym.kind = "VARIABLE"
                        THEN "GET_ADDRESS" ELSE "NORMAL")

TransArith(e, p, place, sc) ==
    TransExp(e[3], Append(p, 1), Temp(p, 1), sc)
    \o TransExp(e[4], Append(p, 2), Temp(p, 2), sc)
    \o gen_arith_code(place, Temp(p, 1), Temp(p, 2), e[2])

TransMinus(e, p, place, sc) ==
    TransExp(e[2], Append(p, 1), Temp(p, 1), sc)
    \o gen_arith_code(place, Const(0), Temp(p, 1), "SUB")

(* Mutant of TransLogic: the place is not cleared first. *)
TransLogicUncleared(e, p, place, sc) ==
    TransCond(e, Append(p, 1), Label(p, 1), Label(p, 2), sc)
    \o new_label(Label(p, 1))
    \o gen_assign_code(Const(1), place, "NORMAL")
    \o new_label(Label(p, 2))

TransLogic(e, p, place, sc) ==
    gen_assign_code(Const(0), place, "NORMAL")
    \o TransCond(e, Append(p, 1), Label(p, 1), Label(p, 2), sc)
    \o new_label(Label(p, 1))
    \o gen_assign_code(Const(1), place, "NORMAL")
    \o new_label(Label(p, 2))

(* The arguments are evaluated from left to right and queued from right    *)
(* to left.                                                                *)
TransArgs(args, p, sc) ==
    FlattenSeq([i \in DOMAIN args |-> TransExp(args[i], Append(p, i), Temp(p, i), sc)])

TransExpFun(e, p, place, sc) ==
    CASE e[1] = "read"  -> gen_opx_code(place, "READ")
      [] e[1] = "write" ->
            TransArgs(<<e[2]>>, p, sc) \o gen_opx_code(Temp(p, 1), "WRITE")
            \o gen_assign_code(Const(0), place, "NORMAL")
      [] e[1] = "call"  ->
            TransArgs(e[3], p, sc)
            \o Reverse([i \in DOMAIN e[3] |-> gen_opx_code(Temp(p, i), "ARG")[1]])
            \o gen_call_code(e[2], place, p)

(* Mutant of TransExpArray: the index is not scaled. *)
TransExpArrayUnscaled(e, p, place, sc) ==
    TransExp(e[2], Append(p, 1), place, sc)
    \o TransExp(e[3], Append(p, 2), Temp(p, 2), sc)
    \o gen_arith_code(place, place, Temp(p, 2), "ADD")

TransExpArray(e, p, place, sc) ==
    TransExp(e[2], Append(p, 1), place, sc)
    \o TransExp(e[3], Append(p, 2), Temp(p, 2), sc)
    \o gen_arith_code(Temp(p, 2), Temp(p, 2), Const(type_size(TypeOf(e, sc))), "MUL")
    \o gen_arith_code(place, place, Temp(p, 2), "ADD")

TransExpStruct(e, p, place, sc) ==
    TransExp(e[2], Append(p, 1), place, sc)
    \o gen_arith_code(place, place,
                      Const(field_offset(TypeOf(e[2], sc), e[3])), "ADD")

TransAddress(e, p, place, sc) ==
    IF e[1] = "index" THEN TransExpArray(e, p, place, sc)
                      ELSE TransExpStruct(e, p, place, sc)

(* Mutant of TransAssign: the place first, then the value. *)
TransAssignPlaceFirst(e, p, place, sc) ==
    IF e[2][1] = "id"
    THEN TransExp(e[3], Append(p, 1), Temp(p, 1), sc)
         \o gen_assign_code(Temp(p, 1), sc[e[2][2]].op, "NORMAL")
         \o gen_assign_code(sc[e[2][2]].op, place, "NORMAL")
    ELSE TransAddress(e[2], Append(p, 2), Temp(p, 2), sc)
         \o TransExp(e[3], Append(p, 1), Temp(p, 1), sc)
         \o gen_assign_code(Temp(p, 1), Temp(p, 2), "LEFT")
         \o gen_assign_code(Temp(p, 2), place, "RIGHT")

(* The value first, then the place it goes to.  A left side that is itself *)
(* an assignment or in parentheses is no place: the value is stored nowhere. *)
TransAssign(e, p, place, sc) ==
    TransExp(e[3], Append(p, 1), Temp(p, 1), sc)
    \o CASE e[2][1] = "id" ->
               gen_assign_code(Temp(p, 1), sc[e[2][2]].op, "NORMAL")
               \o gen_assign_code(sc[e[2][2]].op, place, "NORMAL")
         [] e[2][1] \in {"index", "field"} ->
               TransAddress(e[2], Append(p, 2), Temp(p, 2), sc)
               \o gen_assign_code(Temp(p, 1), Temp(p, 2), "LEFT")
               \o gen_assign_code(Temp(p, 2), place, "RIGHT")
         [] OTHER -> <<>>

TransExp(e, p, place, sc) ==
    CASE e[1] = "assign" -> TransAssign(e, p, place, sc)
      [] e[1] \in {"and", "or", "rel", "not"} -> TransLogic(e, p, place, sc)
      [] e[1] = "arith"  -> TransArith(e, p, place, sc)
      [] e[1] = "paren"  -> TransExp(e[2], Append(p, 1), place, sc)
      [] e[1] = "minus"  -> TransMinus(e, p, place, sc)
      [] e[1] \in {"call", "read", "write"} -> TransExpFun(e, p, place, sc)
      [] e[1] \in {"index", "field"} ->
            TransAddress(e, p, Temp(p, 1), sc)
            \o gen_assign_code(Temp(p, 1), place,
                               IF TypeOf(e, sc) = INT THEN "RIGHT" ELSE "NORMAL")
      [] e[1] = "id"     -> TransId(e, place, sc)
      [] e[1] = "int"    -> gen_assign_code(Const(e[2]), place, "NORMAL")

TransCond(e, p, true, false, sc) ==
    CASE e[1] = "and" ->
            TransCond(e[2], Append(p, 1), Label(p, 1), false, sc)
            \o new_label(Label(p, 1))
            \o TransCond(e[3], Append(p, 2), true, false, sc)
      [] e[1] = "or" ->
            TransCond(e[2], Append(p, 1), true, Label(p, 1), sc)
            \o new_label(Label(p, 1))
            \o TransCond(e[3], Append(p, 2), true, false, sc)
      [] e[1] = "rel" ->
            TransExp(e[3], Append(p, 1), Temp(p, 1), sc)
            \o TransExp(e[4], Append(p, 2), Temp(p, 2), sc)
            \o gen_cjp_code(Temp(p, 1), Temp(p, 2), e[2], true)
            \o gen_goto_code(false)
      [] e[1] = "not" -> TransCond(e[2], Append(p, 1), false, true, sc)
      [] OTHER ->
            TransExp(e, Append(p, 1), Temp(p, 1), sc)
            \o gen_cjp_code(Temp(p, 1), Const(0), "!=", true)
            \o gen_goto_code(false)

-----------------------------------------------------------------------------
(* Definitions, statements, functions.                                     *)

(* The scope after the first n definitions of a block at p.  A declaration *)
(* is visible in its own initialiser.                                      *)
RECURSIVE Scope(_, _, _, _)
Scope(defs, n, p, sc) ==
    IF n = 0 THEN sc
    ELSE LET sym == [op |-> <<"v", Append(p, n)>>, type |-> defs[n].type,
                     kind |-> "VARIABLE"]
         IN  Put(Scope(defs, n - 1, p, sc), defs[n].name, sym)

TransDec(defs, n, p, sc) ==
    LET d  == defs[n]
        in == Scope(defs, n, p, sc)
        q  == Append(p, n)
    IN  (IF d.type = INT THEN <<>> ELSE gen_dec_code(in[d.name].op, type_size(d.type)))
        \o IF d.init = NULL THEN <<>>
           ELSE TransExp(d.init, Append(q, 1), Temp(q, 1), in)
                \o gen_assign_code(Temp(q, 1), in[d.name].op, "NORMAL")

TransDefList(defs, p, sc) ==
    FlattenSeq([n \in DOMAIN defs |-> TransDec(defs, n, p, sc)])

RECURSIVE TransStmt(_, _, _)

TransCompSt(s, p, sc) ==
    LET in == Scope(s[2], Len(s[2]), Append(p, 1), sc)
    IN  TransDefList(s[2], Append(p, 1), sc)
        \o FlattenSeq([i \in DOMAIN s[3] |-> TransStmt(s[3][i], p \o <<2, i>>, in)])

TransReturn(s, p, sc) ==
    TransExp(s[2], Append(p, 1), Temp(p, 1), sc) \o gen_opx_code(Temp(p, 1), "RETURN")

TransIf(s, p, sc) ==
    TransCond(s[2], Append(p, 1), Label(p, 1), Label(p, 2), sc)
    \o new_label(Label(p, 1))
    \o TransStmt(s[3], Append(p, 2), sc)
    \o new_label(Label(p, 2))

TransIfEl(s, p, sc) ==
    TransCond(s[2], Append(p, 1), Label(p, 1), Label(p, 2), sc)
    \o new_label(Label(p, 1))
    \o TransStmt(s[3], Append(p, 2), sc)
    \o gen_goto_code(Label(p, 3))
    \o new_label(Label(p, 2))
    \o TransStmt(s[4], Append(p, 3), sc)
    \o new_label(Label(p, 3))

TransWhile(s, p, sc) ==
    new_label(Label(p, 1))
    \o TransCond(s[2], Append(p, 1), Label(p, 2), Label(p, 3), sc)
    \o new_label(Label(p, 2))
    \o TransStmt(s[3], Append(p, 2), sc)
    \o gen_goto_code(Label(p, 1))
    \o new_label(Label(p, 3))

TransStmt(s, p, sc) ==
    CASE s[1] = "exp"    -> TransExp(s[2], Append(p, 1), NULL, sc)
      [] s[1] = "comp"   -> TransCompSt(s, p, sc)
      [] s[1] = "return" -> TransReturn(s, p, sc)
      [] s[1] = "if"     -> TransIf(s, p, sc)
      [] s[1] = "ifelse" -> TransIfEl(s, p, sc)
      [] s[1] = "while"  -> TransWhile(s, p, sc)

(* An array or a structure is passed as its address. *)
Parameters(f, p) ==
    LET sc == Scope(f.params, Len(f.params), p, <<>>)
    IN  [x \in DOMAIN sc |-> [sc[x] EXCEPT !.kind = "PARAM_V"]]

TransFunDef(f, p) ==
    LET in == Parameters(f, p)
    IN  gen_func_code(f.name)
        \o [i \in DOMAIN f.params |-> gen_opx_code(in[f.params[i].name].op, "PARAM")[1]]
        \o TransCompSt(f.body, Append(p, 0), in)

TransProgram(prog) ==
    FlattenSeq([i \in DOMAIN prog |-> TransFunDef(prog[i], <<i>>)])
=============================================================================
