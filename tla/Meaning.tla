------------------------------ MODULE Meaning ------------------------------
(***************************************************************************)
(* What a program means, as C has it: an evaluator of the trees that       *)
(* module Translate translates.  Operands are evaluated from left to       *)
(* right, a value before the place that it is assigned to.                 *)
(*                                                                         *)
(* A state of the evaluation holds the integers, by the path that leads to *)
(* each (the depth of the call, the variable, then indices and fields),    *)
(* the rest of the input, the output, and the returned value once there is *)
(* one.                                                                    *)
(***************************************************************************)
EXTENDS Translate

Bit(b) == IF b THEN 1 ELSE 0

RECURSIVE Eval(_, _, _, _), Path(_, _, _, _), Run(_, _, _, _, _), EvalAll(_, _, _, _)

(* The arguments args, from left to right. *)
EvalAll(args, s, sc, prog) ==
    IF args = <<>> THEN [v |-> <<>>, s |-> s]
    ELSE LET a == Eval(args[1], s, sc, prog)
             b == EvalAll(Tail(args), a.s, sc, prog)
         IN  [v |-> <<a.v>> \o b.v, s |-> b.s]

CallOf(f, vals, s, prog) ==
    LET i  == CHOOSE i \in DOMAIN prog : prog[i].name = f
        sc == Parameters(prog[i], <<i>>)
        to == [s EXCEPT !.depth = @ + 1,
                        !.vars = FoldLeft(LAMBDA t, k :
                            Put(t, <<s.depth + 1, sc[prog[i].params[k].name].op>>, vals[k]),
                            @, [k \in DOMAIN vals |-> k])]
        r  == Run(prog[i].body, to, <<i, 0>>, sc, prog)
    IN  [v |-> r.ret[1], s |-> [r EXCEPT !.depth = s.depth, !.ret = <<>>]]

(* The value of an expression, and the state that evaluating it leaves. *)
Eval(e, s, sc, prog) ==
    LET l == Eval(e[2], s, sc, prog)      \* operands at 2 and 3 ...
        r == Eval(e[3], l.s, sc, prog)
        m == Eval(e[3], s, sc, prog)      \* ... or at 3 and 4
        n == Eval(e[4], m.s, sc, prog)
    IN
    CASE e[1] = "int"    -> [v |-> e[2], s |-> s]
      [] e[1] = "paren"  -> l
      [] e[1] = "minus"  -> [v |-> -l.v, s |-> l.s]
      [] e[1] = "not"    -> [v |-> Bit(l.v = 0), s |-> l.s]
      [] e[1] = "and"    -> IF l.v = 0 THEN [v |-> 0, s |-> l.s]
                            ELSE [v |-> Bit(r.v # 0), s |-> r.s]
      [] e[1] = "or"     -> IF l.v # 0 THEN [v |-> 1, s |-> l.s]
                            ELSE [v |-> Bit(r.v # 0), s |-> r.s]
      [] e[1] = "rel"    -> [v |-> Bit(Compare(e[2], m.v, n.v)), s |-> n.s]
      [] e[1] = "arith"  -> [v |-> Calculate(e[2], m.v, n.v), s |-> n.s]
      [] e[1] = "assign" ->
            LET a == Path(e[2], m.s, sc, prog)
            IN  [v |-> m.v, s |-> [a.s EXCEPT !.vars = Put(@, a.v, m.v)]]
      [] e[1] \in {"id", "index", "field"} ->
            LET a == Path(e, s, sc, prog)
            IN  [v |-> IF TypeOf(e, sc) = INT THEN At(a.s.vars, a.v) ELSE a.v, s |-> a.s]
      [] e[1] = "read"   -> [v |-> Head(s.in), s |-> [s EXCEPT !.in = Tail(@)]]
      [] e[1] = "write"  -> [v |-> 0, s |-> [l.s EXCEPT !.out = Append(@, l.v)]]
      [] e[1] = "call"   ->
            LET a == EvalAll(e[3], s, sc, prog) IN CallOf(e[2], a.v, a.s, prog)

(* The path that an expression denotes. *)
Path(e, s, sc, prog) ==
    IF e[1] = "id"
    THEN LET sym == sc[e[2]]
             own == <<s.depth, sym.op>>
         IN  [v |-> IF sym.type # INT /\ sym.kind = "PARAM_V" THEN s.vars[own] ELSE own,
              s |-> s]
    ELSE LET b == Path(e[2], s, sc, prog)
         IN  IF e[1] = "field" THEN [v |-> Append(b.v, e[3]), s |-> b.s]
             ELSE LET i == Eval(e[3], b.s, sc, prog)
                  IN  [v |-> Append(b.v, i.v), s |-> i.s]

(* The statements of a block, one by one, until one returns. *)
Run(st, s, p, sc, prog) ==
    LET c    == Eval(st[2], s, sc, prog)
        init(t, n) ==
            LET d == st[2][n]
                in == Scope(st[2], n, Append(p, 1), sc)
                r == Eval(d.init, t, in, prog)
            IN  IF d.init = NULL THEN t
                ELSE [r.s EXCEPT !.vars = Put(@, <<t.depth, in[d.name].op>>, r.v)]
        body == Scope(st[2], Len(st[2]), Append(p, 1), sc)
    IN
    IF s.ret # <<>> THEN s ELSE
    CASE st[1] = "exp"    -> c.s
      [] st[1] = "return" -> [c.s EXCEPT !.ret = <<c.v>>]
      [] st[1] = "if"     -> IF c.v # 0 THEN Run(st[3], c.s, Append(p, 2), sc, prog) ELSE c.s
      [] st[1] = "ifelse" -> IF c.v # 0 THEN Run(st[3], c.s, Append(p, 2), sc, prog)
                             ELSE Run(st[4], c.s, Append(p, 3), sc, prog)
      [] st[1] = "while"  -> IF c.v # 0
                             THEN Run(st, Run(st[3], c.s, Append(p, 2), sc, prog), p, sc, prog)
                             ELSE c.s
      [] st[1] = "comp"   ->
            FoldLeft(LAMBDA t, i : Run(st[3][i], t, p \o <<2, i>>, body, prog),
                     FoldLeft(init, s, [n \in DOMAIN st[2] |-> n]),
                     [i \in DOMAIN st[3] |-> i])

Meaning(prog) ==
    LET r == CallOf("main", <<>>,
                    [depth |-> 0, vars |-> <<>>, in |-> Input, out |-> <<>>, ret |-> <<>>], prog)
    IN  [out |-> r.s.out, ret |-> r.v]
============================================================================
