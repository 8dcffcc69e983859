---------------------------- MODULE MCTranslate ----------------------------
(* Programs to translate: every shape of expression and statement, with   *)
(* operands that have effects, so that order and omission are seen.        *)
EXTENDS TranslatedRun

n(i)  == <<"int", i>>
x     == <<"id", "x">>
y     == <<"id", "y">>
set(l, e) == <<"assign", l, e>>
do(e) == <<"exp", e>>
decl(v, t, e) == [name |-> v, type |-> t, init |-> e]
comp(d, s) == <<"comp", d, s>>

(* int main() { int x = 1; int y = read(); s; write(x); write(y); return e; } *)
Main(s, e) ==
    <<[name |-> "main", params |-> <<>>,
       body |-> comp(<<decl("x", INT, n(1)), decl("y", INT, <<"read">>)>>,
                     <<s, do(<<"write", x>>), do(<<"write", y>>), <<"return", e>>>>)]>>

Atoms == {n(0), n(2), x, y}
Effects == {set(x, y), set(y, n(0)), <<"write", x>>, <<"read">>,
            set(x, <<"arith", "ADD", x, n(1)>>)}
Conds1 == Atoms \cup Effects \cup {<<"rel", "<", x, y>>, <<"rel", "==", set(x, n(3)), x>>}
Conds2 == Conds1 \cup {<<"not", e>> : e \in Conds1}
          \cup {<<k, e, f>> : k \in {"and", "or"}, e \in Conds1, f \in Conds1}
Conds3 == {<<"not", <<k, e, f>>>> : k \in {"and", "or"}, e \in Effects, f \in Effects}
          \cup {<<k, e, <<j, f, g>>>> : k \in {"and", "or"}, j \in {"and", "or"},
                   e \in Effects, f \in Effects, g \in Atoms}
Conds == Conds2 \cup Conds3
Exps == Conds2 \cup
        {<<"arith", k, e, f>> : k \in {"ADD", "SUB", "MUL"}, e \in Conds1, f \in Conds1}
        \cup {<<"minus", e>> : e \in Conds1}
        \cup {<<"arith", "DIVI", <<"paren", e>>, n(2)>> : e \in Conds1}

Values == {Main(do(n(0)), e) : e \in Exps}
Branches == {Main(<<"ifelse", c, do(set(x, n(5))), do(set(y, n(6)))>>, x) : c \in Conds}
Logic == {Main(do(set(x, e)), y) : e \in Conds}

(* Calls: arguments with effects, recursion. *)
param(v, t) == [name |-> v, type |-> t]
p == <<"id", "p">>
q == <<"id", "q">>
Sub == [name |-> "f", params |-> <<param("p", INT), param("q", INT)>>,
        body |-> comp(<<>>, <<<<"return", <<"arith", "SUB", p, q>>>>>>)]
f(e1, e2) == <<"call", "f", <<e1, e2>>>>
(* int f(int p, int q) { if (p < 1) return q; return p + f(p - 1, q + p); } *)
Rec == [Sub EXCEPT !.body =
          comp(<<>>, <<<<"if", <<"rel", "<", p, n(1)>>, <<"return", q>>>>,
                       <<"return", <<"arith", "ADD", p,
                           f(<<"arith", "SUB", p, n(1)>>, <<"arith", "ADD", q, p>>)>>>>>>)]
Calls == {<<g>> \o Main(do(f(e1, e2)), f(e2, f(e1, e2))) :
             g \in {Sub, Rec}, e1 \in Atoms \cup Effects, e2 \in Atoms \cup Effects}

(* Loops, blocks that declare x again. *)
dec(v) == do(set(v, <<"arith", "SUB", v, n(1)>>))
Loop(c, s) == <<"while", c, comp(<<>>, <<s, dec(y)>>)>>
Bodies == {do(<<"write", y>>), <<"if", <<"rel", "==", y, x>>, <<"return", y>>>>,
           comp(<<decl("x", INT, n(9))>>, <<do(set(x, y)), do(<<"write", x>>)>>)} 
Loops == {Main(Loop(c, s), x) : s \in Bodies,
             c \in {y, <<"rel", ">", y, n(0)>>, <<"and", y, <<"rel", "<", n(0), y>>>>}}

(* Arrays and structures: int b[2][2]; struct {int t; int g[2];} c[2]; *)
Row    == <<"array", INT, 2>>
Matrix == <<"array", Row, 2>>
Struct == <<"struct", <<<<"t", INT>>, <<"g", Row>>>>>>
bs == <<"id", "b">>
cs == <<"id", "c">>
idx(l, i) == <<"index", l, i>>
fld(l, g) == <<"field", l, g>>
Cells(I, J) == {idx(idx(bs, i), j) : i \in I, j \in J}
               \cup {fld(idx(cs, i), "t") : i \in I}
               \cup {idx(fld(idx(cs, i), "g"), j) : i \in I, j \in J}
Cell(i) == <<idx(idx(bs, i), n(0)), idx(idx(bs, i), n(1)), fld(idx(cs, i), "t"),
             idx(fld(idx(cs, i), "g"), n(0)), idx(fld(idx(cs, i), "g"), n(1))>>
Constant == Cell(n(0)) \o Cell(n(1))
Dump == [i \in DOMAIN Constant |-> do(<<"write", Constant[i]>>)]
Memory(fs, ss) ==
    fs \o <<[name |-> "main", params |-> <<>>,
             body |-> comp(<<decl("b", Matrix, NULL), decl("c", <<"array", Struct, 2>>, NULL),
                             decl("x", INT, n(0)), decl("y", INT, n(1))>>,
                           ss \o Dump \o <<<<"return", x>>>>)]>>
Places == Cells({n(1), set(x, y), <<"arith", "SUB", y, x>>}, {n(1), x, <<"rel", "==", x, n(0)>>})
Stores == {Memory(<<>>, <<do(set(l, n(7))), do(set(m, <<"arith", "ADD", l, n(1)>>))>>) :
              l \in Places, m \in Places}
Chains == {Memory(<<>>, <<do(set(l, set(m, n(7)))), do(set(x, l))>>) : l \in Places, m \in Places}

(* int g(int p[2], int q) { p[q] = p[0] + 1; return p[q]; } *)
ByRow == [name |-> "g", params |-> <<param("p", Row), param("q", INT)>>,
          body |-> comp(<<>>, <<do(set(idx(p, q), <<"arith", "ADD", idx(p, n(0)), n(1)>>)),
                               <<"return", idx(p, q)>>>>)]
(* int h(struct S p) { p.t = 4; return g(p.g, p.t - 3); } *)
ByStruct == [name |-> "h", params |-> <<param("p", Struct)>>,
             body |-> comp(<<>>, <<do(set(fld(p, "t"), n(4))),
                      <<"return", <<"call", "g", <<fld(p, "g"),
                                   <<"arith", "SUB", fld(p, "t"), n(3)>>>>>>>>>>)]
Passing == {Memory(<<ByRow, ByStruct>>,
                   <<do(set(l, <<"call", "g", <<r, j>>>>)),
                     do(set(x, <<"call", "h", <<idx(cs, i)>>>>))>>) :
               l \in Places, i \in {n(0), x}, j \in {n(1), x},
               r \in {idx(bs, n(1)), fld(idx(cs, x), "g")}}

(* { int b[2][2]; ... while (y) { b[i][0] = y; y = y - 1; } ... }          *)
Filling == {Memory(<<>>, <<Loop(y, do(set(idx(idx(bs, i), n(0)), y))), do(set(x, n(2)))>>) :
               i \in {n(1), x}}

AllPrograms == Values \cup Branches \cup Logic \cup Calls \cup Loops
               \cup Stores \cup Chains \cup Passing \cup Filling
InputSeq == <<2, 7, 0, 4, 1, 3>>
=============================================================================
