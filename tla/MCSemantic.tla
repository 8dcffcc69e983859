----------------------------- MODULE MCSemantic -----------------------------
(* Programs for Semantic: constructs by what they can bring out.           *)
EXTENDS Semantic

basic(t)   == [is |-> "type", type |-> t]
ref(n)     == [is |-> "ref", tag |-> n]
def(n, ds) == [is |-> "def", tag |-> n, defs |-> ds]
dec(n)     == [name |-> n, dims |-> <<>>, init |-> NoInit]
arr(n, k)  == [name |-> n, dims |-> k, init |-> NoInit]  \* sizes k
ini(n, e)  == [name |-> n, dims |-> <<>>, init |-> e]
d(s, decs) == [spec |-> s, decs |-> decs]
head(s, n, ps) == [spec |-> s, name |-> n, params |-> ps]
par(s, c)  == [spec |-> s, dec |-> c]

int    == basic(INT)
float  == basic(FLOAT)
IntA   == <<d(int, <<dec("a")>>)>>
FloatA == <<d(float, <<dec("a")>>)>>
T      == def("T", IntA)
anon   == def(NoTag, IntA)
x      == <<"id", "x">>
y      == <<"id", "y">>
i1     == <<"int", 1>>
f1     == <<"float", 1>>
call(f, as) == <<"call", f, as>>

Statements(E) == {<<k, e>> : k \in {"exp", "return", "if"}, e \in E}

(* Who owns a type: structures shared, redeclared, in headers and fields. *)
Ownership ==
    [globals |-> {d(s, <<>>) : s \in {T, def("T", FloatA), def("U", IntA)}}
                 \cup {d(s, v) : s \in {ref("T"), anon}, v \in {<<dec("x")>>, <<arr("x", <<2>>), dec("y")>>}}
                 \cup {d(def("V", <<d(anon, <<dec("a"), dec("b")>>)>>), <<>>),
                       d(def("V", <<d(ref("T"), <<dec("a"), arr("b", <<2>>)>>)>>), <<dec("v")>>)},
     headers |-> {head(int, f, ps) : f \in {"f", "g"},
                    ps \in {<<par(T, dec("p"))>>, <<par(ref("T"), dec("p"))>>, <<par(ref("U"), dec("p"))>>,
                            <<par(T, dec("p")), par(ref("T"), dec("q"))>>,
                            <<par(int, arr("p", <<2>>))>>}}
                 \cup {head(s, "f", <<>>) : s \in {anon, T, ref("T")}},
     locals  |-> {d(T, <<dec("x")>>), d(ref("T"), <<arr("x", <<2>>)>>)},
     statements |-> {<<"return", x>>, <<"return", i1>>},
     asked   |-> {<<"return", x>>},
     length  |-> 4]

(* Headers that agree or not, calls between them, definitions that are     *)
(* wrong, and what errors leave behind: types that are NULL or Error_Type. *)
Calls ==
    [globals |-> {d(T, <<dec("x")>>), d(ref("T"), <<arr("y", <<2, 3>>)>>), d(def("T", <<>>), <<>>),
                  d(def("V", <<d(T, <<ini("a", i1), arr("b", <<2>>)>>), d(int, <<dec("a")>>)>>), <<dec("x")>>)},
     headers |-> {head(int, "f", ps) : ps \in {<<>>, <<par(int, dec("p"))>>, <<par(float, dec("p"))>>,
                     <<par(int, arr("p", <<2>>))>>, <<par(int, dec("p")), par(float, dec("p"))>>,
                     <<par(ref("T"), dec("p"))>>}}
                 \cup {head(float, "f", <<>>), head(int, "x", <<>>), head(ref("T"), "g", <<>>), head(T, "g", <<>>)},
     locals  |-> {d(int, <<ini("x", call("f", <<i1>>))>>), d(T, <<ini("y", i1)>>)},
     statements |-> {<<"exp", e>> : e \in {call("f", <<>>), call("f", <<i1>>), call("f", <<x>>),
                        <<"dot", <<"index", y, i1>>, "a">>, call("x", <<>>), call("f", <<i1, f1>>)}}
                    \cup {<<"return", x>>, <<"return", y>>},
     asked   |-> {<<"exp", call("f", <<x>>)>>, <<"return", y>>},
     length  |-> 4]

(* Every expression up to two operators over variables of every type. *)
Leaves == {i1, f1, x, y} \cup {<<"id", n>> : n \in {"i", "z", "f", "T", "none"}}
Small ==
    Leaves
    \cup {<<"dot", e, n>> : e \in {x, <<"index", y, i1>>, <<"id", "i">>}, n \in {"a", "b"}}
    \cup {<<"dot", x, "c">>, <<"dot", call("g", <<x>>), "a">>}
    \cup {<<"index", e, k>> : e \in {y, x}, k \in {i1, f1}}
    \cup {call("f", as) : as \in {<<>>, <<i1>>, <<f1>>, <<x>>, <<i1, i1>>, <<i1, f1>>}}
    \cup {call("g", <<x>>), call("g", <<y>>), call("read", <<>>), call("write", <<i1>>), call("x", <<>>)}
Large ==
    {<<k, e, g>> : k \in {"assign", "and", "rel", "arith"}, e \in Small, g \in Small}
    \cup {<<k, e>> : k \in {"paren", "minus", "not"}, e \in Small}
    \cup {<<"assign", <<"paren", e>>, g>> : e \in Small, g \in {i1, x, y}}
    \cup {<<"assign", <<"assign", x, x>>, x>>, <<"or", i1, f1>>}
Expressions ==
    [globals |-> {d(def("T", IntA \o <<d(float, <<dec("b")>>)>>), <<dec("x"), arr("y", <<2>>)>>),
                  d(float, <<dec("z")>>)},
     headers |-> {head(int, "f", <<par(int, dec("i")), par(float, dec("z"))>>), head(int, "f", <<par(int, dec("i"))>>),
                  head(ref("T"), "g", <<par(ref("T"), dec("y"))>>)},
     locals  |-> {d(def("T", IntA \o <<d(float, <<dec("x")>>)>>), <<arr("y", <<2, 3>>)>>)},
     statements |-> {<<"exp", call("g", <<x>>)>>, <<"return", x>>, <<"exp", call("f", <<i1>>)>>},
     asked   |-> {<<"exp", e>> : e \in Small \cup Large} \cup Statements(Small),
     length  |-> 4]

(* What the tests mark with an error, and the analysis does not report:    *)
(* a field that is not there, and p[1] = q[1] with int p[2][2], q[2][4].   *)
Annotated ==
    [globals |-> {d(T, <<dec("x")>>)},
     headers |-> {head(int, "main", <<par(int, arr("p", <<2, 2>>)), par(int, arr("q", <<2, 4>>))>>)},
     locals  |-> {}, statements |-> {},
     asked   |-> {<<"exp", <<"assign", <<"dot", x, "b">>, i1>>>>,
                  <<"exp", <<"assign", <<"index", <<"id", "p">>, i1>>, <<"index", <<"id", "q">>, i1>>>>>>},
     length  |-> 2]

AnnotatedMenus == {Annotated}
TheMenus == {Ownership, Calls, Expressions}
=============================================================================
