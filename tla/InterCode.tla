----------------------------- MODULE InterCode -----------------------------
(***************************************************************************)
(* The intermediate code that Code/translate.c makes and Code/generate.c   *)
(* prints: what an instruction reads and defines, what it computes, and    *)
(* the shape of the code as a whole.  A code is a sequence of              *)
(* instructions; an operand is <<"t", ...>> (a temporary), <<"v", ...>> (a *)
(* variable) or <<"c", value>>.                                            *)
(***************************************************************************)
EXTENDS Integers, Sequences

CONSTANTS
    NULL,
    Input         \* what read() returns, call by call

(* Functions that grow; what was never put reads 0. *)
At(f, x)     == IF x \in DOMAIN f THEN f[x] ELSE 0
Put(f, x, v) == [y \in DOMAIN f \cup {x} |-> IF y = x THEN v ELSE f[y]]

Compare(relop, m, n) ==
    CASE relop = "==" -> m = n [] relop = "!=" -> m # n
      [] relop = "<"  -> m < n [] relop = ">"  -> m > n
      [] relop = "<=" -> m <= n [] relop = ">=" -> m >= n

Calculate(kind, m, n) ==
    CASE kind = "ADD" -> m + n [] kind = "SUB" -> m - n [] kind = "MUL" -> m * n
      [] kind = "DIVI" -> m \div n     \* neither is negative here

-----------------------------------------------------------------------------
(* Instructions and their operands.                                        *)

Arithmetic == {"ADD", "SUB", "MUL", "DIVI"}
Kinds == Arithmetic \cup {"NORMAL", "GET_ADDRESS", "RIGHT", "LEFT", "CJP", "GOTO", "LABEL",
            "FUNCDEF", "DEC", "ARG", "CALL", "PARAM", "RETURN", "READ", "WRITE"}
Reads(i) ==
    CASE i.op \in {"NORMAL", "RIGHT"} -> {i.y}
      [] i.op = "LEFT" -> {i.x, i.y}
      [] i.op \in Arithmetic \cup {"CJP"} -> {i.y, i.z}
      [] i.op \in {"ARG", "RETURN", "WRITE"} -> {i.x}
      [] OTHER -> {}
Defines(i) ==
    IF i.op \in Arithmetic \cup {"NORMAL", "RIGHT", "GET_ADDRESS", "CALL", "READ", "PARAM"}
    THEN {i.x} ELSE {}
Operands(i) == Reads(i) \cup Defines(i)
Temps(X)    == {x \in X : x[1] = "t"}
Vars(X)     == {x \in X : x[1] = "v"}

-----------------------------------------------------------------------------
(* The shape of a code c.                                                  *)

Jumps(c, l) == {h \in DOMAIN c : c[h].op \in {"GOTO", "CJP"} /\ c[h].label = l}

(* Control comes to the lines j + 1 .. m from line j only. *)
Closed(c, j, m) ==
    \A k \in j + 1 .. m :
        /\ c[k].op # "FUNCDEF"
        /\ c[k].op = "LABEL" => Jumps(c, c[k].label) \subseteq j + 1 .. m

(* A call that comes to line i has been through line j before. *)
Dominates(c, j, i) == j < i /\ \E m \in i .. Len(c) : Closed(c, j, m)

(* k ARGs, and no more, stand right before line i; k PARAMs begin there.   *)
ArgsBefore(c, i, k) ==
    /\ k < i /\ \A h \in i - k .. i - 1 : c[h].op = "ARG"
    /\ i - k = 1 \/ c[i - k - 1].op # "ARG"
ParamsFrom(c, i, k) ==
    /\ i + k <= Len(c) /\ \A h \in i .. i + k - 1 : c[h].op = "PARAM"
    /\ c[i + k].op # "PARAM"

Linked(c) ==
    /\ \E e \in DOMAIN c : c[e].op = "FUNCDEF" /\ c[e].name = "main"
    /\ \A e \in DOMAIN c :
          c[e].op = "FUNCDEF" /\ c[e].name = "main" => ParamsFrom(c, e + 1, 0)
    /\ \A i \in DOMAIN c : c[i].op = "CALL" =>
          /\ \E e \in DOMAIN c : c[e].op = "FUNCDEF" /\ c[e].name = c[i].name
          /\ \E k \in 0 .. i :
                /\ ArgsBefore(c, i, k)
                /\ \A e \in DOMAIN c :
                      c[e].op = "FUNCDEF" /\ c[e].name = c[i].name => ParamsFrom(c, e + 1, k)
    /\ \A i \in DOMAIN c : c[i].op \in {"GOTO", "CJP"} =>
          \E k \in DOMAIN c : c[k].op = "LABEL" /\ c[k].label = c[i].label

(* What may follow line i.  No function ends without RETURN. *)
Ordered(c) ==
    \A i \in DOMAIN c :
        /\ c[i].op \notin {"GOTO", "RETURN"} => i < Len(c) /\ c[i + 1].op # "FUNCDEF"
        /\ c[i].op = "ARG" => c[i + 1].op \in {"ARG", "CALL"}
        /\ c[i].op = "PARAM" => i > 1 /\ c[i - 1].op \in {"PARAM", "FUNCDEF"}

(* Every temporary that line i reads was written, every array or structure *)
(* whose address it takes was declared, on the way to line i.              *)
Prepared(c) ==
    \A i \in DOMAIN c :
        /\ \A x \in Temps(Reads(c[i])) :
              \E j \in 1 .. i : x \in Defines(c[j]) /\ Dominates(c, j, i)
        /\ c[i].op = "GET_ADDRESS" =>
              \E j \in 1 .. i : c[j].op = "DEC" /\ c[j].x = c[i].y /\ Dominates(c, j, i)

(* NULL stands for a value that nobody asked for: nothing is made with it. *)
Shaped(c) ==
    /\ Len(c) \in Nat /\ DOMAIN c = 1 .. Len(c)
    /\ \A i \in DOMAIN c : /\ c[i].op \in Kinds /\ NULL \notin Operands(c[i])
                           /\ c[i].op = "DEC" => c[i].size \in Nat
    /\ Linked(c) /\ Ordered(c) /\ Prepared(c)
=============================================================================
