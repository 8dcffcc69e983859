---------------------------- MODULE ScopedTable -----------------------------
(***************************************************************************)
(* What the symbol table promises its clients: a stack of environments,    *)
(* each a function from identifiers to symbols.  A declaration goes to the *)
(* innermost environment, unless that declares the identifier already; a   *)
(* lookup is answered from the innermost environment that declares the     *)
(* identifier; an environment leaves with everything it declares.          *)
(***************************************************************************)
EXTENDS Naturals, Sequences

CONSTANTS Name, Sym, NULL

VARIABLES
    scopes,   \* the environments, innermost last
    answer    \* of the last lookup or declaration

Inner == scopes[Len(scopes)]

Declaration(n, r) ==
    IF r = NULL
    THEN \A i \in DOMAIN scopes : n \notin DOMAIN scopes[i]
    ELSE \E i \in DOMAIN scopes :
            /\ n \in DOMAIN scopes[i] /\ scopes[i][n] = r
            /\ \A j \in DOMAIN scopes : j > i => n \notin DOMAIN scopes[j]

Lookup(n) ==
    /\ \E r \in Sym \cup {NULL} : Declaration(n, r) /\ answer' = r
    /\ UNCHANGED scopes

Declare(n, s) ==
    /\ scopes # <<>> /\ n \notin DOMAIN Inner
    /\ \A i \in DOMAIN scopes : \A m \in DOMAIN scopes[i] : scopes[i][m] # s
    /\ scopes' = [scopes EXCEPT ![Len(scopes)] =
                     [m \in DOMAIN Inner \cup {n} |-> IF m = n THEN s ELSE Inner[m]]]
    /\ answer' = s

Refuse(n) ==
    /\ scopes # <<>> /\ n \in DOMAIN Inner
    /\ answer' = NULL /\ UNCHANGED scopes

Enter == scopes' = Append(scopes, [m \in {} |-> NULL]) /\ UNCHANGED answer

Leave ==
    /\ scopes # <<>>
    /\ scopes' = SubSeq(scopes, 1, Len(scopes) - 1)
    /\ UNCHANGED answer

Init == scopes = <<>> /\ answer = NULL

Next ==
    \/ \E n \in Name : Lookup(n) \/ Refuse(n) \/ \E s \in Sym : Declare(n, s)
    \/ Enter \/ Leave

Spec == Init /\ [][Next]_<<scopes, answer>>
=============================================================================
