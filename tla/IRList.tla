------------------------------- MODULE IRList -------------------------------
(***************************************************************************)
(* The lists of intermediate code of Code/translate.c: nodes linked by     *)
(* next and prev, the last one found through the tail of the first.        *)
(* Every function of the translation returns the first node of a list and  *)
(* MergeCodes() joins two of them.  TransLogic() joins one list twice: for *)
(* a moment the list runs in a circle, until the label that follows is     *)
(* joined to it.  What it leaves behind is what DividingBlock() walks, by  *)
(* next and by prev.                                                       *)
(***************************************************************************)
EXTENDS Integers, Sequences

CONSTANTS
    Node,     \* addresses of struct InterCodes_
    NULL

ASSUME NoNode == NULL \notin Node

VARIABLES
    kind,              \* of each node; "free" before code_malloc()
    next, prev, tail,
    logic,             \* the merges that TransLogic() has yet to make
    lists              \* ghost: the lists that are held, as sequences

vars == <<kind, next, prev, tail, logic, lists>>

(* What a label begins, no walk leaves backwards: see PrevInBlocks.        *)
Kind == {"LABEL", "CODE"}

(* TransLogic() between its merges: its lists code0 and code2, and label2. *)
Idle  == [left |-> 0]
Logic == {Idle} \cup [left : {1, 2}, code0 : Node, code2 : Node, label2 : Node]

-----------------------------------------------------------------------------
(* A new node is its own tail; a mutant forgets it. *)
NoTail(n)  == tail' = [tail EXCEPT ![n] = NULL]
OwnTail(n) == tail' = [tail EXCEPT ![n] = n]

(* code_malloc(), with the kind its caller gives it. *)
code_malloc(n, k) ==
    /\ logic = Idle /\ kind[n] = "free"
    /\ kind' = [kind EXCEPT ![n] = k]
    /\ next' = [next EXCEPT ![n] = NULL]
    /\ prev' = [prev EXCEPT ![n] = NULL]
    /\ OwnTail(n)
    /\ lists' = lists \cup {<<n>>}
    /\ UNCHANGED logic

(* Mutants of MergeCodes: the tail is not moved on; prev is left alone. *)
MergeCodesTail(c1, c2) ==
    /\ next' = [next EXCEPT ![tail[c1]] = c2]
    /\ prev' = [prev EXCEPT ![c2] = tail[c1]]
    /\ tail' = [tail EXCEPT ![c1] = c2]
MergeCodesForward(c1, c2) ==
    /\ next' = [next EXCEPT ![tail[c1]] = c2]
    /\ tail' = [tail EXCEPT ![c1] = tail[c2]]
    /\ UNCHANGED prev

(* MergeCodes() of two lists; with an empty one it changes nothing.        *)
MergeCodes(c1, c2) ==
    /\ next' = [next EXCEPT ![tail[c1]] = c2]
    /\ prev' = [prev EXCEPT ![c2] = tail[c1]]
    /\ tail' = [tail EXCEPT ![c1] = tail[c2]]

Joined(s, t) == lists' = (lists \ {s, t}) \cup {s \o t}

Merge(s, t) ==
    /\ logic = Idle /\ s # t
    /\ MergeCodes(s[1], t[1])
    /\ Joined(s, t)
    /\ UNCHANGED <<kind, logic>>

(* TransLogic(): code0 and code2 are joined, code2 beginning with label1.  *)
TransLogic(s, t, u) ==
    /\ logic = Idle /\ s # t /\ u # s /\ u # t
    /\ kind[t[1]] = "LABEL" /\ kind[u[1]] = "LABEL" /\ Len(u) = 1
    /\ MergeCodes(s[1], t[1])
    /\ Joined(s, t)
    /\ logic' = [left |-> 2, code0 |-> s[1], code2 |-> t[1], label2 |-> u[1]]
    /\ UNCHANGED kind

(* The same once more. *)
MergeAgain ==
    /\ logic # Idle /\ logic.left = 2
    /\ MergeCodes(logic.code0, logic.code2)
    /\ logic' = [logic EXCEPT !.left = 1]
    /\ UNCHANGED <<kind, lists>>

(* label2 behind it. *)
MergeLabel(s, u) ==
    /\ logic # Idle /\ logic.left = 1
    /\ s[1] = logic.code0 /\ u[1] = logic.label2
    /\ MergeCodes(logic.code0, logic.label2)
    /\ Joined(s, u)
    /\ logic' = Idle
    /\ UNCHANGED kind

Init ==
    /\ kind = [n \in Node |-> "free"]
    /\ next = [n \in Node |-> NULL] /\ prev = [n \in Node |-> NULL]
    /\ tail = [n \in Node |-> NULL]
    /\ logic = Idle /\ lists = {}

Next ==
    \/ \E n \in Node, k \in Kind : code_malloc(n, k)
    \/ \E s, t \in lists : Merge(s, t)
    \/ \E s, t, u \in lists : TransLogic(s, t, u)
    \/ MergeAgain
    \/ \E s, u \in lists : MergeLabel(s, u)

Spec == Init /\ [][Next]_vars

-----------------------------------------------------------------------------
(* Properties.                                                             *)

TypeOK ==
    /\ kind \in [Node -> Kind \cup {"free"}]
    /\ next \in [Node -> Node \cup {NULL}]
    /\ prev \in [Node -> Node \cup {NULL}]
    /\ tail \in [Node -> Node \cup {NULL}]
    /\ \A n \in Node : kind[n] # "free" => tail[n] \in Node
    /\ logic \in Logic
    /\ lists \subseteq Seq(Node) /\ <<>> \notin lists

Last(s) == s[Len(s)]
Chained(s) == \A i \in 1 .. Len(s) - 1 : next[s[i]] = s[i + 1]

(* Whoever walks a list from its first node meets its instructions in      *)
(* their order, each once, and comes to an end; the next list joined to it *)
(* will be joined there.                                                   *)
Linked ==
    logic = Idle =>
        \A s \in lists :
            /\ Chained(s) /\ next[Last(s)] = NULL
            /\ tail[s[1]] = Last(s)

(* Backwards, prev leads to the instruction before, from all but a label:  *)
(* DividingBlock() goes back no further than to the first line of a block. *)
PrevInBlocks ==
    logic = Idle =>
        \A s \in lists : \A i \in 2 .. Len(s) :
            kind[s[i]] # "LABEL" => prev[s[i]] = s[i - 1]
=============================================================================
