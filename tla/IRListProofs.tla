---------------------------- MODULE IRListProofs ----------------------------
(***************************************************************************)
(* Proofs about IRList, for any number of instructions and lists.          *)
(***************************************************************************)
EXTENDS IRList, TLAPS

(* No node is in two places. *)
Apart ==
    \A s, t \in lists : \A i \in DOMAIN s, j \in DOMAIN t :
        s[i] = t[j] => s = t /\ i = j

Allocated == \A s \in lists : \A i \in DOMAIN s : kind[s[i]] # "free"

Good(s) == Chained(s) /\ next[Last(s)] = NULL /\ tail[s[1]] = Last(s)

Backwards(s) ==
    \A i \in 2 .. Len(s) : kind[s[i]] # "LABEL" => prev[s[i]] = s[i - 1]

(* Between the merges of TransLogic() the list that begins with code0 may  *)
(* run in a circle; its tail is right, and so is that of code2 within it.  *)
Circle(s) ==
    /\ s[1] = logic.code0
    /\ \E k \in 2 .. Len(s) : s[k] = logic.code2
    /\ Chained(s)
    /\ tail[logic.code0] = Last(s) /\ tail[logic.code2] = Last(s)
    /\ logic.left = 2 => next[Last(s)] = NULL

InLogic ==
    /\ kind[logic.code2] = "LABEL" /\ kind[logic.label2] = "LABEL"
    /\ <<logic.label2>> \in lists
    /\ \E s \in lists : /\ Circle(s) /\ s # <<logic.label2>>
                        /\ \A t \in lists \ {s} : Good(t)

IInv ==
    /\ TypeOK
    /\ Apart /\ Allocated
    /\ \A s \in lists : Backwards(s)
    /\ logic = Idle => \A s \in lists : Good(s)
    /\ logic # Idle => InLogic

-----------------------------------------------------------------------------
(* Sequences of nodes.                                                     *)

LEMMA Ends ==
  ASSUME NEW s \in Seq(Node) \ {<<>>}
  PROVE  /\ Len(s) \in Nat \ {0} /\ DOMAIN s = 1 .. Len(s)
         /\ 1 \in DOMAIN s /\ Len(s) \in DOMAIN s
         /\ s[1] \in Node /\ Last(s) \in Node
         /\ \A i \in DOMAIN s : s[i] \in Node
BY DEF Last

LEMMA Concatenation ==
  ASSUME NEW s \in Seq(Node) \ {<<>>}, NEW t \in Seq(Node) \ {<<>>}
  PROVE  /\ s \o t \in Seq(Node) \ {<<>>}
         /\ Len(s \o t) = Len(s) + Len(t)
         /\ DOMAIN (s \o t) = 1 .. Len(s) + Len(t)
         /\ \A i \in 1 .. Len(s) : (s \o t)[i] = s[i]
         /\ \A i \in 1 .. Len(t) : (s \o t)[Len(s) + i] = t[i]
         /\ Last(s \o t) = Last(t) /\ (s \o t)[1] = s[1]
<1>1. Len(s) \in Nat \ {0} /\ Len(t) \in Nat \ {0} BY Ends
<1>2. s \o t \in Seq(Node) OBVIOUS
<1>3. Len(s \o t) = Len(s) + Len(t) OBVIOUS
<1>4. \A i \in 1 .. Len(s) : (s \o t)[i] = s[i] BY <1>1
<1>5. \A i \in 1 .. Len(t) : (s \o t)[Len(s) + i] = t[i] BY <1>1
<1>6. s \o t # <<>> BY <1>1, <1>3
<1>7. DOMAIN (s \o t) = 1 .. Len(s) + Len(t) BY <1>2, <1>3
<1> QED BY <1>1, <1>2, <1>3, <1>4, <1>5, <1>6, <1>7 DEF Last

(* An element of a concatenation comes from one of its parts. *)
LEMMA Parts ==
  ASSUME NEW s \in Seq(Node) \ {<<>>}, NEW t \in Seq(Node) \ {<<>>},
         NEW i \in DOMAIN (s \o t)
  PROVE  \/ i \in DOMAIN s /\ (s \o t)[i] = s[i]
         \/ i - Len(s) \in DOMAIN t /\ (s \o t)[i] = t[i - Len(s)] /\ i > Len(s)
<1>1. i \in 1 .. Len(s) + Len(t) BY Concatenation
<1>2. Len(s) \in Nat /\ Len(t) \in Nat /\ DOMAIN s = 1 .. Len(s) /\ DOMAIN t = 1 .. Len(t)
  BY Ends
<1>3. CASE i <= Len(s) BY <1>1, <1>2, <1>3, Concatenation
<1>4. CASE i > Len(s)
  <2>1. i - Len(s) \in 1 .. Len(t) /\ i = Len(s) + (i - Len(s)) BY <1>1, <1>2, <1>4
  <2> QED BY <2>1, <1>2, <1>4, Concatenation
<1> QED BY <1>1, <1>2, <1>3, <1>4

(* An index into the second part of a concatenation. *)
LEMMA Shift ==
  ASSUME NEW a \in Nat, NEW b \in Nat, NEW i \in 1 .. a + b - 1, i > a
  PROVE  i - a \in 1 .. b - 1 /\ i = a + (i - a) /\ i + 1 = a + ((i - a) + 1)
OBVIOUS

(* Joining two lists keeps every node in one place. *)
LEMMA JoinApart ==
  ASSUME TypeOK, Apart, Allocated, NEW s \in lists, NEW t \in lists, s # t,
         Joined(s, t), kind' = kind
  PROVE  /\ lists' \subseteq Seq(Node) /\ <<>> \notin lists'
         /\ Apart' /\ Allocated'
<1>1. /\ s \in Seq(Node) \ {<<>>} /\ t \in Seq(Node) \ {<<>>}
      /\ \A r \in lists : r \in Seq(Node) \ {<<>>}
  BY DEF TypeOK
<1>2. \A r \in lists' : r = s \o t \/ r \in lists \ {s, t} BY DEF Joined
<1>3. s \o t \in Seq(Node) \ {<<>>} BY <1>1, Concatenation
<1>4. Allocated'
  <2> SUFFICES ASSUME NEW r \in lists', NEW i \in DOMAIN r PROVE kind[r[i]] # "free"
    BY DEF Allocated
  <2>1. CASE r \in lists BY <2>1 DEF Allocated
  <2>2. CASE r = s \o t BY <2>2, <1>1, Parts DEF Allocated
  <2> QED BY <2>1, <2>2, <1>2
<1>5. Apart'
  <2> SUFFICES ASSUME NEW p \in lists', NEW q \in lists', NEW i \in DOMAIN p, NEW j \in DOMAIN q,
                      p[i] = q[j]
               PROVE  p = q /\ i = j
    BY DEF Apart
  <2>0. /\ \A m \in DOMAIN s, r \in lists : \A n \in DOMAIN r : s[m] = r[n] => s = r /\ m = n
        /\ \A m \in DOMAIN t, r \in lists : \A n \in DOMAIN r : t[m] = r[n] => t = r /\ m = n
    BY DEF Apart
  <2>1. CASE p \in lists \ {s, t} /\ q \in lists \ {s, t} BY <2>1 DEF Apart
  <2>2. CASE p = s \o t /\ q \in lists \ {s, t} BY <2>0, <2>2, <1>1, Parts
  <2>3. CASE p \in lists \ {s, t} /\ q = s \o t BY <2>0, <2>3, <1>1, Parts
  <2>4. CASE p = s \o t /\ q = s \o t
    <3>1. \/ i \in DOMAIN s /\ p[i] = s[i]
          \/ i - Len(s) \in DOMAIN t /\ p[i] = t[i - Len(s)]
      BY <2>4, <1>1, Parts
    <3>2. \/ j \in DOMAIN s /\ q[j] = s[j]
          \/ j - Len(s) \in DOMAIN t /\ q[j] = t[j - Len(s)]
      BY <2>4, <1>1, Parts
    <3>3. i \in Nat /\ j \in Nat /\ Len(s) \in Nat BY <2>4, <1>1, Concatenation, Ends
    <3>4. i = j BY <2>0, <3>1, <3>2, <3>3
    <3> QED BY <2>4, <3>4
  <2> QED BY <1>2, <2>1, <2>2, <2>3, <2>4
<1> QED BY <1>1, <1>2, <1>3, <1>4, <1>5

(* MergeCodes() of two lists whose tails are right: the joined list is in  *)
(* order, and no other list is touched.  The first need not have had an    *)
(* end.                                                                    *)
LEMMA JoinGood ==
  ASSUME TypeOK, Apart, NEW s \in lists, NEW t \in lists, s # t,
         Chained(s), tail[s[1]] = Last(s), Good(t), MergeCodes(s[1], t[1])
  PROVE  /\ Good(s \o t)'
         /\ tail'[t[1]] = Last(s \o t)
         /\ \A r \in lists \ {s, t} : Good(r) => Good(r)'
<1>1. /\ s \in Seq(Node) \ {<<>>} /\ t \in Seq(Node) \ {<<>>}
      /\ \A r \in lists : r \in Seq(Node) \ {<<>>}
  BY DEF TypeOK
<1>2. /\ next' = [next EXCEPT ![Last(s)] = t[1]]
      /\ tail' = [tail EXCEPT ![s[1]] = Last(t)]
  BY DEF MergeCodes, Good
<1>3. next \in [Node -> Node \cup {NULL}] /\ tail \in [Node -> Node \cup {NULL}] BY DEF TypeOK
<1>4. \A r \in lists : \A i \in DOMAIN r : r # s => r[i] # Last(s) /\ r[i] # s[1]
  BY <1>1, Ends DEF Apart, Last
<1>5. \A i \in DOMAIN s : i # Len(s) => s[i] # Last(s)
  BY <1>1, Ends DEF Apart, Last
<1>6. Len(s) \in Nat \ {0} /\ Len(t) \in Nat \ {0} BY <1>1, Ends
<1>7. Chained(s \o t)'
  <2> SUFFICES ASSUME NEW i \in 1 .. Len(s) + Len(t) - 1
               PROVE  next'[(s \o t)[i]] = (s \o t)[i + 1]
    <3>1. Len(s \o t) - 1 = Len(s) + Len(t) - 1 BY <1>1, Concatenation
    <3> QED BY <3>1 DEF Chained
  <2>0. i \in 1 .. Len(s) + Len(t) - 1 OBVIOUS
  <2>1. CASE i < Len(s)
    <3>1. (s \o t)[i] = s[i] /\ (s \o t)[i + 1] = s[i + 1] /\ i \in DOMAIN s /\ s[i] \in Node
      BY <2>0, <2>1, <1>1, <1>6, Concatenation, Ends
    <3>2. next[s[i]] = s[i + 1] BY <2>0, <2>1, <1>6 DEF Chained
    <3>3. s[i] # Last(s) BY <1>5, <2>0, <2>1, <3>1, <1>6
    <3> QED BY <3>1, <3>2, <3>3, <1>2, <1>3
  <2>2. CASE i = Len(s)
    <3>1. (s \o t)[i] = Last(s) BY <2>2, <1>1, <1>6, Concatenation DEF Last
    <3>2. (s \o t)[i + 1] = t[1] BY <2>2, <1>1, <1>6, Concatenation
    <3>3. Last(s) \in Node BY <1>1, Ends
    <3> QED BY <3>1, <3>2, <3>3, <1>2, <1>3
  <2>3. CASE i > Len(s)
    <3> DEFINE j == i - Len(s)
    <3>1. j \in 1 .. Len(t) - 1 /\ i = Len(s) + j /\ i + 1 = Len(s) + (j + 1)
      BY <2>0, <2>3, <1>6, Shift
    <3>2. (s \o t)[i] = t[j] /\ (s \o t)[i + 1] = t[j + 1]
      BY <3>1, <1>1, <1>6, Concatenation
    <3>3. next[t[j]] = t[j + 1] BY <3>1 DEF Good, Chained
    <3>4. t[j] # Last(s) /\ t[j] \in Node BY <1>4, <3>1, <1>1, <1>6, Ends
    <3> QED BY <3>2, <3>3, <3>4, <1>2, <1>3
  <2> QED BY <2>0, <2>1, <2>2, <2>3, <1>6
<1>8. Last(s \o t) = Last(t) /\ (s \o t)[1] = s[1] BY <1>1, Concatenation
<1>9. Last(t) \in Node /\ Last(t) # Last(s) /\ s[1] \in Node /\ t[1] \in Node /\ t[1] # s[1]
  BY <1>1, <1>4, Ends DEF Last
<1>10. next'[Last(t)] = NULL BY <1>2, <1>3, <1>9 DEF Good
<1>11. tail'[s[1]] = Last(t) /\ tail'[t[1]] = Last(t)
  BY <1>2, <1>3, <1>9 DEF Good
<1>12. ASSUME NEW r \in lists \ {s, t}, Good(r) PROVE Good(r)'
  <2>1. r \in Seq(Node) \ {<<>>} BY <1>1
  <2>2. \A i \in DOMAIN r : r[i] \in Node /\ r[i] # Last(s) /\ r[i] # s[1] BY <1>4, <2>1, Ends
  <2>3. \A i \in DOMAIN r : next'[r[i]] = next[r[i]] /\ tail'[r[i]] = tail[r[i]]
    BY <2>2, <1>2, <1>3
  <2>4. Chained(r)'
    <3> SUFFICES ASSUME NEW i \in 1 .. Len(r) - 1 PROVE next'[r[i]] = r[i + 1] BY DEF Chained
    <3>1. i \in DOMAIN r BY <2>1, Ends
    <3> QED BY <3>1, <2>3, <1>12 DEF Good, Chained
  <2>5. next'[Last(r)] = NULL /\ tail'[r[1]] = Last(r)
    BY <2>1, <2>3, <1>12, Ends DEF Good, Last
  <2> QED BY <2>4, <2>5 DEF Good, Last
<1> QED BY <1>7, <1>8, <1>10, <1>11, <1>12 DEF Good, Last

(* And backwards: only the first node of the second list has a new prev,   *)
(* the last one of the first list.                                         *)
LEMMA JoinBackwards ==
  ASSUME TypeOK, Apart, NEW s \in lists, NEW t \in lists, s # t,
         \A r \in lists : Backwards(r),
         tail[s[1]] = Last(s), MergeCodes(s[1], t[1]), Joined(s, t), kind' = kind
  PROVE  \A r \in lists' : Backwards(r)'
<1>1. /\ s \in Seq(Node) \ {<<>>} /\ t \in Seq(Node) \ {<<>>}
      /\ \A r \in lists : r \in Seq(Node) \ {<<>>}
  BY DEF TypeOK
<1>2. prev' = [prev EXCEPT ![t[1]] = Last(s)] BY DEF MergeCodes
<1>3. prev \in [Node -> Node \cup {NULL}] BY DEF TypeOK
<1>4. \A r \in lists : \A i \in DOMAIN r : i # 1 => r[i] # t[1]
  BY <1>1, Ends DEF Apart
<1>5. Len(s) \in Nat \ {0} /\ Len(t) \in Nat \ {0} /\ t[1] \in Node BY <1>1, Ends
<1>6. ASSUME NEW r \in lists, NEW i \in 2 .. Len(r), kind[r[i]] # "LABEL"
      PROVE  prev'[r[i]] = r[i - 1]
  <2>1. r \in Seq(Node) \ {<<>>} /\ Len(r) \in Nat BY <1>1, Ends
  <2>2. i \in DOMAIN r /\ r[i] \in Node /\ i # 1 BY <2>1, Ends
  <2>3. prev[r[i]] = r[i - 1] BY <1>6 DEF Backwards
  <2> QED BY <2>2, <2>3, <1>2, <1>3, <1>4
<1>7. Backwards(s \o t)'
  <2> SUFFICES ASSUME NEW i \in 2 .. Len(s \o t), kind[(s \o t)[i]] # "LABEL"
               PROVE  prev'[(s \o t)[i]] = (s \o t)[i - 1]
    BY DEF Backwards
  <2>0. i \in 2 .. Len(s) + Len(t) BY <1>1, Concatenation
  <2>1. CASE i <= Len(s)
    <3>1. (s \o t)[i] = s[i] /\ (s \o t)[i - 1] = s[i - 1] /\ i \in 2 .. Len(s)
      BY <2>0, <2>1, <1>1, <1>5, Concatenation
    <3> QED BY <3>1, <1>6
  <2>2. CASE i = Len(s) + 1
    <3>1. (s \o t)[i] = t[1] BY <2>2, <1>1, <1>5, Concatenation
    <3>2. (s \o t)[i - 1] = Last(s) BY <2>2, <1>1, <1>5, Concatenation DEF Last
    <3> QED BY <3>1, <3>2, <1>2, <1>3, <1>5
  <2>3. CASE i > Len(s) + 1
    <3> DEFINE j == i - Len(s)
    <3>1. j \in 2 .. Len(t) /\ i = Len(s) + j /\ i - 1 = Len(s) + (j - 1) /\ j - 1 \in 1 .. Len(t)
      BY <2>0, <2>3, <1>5
    <3>2. (s \o t)[i] = t[j] /\ (s \o t)[i - 1] = t[j - 1]
      BY <3>1, <1>1, <1>5, Concatenation
    <3> QED BY <3>1, <3>2, <1>6
  <2> QED BY <2>0, <2>1, <2>2, <2>3, <1>5
<1> QED BY <1>6, <1>7 DEF Backwards, Joined

(* MergeCodes() stores addresses of nodes only. *)
LEMMA MergeTypes ==
  ASSUME TypeOK, NEW c \in Node, NEW d \in Node, tail[c] \in Node, tail[d] \in Node,
         MergeCodes(c, d)
  PROVE  /\ next' \in [Node -> Node \cup {NULL}]
         /\ prev' \in [Node -> Node \cup {NULL}]
         /\ tail' \in [Node -> Node \cup {NULL}]
         /\ kind' = kind => \A n \in Node : kind'[n] # "free" => tail'[n] \in Node
BY DEF TypeOK, MergeCodes

-----------------------------------------------------------------------------
(* The steps, one by one.                                                  *)

LEMMA MallocStep ==
  ASSUME IInv, NEW n \in Node, NEW k \in Kind, code_malloc(n, k)
  PROVE  IInv'
<1>1. /\ logic = Idle /\ logic' = logic /\ kind[n] = "free"
      /\ kind' = [kind EXCEPT ![n] = k] /\ next' = [next EXCEPT ![n] = NULL]
      /\ prev' = [prev EXCEPT ![n] = NULL] /\ tail' = [tail EXCEPT ![n] = n]
      /\ lists' = lists \cup {<<n>>}
  BY DEF code_malloc, OwnTail
<1>2. /\ kind \in [Node -> Kind \cup {"free"}] /\ next \in [Node -> Node \cup {NULL}]
      /\ prev \in [Node -> Node \cup {NULL}] /\ tail \in [Node -> Node \cup {NULL}]
      /\ logic \in Logic /\ \A r \in lists : r \in Seq(Node) \ {<<>>}
  BY DEF IInv, TypeOK
<1>3. <<n>> \in Seq(Node) \ {<<>>} /\ DOMAIN <<n>> = {1} /\ <<n>>[1] = n /\ Len(<<n>>) = 1
  OBVIOUS
<1>4. TypeOK'
  <2>1. \A m \in Node : kind[m] # "free" => tail[m] \in Node BY DEF IInv, TypeOK
  <2>2. \A m \in Node : kind'[m] # "free" => tail'[m] \in Node BY <1>1, <1>2, <2>1
  <2> QED BY <1>1, <1>2, <1>3, <2>2 DEF TypeOK
<1>5. \A r \in lists : \A i \in DOMAIN r : r[i] # n /\ r[i] \in Node
  BY <1>1, <1>2, Ends DEF IInv, Allocated
<1>6. \A r \in lists : \A i \in DOMAIN r :
         kind'[r[i]] = kind[r[i]] /\ next'[r[i]] = next[r[i]] /\ prev'[r[i]] = prev[r[i]]
         /\ tail'[r[i]] = tail[r[i]]
  BY <1>1, <1>2, <1>5
<1>7. kind'[n] # "free" /\ next'[n] = NULL /\ tail'[n] = n BY <1>1, <1>2 DEF Kind
<1>8. Apart' BY <1>1, <1>3, <1>5 DEF IInv, Apart
<1>9. Allocated' BY <1>1, <1>3, <1>6, <1>7 DEF IInv, Allocated
<1>10. \A r \in lists' : Backwards(r)'
  <2>1. ASSUME NEW r \in lists PROVE Backwards(r)'
    <3> SUFFICES ASSUME NEW i \in 2 .. Len(r), kind'[r[i]] # "LABEL"
                 PROVE  prev'[r[i]] = r[i - 1]
      BY DEF Backwards
    <3>1. i \in DOMAIN r BY <1>2, Ends
    <3> QED BY <3>1, <1>6 DEF IInv, Backwards
  <2>2. Backwards(<<n>>)' BY <1>3 DEF Backwards
  <2> QED BY <1>1, <2>1, <2>2
<1>11. \A r \in lists' : Good(r)'
  <2>1. ASSUME NEW r \in lists PROVE Good(r)'
    <3>0. Good(r) /\ r \in Seq(Node) \ {<<>>} BY <1>1, <1>2 DEF IInv
    <3>1. Chained(r)'
      <4> SUFFICES ASSUME NEW i \in 1 .. Len(r) - 1 PROVE next'[r[i]] = r[i + 1] BY DEF Chained
      <4>1. i \in DOMAIN r BY <3>0, Ends
      <4> QED BY <4>1, <3>0, <1>6 DEF Good, Chained
    <3>2. next'[Last(r)] = NULL /\ tail'[r[1]] = Last(r)
      BY <3>0, <1>6, Ends DEF Good, Last
    <3> QED BY <3>1, <3>2 DEF Good, Last
  <2>2. Good(<<n>>)' BY <1>3, <1>7 DEF Good, Chained, Last
  <2> QED BY <1>1, <2>1, <2>2
<1> QED BY <1>1, <1>4, <1>8, <1>9, <1>10, <1>11 DEF IInv

(* What Merge and TransLogic have in common. *)
LEMMA JoinStep ==
  ASSUME IInv, logic = Idle, NEW s \in lists, NEW t \in lists, s # t,
         MergeCodes(s[1], t[1]), Joined(s, t), kind' = kind, logic' \in Logic
  PROVE  /\ TypeOK' /\ Apart' /\ Allocated'
         /\ \A r \in lists' : Backwards(r)' /\ Good(r)'
         /\ tail'[t[1]] = Last(s \o t)
<1>1. /\ TypeOK /\ Apart /\ Allocated /\ \A r \in lists : Backwards(r) /\ Good(r)
      /\ s \in Seq(Node) \ {<<>>} /\ t \in Seq(Node) \ {<<>>}
  BY DEF IInv, TypeOK
<1>2. /\ lists' \subseteq Seq(Node) /\ <<>> \notin lists' /\ Apart' /\ Allocated'
  BY <1>1, JoinApart
<1>3. s[1] \in Node /\ t[1] \in Node /\ tail[s[1]] \in Node /\ tail[t[1]] \in Node
  BY <1>1, Ends DEF Good
<1>4. TypeOK' BY <1>1, <1>2, <1>3, MergeTypes DEF TypeOK
<1>5. \A r \in lists' : Backwards(r)' BY <1>1, JoinBackwards DEF Good
<1>6. /\ Good(s \o t)' /\ tail'[t[1]] = Last(s \o t)
      /\ \A r \in lists \ {s, t} : Good(r) => Good(r)'
  BY <1>1, JoinGood DEF Good
<1> QED BY <1>1, <1>2, <1>4, <1>5, <1>6 DEF Joined

LEMMA MergeStep ==
  ASSUME IInv, NEW s \in lists, NEW t \in lists, Merge(s, t)
  PROVE  IInv'
BY JoinStep DEF Merge, IInv, TypeOK

LEMMA TransLogicStep ==
  ASSUME IInv, NEW s \in lists, NEW t \in lists, NEW u \in lists, TransLogic(s, t, u)
  PROVE  IInv'
<1>1. /\ logic = Idle /\ s # t /\ u # s /\ u # t
      /\ kind[t[1]] = "LABEL" /\ kind[u[1]] = "LABEL" /\ Len(u) = 1
      /\ MergeCodes(s[1], t[1]) /\ Joined(s, t) /\ kind' = kind
      /\ logic' = [left |-> 2, code0 |-> s[1], code2 |-> t[1], label2 |-> u[1]]
  BY DEF TransLogic
<1>2. \A r \in {s, t, u} : r \in Seq(Node) \ {<<>>} /\ r[1] \in Node
  BY Ends DEF IInv, TypeOK
<1>3. logic' \in Logic BY <1>1, <1>2 DEF Logic
<1>4. /\ TypeOK' /\ Apart' /\ Allocated'
      /\ \A r \in lists' : Backwards(r)' /\ Good(r)'
      /\ tail'[t[1]] = Last(s \o t)
  BY <1>1, <1>3, JoinStep
<1>5. logic' # Idle /\ logic'.left = 2 /\ logic'.code0 = s[1] /\ logic'.code2 = t[1]
      /\ logic'.label2 = u[1]
  BY <1>1 DEF Idle
<1>6. u = <<u[1]>> BY <1>1, <1>2
<1>7. /\ s \o t \in lists' /\ Len(s \o t) >= 2 /\ (s \o t)[1] = s[1]
      /\ Len(s) + 1 \in 2 .. Len(s \o t) /\ (s \o t)[Len(s) + 1] = t[1]
  <2>1. Len(s) \in Nat \ {0} /\ Len(t) \in Nat \ {0} BY <1>2, Ends
  <2>2. Len(s \o t) = Len(s) + Len(t) BY <1>2, Concatenation
  <2>3. 1 \in 1 .. Len(t) BY <2>1
  <2> QED BY <1>1, <1>2, <2>1, <2>2, <2>3, Concatenation DEF Joined
<1>8. Circle(s \o t)' BY <1>4, <1>5, <1>7 DEF Circle, Good, Last
<1>9. u \in lists' /\ u # s \o t BY <1>1, <1>7 DEF Joined
<1>10. InLogic' BY <1>1, <1>4, <1>5, <1>6, <1>7, <1>8, <1>9 DEF InLogic
<1> QED BY <1>4, <1>5, <1>10 DEF IInv

LEMMA AgainStep ==
  ASSUME IInv, MergeAgain
  PROVE  IInv'
<1>1. /\ logic # Idle /\ logic.left = 2 /\ MergeCodes(logic.code0, logic.code2)
      /\ logic' = [logic EXCEPT !.left = 1] /\ kind' = kind /\ lists' = lists
  BY DEF MergeAgain
<1>2. PICK s \in lists : /\ Circle(s) /\ s # <<logic.label2>>
                         /\ \A t \in lists \ {s} : Good(t)
  BY <1>1 DEF IInv, InLogic
<1>3. PICK k \in 2 .. Len(s) : s[k] = logic.code2 BY <1>2 DEF Circle
<1>4. /\ TypeOK /\ Apart /\ s \in Seq(Node) \ {<<>>}
      /\ \A r \in lists : r \in Seq(Node) \ {<<>>}
      /\ next \in [Node -> Node \cup {NULL}] /\ tail \in [Node -> Node \cup {NULL}]
      /\ prev \in [Node -> Node \cup {NULL}]
  BY DEF IInv, TypeOK
<1>5. /\ k \in DOMAIN s /\ s[k] \in Node /\ s[1] \in Node /\ Last(s) \in Node
      /\ Len(s) \in DOMAIN s
  BY <1>3, <1>4, Ends
<1>6. /\ next' = [next EXCEPT ![Last(s)] = s[k]] /\ prev' = [prev EXCEPT ![s[k]] = Last(s)]
      /\ tail' = tail /\ logic.code0 = s[1]
      /\ tail[s[1]] = Last(s) /\ tail[s[k]] = Last(s)
  BY <1>1, <1>2, <1>3, <1>4, <1>5 DEF Circle, MergeCodes
<1>7. /\ logic' \in Logic /\ logic' # Idle /\ logic'.left = 1 /\ logic'.code0 = logic.code0
      /\ logic'.code2 = logic.code2 /\ logic'.label2 = logic.label2
  <2>1. logic \in [left : {1, 2}, code0 : Node, code2 : Node, label2 : Node]
    BY <1>1, <1>4 DEF TypeOK, Logic
  <2> QED BY <2>1, <1>1 DEF Logic, Idle
<1>8. TypeOK' BY <1>1, <1>4, <1>5, <1>6, <1>7 DEF TypeOK
<1>9. Apart' /\ Allocated' BY <1>1 DEF IInv, Apart, Allocated
<1>10. ASSUME NEW r \in lists PROVE Backwards(r)'
  <2> SUFFICES ASSUME NEW i \in 2 .. Len(r), kind[r[i]] # "LABEL"
               PROVE  prev'[r[i]] = r[i - 1]
    BY <1>1 DEF Backwards
  <2>1. r[i] # s[k] BY <1>1, <1>3 DEF IInv, InLogic
  <2>2. i \in DOMAIN r /\ r[i] \in Node BY <1>4, Ends
  <2> QED BY <2>1, <2>2, <1>4, <1>6 DEF IInv, Backwards
<1>11. \A i \in DOMAIN s : i # Len(s) => s[i] # Last(s) BY <1>4, <1>5 DEF Apart, Last
<1>12. Chained(s)'
  <2> SUFFICES ASSUME NEW i \in 1 .. Len(s) - 1 PROVE next'[s[i]] = s[i + 1] BY DEF Chained
  <2>1. i \in DOMAIN s /\ i # Len(s) /\ s[i] \in Node BY <1>4, Ends
  <2> QED BY <2>1, <1>2, <1>4, <1>6, <1>11 DEF Circle, Chained
<1>13. Circle(s)' BY <1>2, <1>3, <1>6, <1>7, <1>12 DEF Circle, Last
<1>14. ASSUME NEW t \in lists \ {s} PROVE Good(t)'
  <2>1. t \in Seq(Node) \ {<<>>} /\ Good(t) BY <1>2, <1>4
  <2>2. \A i \in DOMAIN t : t[i] # Last(s) /\ t[i] \in Node
    BY <1>4, <1>5, <2>1, Ends DEF Apart, Last
  <2>3. \A i \in DOMAIN t : next'[t[i]] = next[t[i]] BY <1>4, <1>6, <2>2
  <2>4. Chained(t)'
    <3> SUFFICES ASSUME NEW i \in 1 .. Len(t) - 1 PROVE next'[t[i]] = t[i + 1] BY DEF Chained
    <3>1. i \in DOMAIN t BY <2>1, Ends
    <3> QED BY <3>1, <2>1, <2>3 DEF Good, Chained
  <2> QED BY <2>1, <2>3, <2>4, <1>6, Ends DEF Good, Last
<1>15. InLogic' BY <1>1, <1>2, <1>7, <1>13, <1>14 DEF IInv, InLogic
<1> QED BY <1>1, <1>7, <1>8, <1>9, <1>10, <1>15 DEF IInv

LEMMA LabelStep ==
  ASSUME IInv, NEW s0 \in lists, NEW u \in lists, MergeLabel(s0, u)
  PROVE  IInv'
<1>1. /\ logic # Idle /\ s0[1] = logic.code0 /\ u[1] = logic.label2
      /\ MergeCodes(s0[1], u[1]) /\ Joined(s0, u) /\ logic' = Idle /\ kind' = kind
  BY DEF MergeLabel
<1>2. PICK s \in lists : /\ Circle(s) /\ s # <<logic.label2>>
                         /\ \A t \in lists \ {s} : Good(t)
  BY <1>1 DEF IInv, InLogic
<1>3. /\ TypeOK /\ Apart /\ Allocated /\ \A r \in lists : Backwards(r)
      /\ \A r \in lists : r \in Seq(Node) \ {<<>>}
      /\ <<logic.label2>> \in lists /\ \A r \in lists : 1 \in DOMAIN r
  BY <1>1, Ends DEF IInv, TypeOK, InLogic
<1>4. s0 = s BY <1>1, <1>2, <1>3 DEF Apart, Circle
<1>5. u = <<logic.label2>>
  <2>1. <<logic.label2>>[1] = u[1] BY <1>1
  <2> QED BY <2>1, <1>3 DEF Apart
<1>6. s # u /\ Good(u) /\ Chained(s) /\ tail[s[1]] = Last(s)
  BY <1>2, <1>3, <1>5 DEF Circle
<1>7. /\ Good(s \o u)' /\ \A r \in lists \ {s, u} : Good(r) => Good(r)'
  BY <1>1, <1>3, <1>4, <1>6, JoinGood
<1>8. /\ lists' \subseteq Seq(Node) /\ <<>> \notin lists' /\ Apart' /\ Allocated'
  BY <1>1, <1>3, <1>4, <1>6, JoinApart
<1>9. \A r \in lists' : Backwards(r)' BY <1>1, <1>3, <1>4, <1>6, JoinBackwards
<1>10. s[1] \in Node /\ u[1] \in Node /\ tail[s[1]] \in Node /\ tail[u[1]] \in Node
  BY <1>3, <1>6, Ends DEF Good
<1>11. TypeOK' BY <1>1, <1>3, <1>4, <1>8, <1>10, MergeTypes DEF TypeOK, Logic
<1>12. \A r \in lists' : Good(r)' BY <1>1, <1>2, <1>4, <1>7 DEF Joined
<1> QED BY <1>1, <1>8, <1>9, <1>11, <1>12 DEF IInv

LEMMA Inductive ==
  ASSUME IInv, [Next]_vars
  PROVE  IInv'
<1>1. CASE Next
  BY <1>1, MallocStep, MergeStep, TransLogicStep, AgainStep, LabelStep DEF Next
<1>2. CASE UNCHANGED vars
  <2>1. /\ kind' = kind /\ next' = next /\ prev' = prev /\ tail' = tail
        /\ logic' = logic /\ lists' = lists
    BY <1>2 DEF vars
  <2>2. TypeOK' BY <2>1 DEF IInv, TypeOK
  <2>3. Apart' /\ Allocated' BY <2>1 DEF IInv, Apart, Allocated
  <2>4. /\ \A r \in lists : Good(r) => Good(r)'
        /\ \A r \in lists : Backwards(r) => Backwards(r)'
        /\ \A r \in lists : Circle(r) => Circle(r)'
    BY <2>1 DEF Good, Backwards, Circle, Chained, Last
  <2> QED BY <2>1, <2>2, <2>3, <2>4 DEF IInv, InLogic
<1> QED BY <1>1, <1>2

LEMMA Initially ==
  ASSUME Init
  PROVE  IInv
BY DEF Init, IInv, TypeOK, Apart, Allocated, Logic, Idle

THEOREM Invariant == Spec => []IInv
<1>1. Init => IInv BY Initially
<1>2. IInv /\ [Next]_vars => IInv' BY Inductive
<1> QED BY <1>1, <1>2, PTL DEF Spec

(* Every link is an address of a node or NULL, and a list is never empty. *)
THEOREM TypeCorrect == Spec => []TypeOK
<1>1. IInv => TypeOK BY DEF IInv
<1> QED BY <1>1, Invariant, PTL

(* However code_malloc(), MergeCodes() and TransLogic() are interleaved,   *)
(* a walk by next meets every list whole and ends (MergeCodes()).          *)
THEOREM ListsLinked == Spec => []Linked
<1>1. IInv => Linked BY DEF IInv, Linked, Good
<1> QED BY <1>1, Invariant, PTL

(* The double merge of TransLogic() leaves prev wrong at a label only,     *)
(* where no walk of DividingBlock() goes back.                             *)
THEOREM PrevRight == Spec => []PrevInBlocks
<1>1. IInv => PrevInBlocks BY DEF IInv, PrevInBlocks, Backwards
<1> QED BY <1>1, Invariant, PTL
=============================================================================
