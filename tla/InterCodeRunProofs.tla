------------------------- MODULE InterCodeRunProofs -------------------------
(***************************************************************************)
(* Proofs about InterCodeRun, for every code that has the shape of         *)
(* InterCode.                                                              *)
(***************************************************************************)
EXTENDS InterCodeRun, SequenceTheorems, TLAPS

(* What a frame that stands at line p of code c holds: the temporaries in  *)
(* E, the arrays and structures in S.                                      *)
Held(c, E, S, p) ==
    \A j, m \in 1 .. Len(c) :
        Closed(c, j, m) /\ p \in j + 1 .. m =>
            /\ Temps(Defines(c[j])) \subseteq E
            /\ c[j].op = "DEC" => c[j].x \in S

(* Line p has no argument to wait for but these k. *)
Waits(c, p, k) == ParamsFrom(c, IF c[p].op = "FUNCDEF" THEN p + 1 ELSE p, k)

(* A frame that has called stands at its CALL until the call returns. *)
Place(k) == IF k = Len(frames) THEN pc ELSE frames[k + 1].back - 1

IsSeq(s) == s \in Seq({s[i] : i \in DOMAIN s})

Fields == {"env", "slot", "params", "back", "dst", "base"}

(* Each frame but main's was called by the one below. *)
Called(k) ==
    /\ frames[k].back \in 2 .. Len(code)
    /\ code[frames[k].back - 1].op = "CALL"
    /\ frames[k].dst = code[frames[k].back - 1].x
    /\ frames[k - 1].params = <<>>

Stack ==
    /\ IsSeq(frames)
    /\ \A k \in 1 .. Len(frames) :
          /\ frames[k] = [f \in Fields |-> frames[k][f]]
          /\ frames[k].base \in Nat /\ IsSeq(frames[k].params)
          /\ IF k = 1 THEN frames[k].back = 0 ELSE Called(k)

Contents ==
    \A k \in 1 .. Len(frames) :
        Held(code, DOMAIN frames[k].env, DOMAIN frames[k].slot, Place(k))

Arguments ==
    pc # 0 => /\ IsSeq(arg_list) /\ ArgsBefore(code, pc, Len(arg_list))
              /\ Waits(code, pc, Len(Top.params))

IInv ==
    /\ Shaped(code)
    /\ pc \in 0 .. Len(code) /\ brk \in Nat
    /\ (pc = 0) = (frames = <<>>)
    /\ Stack /\ Contents /\ Arguments

-----------------------------------------------------------------------------
(* Sequences of any values.                                                *)

LEMMA SeqFacts ==
  ASSUME NEW s, IsSeq(s)
  PROVE  Len(s) \in Nat /\ DOMAIN s = 1 .. Len(s) /\ (s = <<>>) = (Len(s) = 0)
         /\ s = [i \in 1 .. Len(s) |-> s[i]]
<1> DEFINE V == {s[i] : i \in DOMAIN s}
<1>1. s \in Seq(V) BY DEF IsSeq
<1>2. Len(s) \in Nat /\ s \in [1 .. Len(s) -> V] /\ DOMAIN s = 1 .. Len(s)
  BY <1>1, LenProperties
<1>3. s = <<>> => Len(s) = 0 BY EmptySeq
<1>4. s # <<>> => Len(s) # 0 BY <1>1, EmptySeq
<1> QED BY <1>2, <1>3, <1>4

(* A function on an initial segment is a sequence. *)
LEMMA SegIsSeq ==
  ASSUME NEW n \in Nat, NEW s, s = [i \in 1 .. n |-> s[i]]
  PROVE  IsSeq(s) /\ Len(s) = n
<1> DEFINE V == {s[i] : i \in DOMAIN s}
<1>1. s \in [1 .. n -> V] OBVIOUS
<1>2. s \in Seq(V) BY <1>1, SeqDef
<1>3. Len(s) \in Nat /\ DOMAIN s = 1 .. Len(s) BY <1>2, LenProperties
<1>4. 1 .. n = 1 .. Len(s) BY <1>1, <1>3
<1>5. Len(s) = n BY <1>3, <1>4
<1> QED BY <1>2, <1>5 DEF IsSeq

LEMMA SeqIsSeq == ASSUME NEW V, NEW s \in Seq(V) PROVE IsSeq(s)
<1>1. Len(s) \in Nat /\ s \in [1 .. Len(s) -> V] BY LenProperties
<1> QED BY <1>1, SegIsSeq

LEMMA EmptyIsSeq == IsSeq(<<>>) /\ Len(<<>>) = 0
BY EmptySeq DEF IsSeq

LEMMA OneIsSeq ==
  ASSUME NEW v PROVE IsSeq(<<v>>) /\ Len(<<v>>) = 1 /\ <<v>>[1] = v
<1>1. <<v>> = [i \in 1 .. 1 |-> <<v>>[i]] OBVIOUS
<1> QED BY <1>1, SegIsSeq

(* A sequence and one more value are of one set. *)
LEMMA SetOf ==
  ASSUME NEW s, IsSeq(s), NEW v
  PROVE  \E V : s \in Seq(V) /\ v \in V
<1>1. s \in Seq({s[i] : i \in DOMAIN s} \cup {v}) BY SeqMonotonic DEF IsSeq
<1> QED BY <1>1

LEMMA AppendSeq ==
  ASSUME NEW s, IsSeq(s), NEW v
  PROVE  /\ IsSeq(Append(s, v)) /\ Len(Append(s, v)) = Len(s) + 1
         /\ \A i \in 1 .. Len(s) : Append(s, v)[i] = s[i]
         /\ Append(s, v)[Len(s) + 1] = v
<1>1. PICK V : s \in Seq(V) /\ v \in V BY SetOf
<1>2. /\ Append(s, v) \in Seq(V) /\ Len(Append(s, v)) = Len(s) + 1
      /\ \A i \in 1 .. Len(s) : Append(s, v)[i] = s[i]
      /\ Append(s, v)[Len(s) + 1] = v
  BY <1>1, AppendProperties
<1> QED BY <1>2, SeqIsSeq

LEMMA ConsSeq ==
  ASSUME NEW s, IsSeq(s), NEW v
  PROVE  IsSeq(<<v>> \o s) /\ Len(<<v>> \o s) = Len(s) + 1
<1>1. PICK V : s \in Seq(V) /\ v \in V BY SetOf
<1>2. <<v>> \in Seq(V) BY <1>1
<1>3. <<v>> \o s \in Seq(V) /\ Len(<<v>> \o s) = Len(<<v>>) + Len(s)
  BY <1>1, <1>2, ConcatProperties
<1>4. Len(<<v>>) = 1 /\ Len(s) \in Nat BY OneIsSeq, SeqFacts
<1>5. Len(<<v>> \o s) = Len(s) + 1 BY <1>3, <1>4
<1> QED BY <1>3, <1>5, SeqIsSeq

LEMMA TailSeq ==
  ASSUME NEW s, IsSeq(s), s # <<>>
  PROVE  IsSeq(Tail(s)) /\ Len(Tail(s)) = Len(s) - 1
<1>1. PICK V : s \in Seq(V) BY SetOf
<1>2. Tail(s) \in Seq(V) /\ Len(Tail(s)) = Len(s) - 1 BY <1>1, HeadTailProperties
<1> QED BY <1>2, SeqIsSeq

LEMMA ChopSeq ==
  ASSUME NEW s, IsSeq(s), Len(s) > 0
  PROVE  /\ IsSeq(SubSeq(s, 1, Len(s) - 1)) /\ Len(SubSeq(s, 1, Len(s) - 1)) = Len(s) - 1
         /\ \A i \in 1 .. Len(s) - 1 : SubSeq(s, 1, Len(s) - 1)[i] = s[i]
<1>1. Len(s) \in Nat /\ DOMAIN s = 1 .. Len(s) BY SeqFacts
<1>2. PICK V : s \in Seq(V) BY SetOf
<1>3. 1 \in Int /\ Len(s) - 1 \in Int /\ \A i \in 1 .. Len(s) - 1 : s[i] \in V
  BY <1>1, <1>2
<1>4. /\ SubSeq(s, 1, Len(s) - 1) \in Seq(V)
      /\ Len(SubSeq(s, 1, Len(s) - 1)) = IF 1 <= Len(s) - 1 THEN Len(s) - 1 - 1 + 1 ELSE 0
      /\ \A i \in 1 .. Len(s) - 1 - 1 + 1 : SubSeq(s, 1, Len(s) - 1)[i] = s[1 + i - 1]
  BY <1>3, SubSeqProperties
<1>5. /\ Len(SubSeq(s, 1, Len(s) - 1)) = Len(s) - 1
      /\ \A i \in 1 .. Len(s) - 1 : SubSeq(s, 1, Len(s) - 1)[i] = s[i]
  BY <1>1, <1>4
<1> QED BY <1>4, <1>5, SeqIsSeq

-----------------------------------------------------------------------------
(* Windows of code: how what a frame holds changes as it moves on.         *)

(* What holds at line i is what line i needs. *)
LEMMA HeldNeeds ==
  ASSUME NEW c, Shaped(c), NEW i \in DOMAIN c, NEW E, NEW S, Held(c, E, S, i)
  PROVE  /\ Temps(Reads(c[i])) \subseteq E
         /\ c[i].op = "GET_ADDRESS" => c[i].y \in S
<1>1. Len(c) \in Nat /\ DOMAIN c = 1 .. Len(c) /\ Prepared(c) BY DEF Shaped
<1>2. ASSUME NEW j \in 1 .. i, Dominates(c, j, i)
      PROVE  /\ Temps(Defines(c[j])) \subseteq E
             /\ c[j].op = "DEC" => c[j].x \in S
  <2>1. PICK m \in i .. Len(c) : Closed(c, j, m) BY <1>2 DEF Dominates
  <2>2. j \in 1 .. Len(c) /\ m \in 1 .. Len(c) /\ i \in j + 1 .. m
    BY <1>1, <1>2, <2>1 DEF Dominates
  <2> QED BY <2>1, <2>2 DEF Held
<1>3. ASSUME NEW x \in Temps(Reads(c[i])) PROVE x \in E
  <2>1. PICK j \in 1 .. i : x \in Defines(c[j]) /\ Dominates(c, j, i)
    BY <1>1, <1>3 DEF Prepared
  <2>2. x \in Temps(Defines(c[j])) BY <1>3, <2>1 DEF Temps
  <2> QED BY <1>2, <2>1, <2>2
<1>4. ASSUME c[i].op = "GET_ADDRESS" PROVE c[i].y \in S
  <2>1. PICK j \in 1 .. i : c[j].op = "DEC" /\ c[j].x = c[i].y /\ Dominates(c, j, i)
    BY <1>1, <1>4 DEF Prepared
  <2> QED BY <1>2, <2>1
<1> QED BY <1>3, <1>4

(* From a line to the next, with what it defines. *)
LEMMA HeldNext ==
  ASSUME NEW c, Shaped(c), NEW i \in DOMAIN c, i + 1 \in DOMAIN c,
         NEW E, NEW S, Held(c, E, S, i), NEW F, NEW T,
         E \subseteq F, S \subseteq T, Temps(Defines(c[i])) \subseteq F,
         c[i].op = "DEC" => c[i].x \in T
  PROVE  Held(c, F, T, i + 1)
<1>1. Len(c) \in Nat /\ DOMAIN c = 1 .. Len(c) BY DEF Shaped
<1>2. SUFFICES ASSUME NEW j \in 1 .. Len(c), NEW m \in 1 .. Len(c),
                      Closed(c, j, m), i + 1 \in j + 1 .. m
               PROVE  /\ Temps(Defines(c[j])) \subseteq F
                      /\ c[j].op = "DEC" => c[j].x \in T
  BY DEF Held
<1>3. CASE j = i BY <1>3
<1>4. CASE j # i
  <2>1. i \in j + 1 .. m BY <1>1, <1>2, <1>4
  <2>2. /\ Temps(Defines(c[j])) \subseteq E
        /\ c[j].op = "DEC" => c[j].x \in S
    BY <1>2, <2>1 DEF Held
  <2> QED BY <2>2
<1> QED BY <1>3, <1>4

(* From a jump to its label. *)
LEMMA HeldJump ==
  ASSUME NEW c, Shaped(c), NEW i \in DOMAIN c, NEW t \in DOMAIN c,
         c[i].op \in {"GOTO", "CJP"}, c[t].op = "LABEL", c[t].label = c[i].label,
         NEW E, NEW S, Held(c, E, S, i)
  PROVE  Held(c, E, S, t)
<1>1. SUFFICES ASSUME NEW j \in 1 .. Len(c), NEW m \in 1 .. Len(c),
                      Closed(c, j, m), t \in j + 1 .. m
               PROVE  i \in j + 1 .. m
  BY DEF Held
<1>2. Jumps(c, c[t].label) \subseteq j + 1 .. m BY <1>1 DEF Closed
<1>3. i \in Jumps(c, c[t].label) BY DEF Jumps
<1> QED BY <1>2, <1>3

(* At the entry of a function nothing is held yet. *)
LEMMA HeldEntry ==
  ASSUME NEW c, NEW e, c[e].op = "FUNCDEF", NEW E, NEW S
  PROVE  Held(c, E, S, e)
BY DEF Held, Closed

-----------------------------------------------------------------------------
(* Arguments and parameters.                                               *)

LEMMA ArgsUnique ==
  ASSUME NEW c, NEW i \in Nat, NEW k \in Nat, NEW n \in Nat,
         ArgsBefore(c, i, k), ArgsBefore(c, i, n)
  PROVE  k = n
<1>1. ASSUME NEW a \in Nat, NEW b \in Nat, ArgsBefore(c, i, a), ArgsBefore(c, i, b), a < b
      PROVE  FALSE
  <2>1. i - a - 1 \in i - b .. i - 1 /\ i - a # 1 BY <1>1 DEF ArgsBefore
  <2> QED BY <1>1, <2>1 DEF ArgsBefore
<1> QED BY <1>1

(* After a line that is no ARG, no argument is queued. *)
LEMMA NoArgsBefore ==
  ASSUME NEW c, NEW i \in Nat, i >= 1, i = 1 \/ c[i - 1].op # "ARG"
  PROVE  ArgsBefore(c, i, 0)
BY DEF ArgsBefore

(* Only ARG and CALL stand behind ARGs. *)
LEMMA NoneQueued ==
  ASSUME NEW c, Shaped(c), NEW i \in DOMAIN c, NEW k \in Nat, ArgsBefore(c, i, k),
         c[i].op \notin {"ARG", "CALL"}
  PROVE  k = 0
<1>1. Len(c) \in Nat /\ DOMAIN c = 1 .. Len(c) /\ Ordered(c) BY DEF Shaped
<1>2. ASSUME k > 0 PROVE FALSE
  <2>1. i - 1 \in i - k .. i - 1 /\ i - 1 \in DOMAIN c BY <1>1, <1>2 DEF ArgsBefore
  <2>2. c[i - 1].op = "ARG" BY <2>1 DEF ArgsBefore
  <2>3. c[i - 1 + 1].op \in {"ARG", "CALL"} BY <1>1, <2>1, <2>2 DEF Ordered
  <2>4. i - 1 + 1 = i BY <1>1
  <2> QED BY <2>3, <2>4
<1> QED BY <1>2

(* The line before a label or the entry of a function is no ARG. *)
LEMMA NoArgAtTarget ==
  ASSUME NEW c, Shaped(c), NEW t \in DOMAIN c, c[t].op \notin {"ARG", "CALL"}
  PROVE  ArgsBefore(c, t, 0)
<1>1. Len(c) \in Nat /\ DOMAIN c = 1 .. Len(c) /\ Ordered(c) BY DEF Shaped
<1>2. ASSUME t # 1, c[t - 1].op = "ARG" PROVE FALSE
  <2>1. t - 1 \in DOMAIN c /\ t - 1 + 1 = t BY <1>1, <1>2
  <2> QED BY <1>1, <1>2, <2>1 DEF Ordered
<1> QED BY <1>1, <1>2, NoArgsBefore

(* A PARAM takes one of those that are left; no other line waits.          *)
LEMMA WaitsParam ==
  ASSUME NEW c, NEW i \in Nat, NEW k \in Nat, Waits(c, i, k), c[i].op = "PARAM"
  PROVE  k > 0
BY DEF Waits, ParamsFrom

LEMMA WaitsNone ==
  ASSUME NEW c, NEW i \in Nat, NEW k \in Nat, Waits(c, i, k),
         c[i].op \notin {"PARAM", "FUNCDEF"}
  PROVE  k = 0
BY DEF Waits, ParamsFrom

(* Where no PARAM stands, no argument is waited for. *)
LEMMA NoWait ==
  ASSUME NEW c, Len(c) \in Nat, NEW i \in 1 .. Len(c), c[i].op \notin {"PARAM", "FUNCDEF"}
  PROVE  Waits(c, i, 0)
BY DEF Waits, ParamsFrom

(* What may follow line i, in the terms of one line. *)
LEMMA NextLine ==
  ASSUME NEW c, Shaped(c), NEW i \in DOMAIN c
  PROVE  /\ i \in Nat /\ i >= 1 /\ c[i].op \in Kinds
         /\ c[i].op \notin {"GOTO", "RETURN"} =>
               /\ i + 1 \in DOMAIN c /\ c[i + 1].op # "FUNCDEF"
               /\ c[i + 1].op = "PARAM" => c[i].op \in {"PARAM", "FUNCDEF"}
<1>1. Len(c) \in Nat /\ DOMAIN c = 1 .. Len(c) /\ Ordered(c) BY DEF Shaped
<1>2. c[i].op \in Kinds BY DEF Shaped
<1>3. ASSUME c[i].op \notin {"GOTO", "RETURN"}
      PROVE  /\ i + 1 \in DOMAIN c /\ c[i + 1].op # "FUNCDEF"
             /\ c[i + 1].op = "PARAM" => c[i].op \in {"PARAM", "FUNCDEF"}
  <2>1. i + 1 \in DOMAIN c /\ i + 1 - 1 = i /\ c[i + 1].op # "FUNCDEF"
    BY <1>1, <1>3 DEF Ordered
  <2>2. c[i + 1].op = "PARAM" => c[i + 1 - 1].op \in {"PARAM", "FUNCDEF"}
    BY <2>1, <1>1 DEF Ordered
  <2> QED BY <2>1, <2>2
<1> QED BY <1>1, <1>2, <1>3

LEMMA ParamsTake ==
  ASSUME NEW c, Len(c) \in Nat, NEW i \in Nat, NEW k \in Nat, k > 0, ParamsFrom(c, i, k)
  PROVE  ParamsFrom(c, i + 1, k - 1)
<1>1. i + 1 + (k - 1) = i + k /\ i + 1 + (k - 1) - 1 = i + k - 1 OBVIOUS
<1>2. \A h \in i + 1 .. i + k - 1 : c[h].op = "PARAM" BY DEF ParamsFrom
<1> QED BY <1>1, <1>2 DEF ParamsFrom

(* A line that falls through leaves the next one waiting for what is left. *)
LEMMA WaitsNext ==
  ASSUME NEW c, Shaped(c), NEW i \in DOMAIN c, c[i].op \notin {"GOTO", "RETURN"},
         NEW k \in Nat, Waits(c, i, k)
  PROVE  Waits(c, i + 1, IF c[i].op = "PARAM" THEN k - 1 ELSE k)
<1>1. Len(c) \in Nat /\ DOMAIN c = 1 .. Len(c) BY DEF Shaped
<1>2. /\ i \in Nat /\ i >= 1 /\ i + 1 \in 1 .. Len(c) /\ c[i + 1].op # "FUNCDEF"
      /\ c[i + 1].op = "PARAM" => c[i].op \in {"PARAM", "FUNCDEF"}
  BY <1>1, NextLine
<1>3. CASE c[i].op = "FUNCDEF"
  BY <1>2, <1>3 DEF Waits
<1>4. CASE c[i].op = "PARAM"
  <2>1. ParamsFrom(c, i, k) BY <1>4 DEF Waits
  <2>2. k > 0 BY <1>2, <1>4, WaitsParam
  <2>3. ParamsFrom(c, i + 1, k - 1) BY <1>1, <1>2, <2>1, <2>2, ParamsTake
  <2> QED BY <1>2, <1>4, <2>3 DEF Waits
<1>5. CASE c[i].op \notin {"FUNCDEF", "PARAM"}
  <2>1. k = 0 BY <1>2, <1>5, WaitsNone
  <2>2. Waits(c, i + 1, 0) BY <1>1, <1>2, <1>5, NoWait
  <2> QED BY <1>5, <2>1, <2>2
<1> QED BY <1>3, <1>4, <1>5

(* A line that falls through leaves queued what it queues. *)
LEMMA ArgsNext ==
  ASSUME NEW c, Shaped(c), NEW i \in DOMAIN c, c[i].op \notin {"GOTO", "RETURN", "CALL"},
         NEW k \in Nat, ArgsBefore(c, i, k)
  PROVE  ArgsBefore(c, i + 1, IF c[i].op = "ARG" THEN k + 1 ELSE k)
<1>1. i \in Nat /\ i >= 1 BY NextLine
<1>2. CASE c[i].op = "ARG"
  <2>1. /\ k + 1 < i + 1 /\ i + 1 - (k + 1) = i - k /\ i + 1 - 1 = i
        /\ i - k = 1 \/ c[i - k - 1].op # "ARG"
    BY <1>1 DEF ArgsBefore
  <2>2. \A h \in i - k .. i : c[h].op = "ARG" BY <1>1, <1>2 DEF ArgsBefore
  <2>3. ArgsBefore(c, i + 1, k + 1)
    BY <1>1, <2>1, <2>2 DEF ArgsBefore
  <2> QED BY <1>2, <2>3
<1>3. CASE c[i].op # "ARG"
  <2>1. k = 0 BY <1>3, NoneQueued
  <2>2. ArgsBefore(c, i + 1, 0) BY <1>1, <1>3, NoArgsBefore
  <2> QED BY <1>3, <2>1, <2>2
<1> QED BY <1>2, <1>3

-----------------------------------------------------------------------------
(* The stack of frames.                                                    *)

LEMMA TopFacts ==
  ASSUME IInv, pc # 0
  PROVE  /\ Len(frames) \in Nat /\ Len(frames) >= 1 /\ Len(frames) \in 1 .. Len(frames)
         /\ Len(code) \in Nat /\ DOMAIN code = 1 .. Len(code) /\ pc \in DOMAIN code
         /\ pc \in Nat /\ Now.op \in Kinds
         /\ Held(code, DOMAIN Top.env, DOMAIN Top.slot, pc)
         /\ Top = [f \in Fields |-> Top[f]] /\ Top.base \in Nat
         /\ IsSeq(Top.params) /\ Len(Top.params) \in Nat
         /\ IsSeq(arg_list) /\ Len(arg_list) \in Nat
         /\ ArgsBefore(code, pc, Len(arg_list)) /\ Waits(code, pc, Len(Top.params))
<1>1. IsSeq(frames) /\ frames # <<>> BY DEF IInv, Stack
<1>2. Len(frames) \in Nat /\ Len(frames) # 0 BY <1>1, SeqFacts
<1>3. Len(frames) \in 1 .. Len(frames) /\ Len(frames) >= 1 BY <1>2
<1>4. Len(code) \in Nat /\ DOMAIN code = 1 .. Len(code) BY DEF IInv, Shaped
<1>5. pc \in DOMAIN code /\ pc \in Nat BY <1>4 DEF IInv
<1>6. Now.op \in Kinds BY <1>5, NextLine DEF IInv, Now
<1>7. Held(code, DOMAIN Top.env, DOMAIN Top.slot, pc)
  BY <1>3 DEF IInv, Contents, Place, Top
<1>8. Top = [f \in Fields |-> Top[f]] /\ Top.base \in Nat /\ IsSeq(Top.params)
  BY <1>3 DEF IInv, Stack, Top
<1>9. IsSeq(arg_list) /\ ArgsBefore(code, pc, Len(arg_list)) /\ Waits(code, pc, Len(Top.params))
  BY DEF IInv, Arguments
<1>10. Len(Top.params) \in Nat /\ Len(arg_list) \in Nat BY <1>8, <1>9, SeqFacts
<1> QED BY <1>2, <1>3, <1>4, <1>5, <1>6, <1>7, <1>8, <1>9, <1>10

(* The top frame alone changes, and keeps its caller. *)
OnTop(f) ==
    /\ IsSeq(frames') /\ Len(frames') = Len(frames)
    /\ \A k \in 1 .. Len(frames) : frames'[k] = IF k = Len(frames) THEN f ELSE frames[k]
    /\ f = [x \in Fields |-> f[x]] /\ IsSeq(f.params)
    /\ f.back = Top.back /\ f.dst = Top.dst /\ f.base = Top.base
    /\ DOMAIN Top.env \subseteq DOMAIN f.env /\ DOMAIN Top.slot \subseteq DOMAIN f.slot

(* Where the top frame goes decides about it alone. *)
LEMMA OnTopInv ==
  ASSUME IInv, pc # 0, code' = code, NEW f, OnTop(f),
         pc' \in DOMAIN code, Held(code, DOMAIN f.env, DOMAIN f.slot, pc'),
         IsSeq(arg_list'), ArgsBefore(code, pc', Len(arg_list')),
         Waits(code, pc', Len(f.params)), brk' \in Nat
  PROVE  IInv'
<1> DEFINE n == Len(frames)
<1>1. n \in Nat /\ n >= 1 /\ n \in 1 .. n BY TopFacts
<1>2. Len(code) \in Nat /\ DOMAIN code = 1 .. Len(code) BY TopFacts
<1>3. Top' = f BY <1>1 DEF OnTop, Top
<1>4. Stack'
  <2>1. ASSUME NEW k \in 1 .. n
        PROVE  /\ frames'[k] = [x \in Fields |-> frames'[k][x]]
               /\ frames'[k].base \in Nat /\ IsSeq(frames'[k].params)
               /\ IF k = 1 THEN frames'[k].back = 0 ELSE Called(k)'
    <3>1. /\ frames[k] = [x \in Fields |-> frames[k][x]]
          /\ frames[k].base \in Nat /\ IsSeq(frames[k].params)
          /\ IF k = 1 THEN frames[k].back = 0 ELSE Called(k)
      BY <2>1 DEF IInv, Stack
    <3>2. frames'[k].back = frames[k].back /\ frames'[k].dst = frames[k].dst
          /\ frames'[k].base = frames[k].base
      BY <2>1 DEF OnTop, Top
    <3>3. frames'[k] = [x \in Fields |-> frames'[k][x]] /\ IsSeq(frames'[k].params)
      BY <2>1, <3>1 DEF OnTop
    <3>4. k # 1 => frames'[k - 1] = frames[k - 1]
      BY <1>1, <2>1 DEF OnTop
    <3> QED BY <3>1, <3>2, <3>3, <3>4 DEF Called
  <2> QED BY <2>1 DEF Stack, OnTop
<1>5. Contents'
  <2>1. ASSUME NEW k \in 1 .. n
        PROVE  Held(code, DOMAIN frames'[k].env, DOMAIN frames'[k].slot, Place(k)')
    <3>1. CASE k = n BY <3>1, <1>1 DEF OnTop, Place
    <3>2. CASE k # n
      <4>1. k + 1 \in 1 .. n BY <1>1, <2>1, <3>2
      <4>2. frames'[k] = frames[k] /\ frames'[k + 1].back = frames[k + 1].back
        BY <2>1, <3>2, <4>1 DEF OnTop, Top
      <4>3. Place(k)' = Place(k) BY <3>2, <4>2 DEF Place, OnTop
      <4> QED BY <2>1, <4>2, <4>3 DEF IInv, Contents
    <3> QED BY <3>1, <3>2
  <2> QED BY <2>1 DEF Contents, OnTop
<1>6. Arguments' BY <1>3 DEF Arguments
<1>7. frames' # <<>> BY <1>1, SeqFacts DEF OnTop
<1>8. pc' # 0 /\ pc' \in 0 .. Len(code) BY <1>2
<1>9. Shaped(code)' BY DEF IInv
<1> QED BY <1>4, <1>5, <1>6, <1>7, <1>8, <1>9 DEF IInv

(* The instructions that fall through. *)
LEMMA StraightInv ==
  ASSUME IInv, pc # 0, Now.op \notin {"GOTO", "RETURN", "CALL"}, Straight,
         NEW f, OnTop(f), Temps(Defines(Now)) \subseteq DOMAIN f.env,
         Now.op = "DEC" => Now.x \in DOMAIN f.slot,
         IF Now.op = "ARG" THEN IsSeq(arg_list') /\ Len(arg_list') = Len(arg_list) + 1
                           ELSE arg_list' = arg_list,
         IF Now.op = "PARAM" THEN Len(f.params) = Len(Top.params) - 1
                             ELSE f.params = Top.params,
         brk' \in Nat
  PROVE  IInv'
<1>1. /\ pc \in DOMAIN code /\ Held(code, DOMAIN Top.env, DOMAIN Top.slot, pc)
      /\ IsSeq(arg_list) /\ Len(arg_list) \in Nat /\ ArgsBefore(code, pc, Len(arg_list))
      /\ Len(Top.params) \in Nat /\ Waits(code, pc, Len(Top.params))
  BY TopFacts
<1>2. Shaped(code) BY DEF IInv
<1>3. pc' = pc + 1 /\ code' = code BY DEF Straight, Goes
<1>4. pc + 1 \in DOMAIN code BY <1>1, <1>2, NextLine DEF Now
<1>5. Held(code, DOMAIN f.env, DOMAIN f.slot, pc + 1)
  BY <1>1, <1>2, <1>4, HeldNext DEF Now, OnTop
<1>6. IsSeq(arg_list') /\ ArgsBefore(code, pc + 1, Len(arg_list'))
  <2>1. ArgsBefore(code, pc + 1, IF Now.op = "ARG" THEN Len(arg_list) + 1 ELSE Len(arg_list))
    BY <1>1, <1>2, ArgsNext DEF Now
  <2> QED BY <1>1, <2>1
<1>7. Waits(code, pc + 1, Len(f.params))
  <2>1. Waits(code, pc + 1, IF Now.op = "PARAM" THEN Len(Top.params) - 1 ELSE Len(Top.params))
    BY <1>1, <1>2, WaitsNext DEF Now
  <2> QED BY <2>1
<1> QED BY <1>3, <1>4, <1>5, <1>6, <1>7, OnTopInv

(* The jumps. *)
LEMMA JumpInv ==
  ASSUME IInv, pc # 0, Now.op \in {"GOTO", "CJP"}, Goes(Target(Now.label)),
         UNCHANGED <<frames, arg_list, brk>>
  PROVE  IInv'
<1> DEFINE t == Target(Now.label)
<1>1. /\ pc \in DOMAIN code /\ Held(code, DOMAIN Top.env, DOMAIN Top.slot, pc)
      /\ IsSeq(arg_list) /\ Len(arg_list) \in Nat /\ ArgsBefore(code, pc, Len(arg_list))
      /\ Len(Top.params) \in Nat /\ Waits(code, pc, Len(Top.params)) /\ pc \in Nat
      /\ Len(code) \in Nat /\ DOMAIN code = 1 .. Len(code)
  BY TopFacts
<1>2. Shaped(code) BY DEF IInv
<1>3. t \in DOMAIN code /\ code[t].op = "LABEL" /\ code[t].label = code[pc].label
  <2>1. \E k \in DOMAIN code : code[k].op = "LABEL" /\ code[k].label = code[pc].label
    BY <1>1, <1>2 DEF Shaped, Linked, Now
  <2> QED BY <2>1 DEF Target, Now
<1>4. Held(code, DOMAIN Top.env, DOMAIN Top.slot, t)
  BY <1>1, <1>2, <1>3, HeldJump DEF Now
<1>5. Len(arg_list) = 0 BY <1>1, <1>2, NoneQueued DEF Now
<1>6. Len(Top.params) = 0 BY <1>1, WaitsNone DEF Now
<1>7. ArgsBefore(code, t, 0) BY <1>2, <1>3, NoArgAtTarget
<1>8. Waits(code, t, 0) BY <1>1, <1>3, NoWait
<1>9. OnTop(Top)
  BY TopFacts DEF IInv, Stack, OnTop, Top
<1>10. pc' = t /\ code' = code BY DEF Goes
<1> QED BY <1>1, <1>3, <1>4, <1>5, <1>6, <1>7, <1>8, <1>9, <1>10, OnTopInv DEF IInv

(* The top frame with one field set. *)
LEMMA SetTop ==
  ASSUME IInv, pc # 0, NEW f,
         frames' = [frames EXCEPT ![Len(frames)] = f],
         f = [x \in Fields |-> f[x]], IsSeq(f.params),
         f.back = Top.back, f.dst = Top.dst, f.base = Top.base,
         DOMAIN Top.env \subseteq DOMAIN f.env, DOMAIN Top.slot \subseteq DOMAIN f.slot
  PROVE  OnTop(f)
<1>1. IsSeq(frames) /\ Len(frames) \in 1 .. Len(frames) BY TopFacts DEF IInv, Stack
<1>2. /\ IsSeq(frames') /\ Len(frames') = Len(frames)
      /\ \A k \in 1 .. Len(frames) : frames'[k] = IF k = Len(frames) THEN f ELSE frames[k]
  <2>1. Len(frames) \in Nat /\ DOMAIN frames = 1 .. Len(frames) BY <1>1, SeqFacts
  <2>2. \A k \in 1 .. Len(frames) : frames'[k] = IF k = Len(frames) THEN f ELSE frames[k]
    BY <2>1
  <2>3. frames' = [k \in 1 .. Len(frames) |-> frames'[k]] BY <2>1
  <2>4. IsSeq(frames') /\ Len(frames') = Len(frames) BY <2>1, <2>3, SegIsSeq
  <2> QED BY <2>2, <2>4
<1> QED BY <1>2 DEF OnTop

LEMMA SameTop ==
  ASSUME IInv, pc # 0, frames' = frames
  PROVE  OnTop(Top)
BY TopFacts DEF IInv, Stack, OnTop, Top

LEMMA PutDomain ==
  ASSUME NEW f, NEW x, NEW v
  PROVE  DOMAIN Put(f, x, v) = DOMAIN f \cup {x}
BY DEF Put

(* A top frame whose variables one value is put to. *)
LEMMA WritesTop ==
  ASSUME IInv, pc # 0, NEW x, NEW v, Writes(x, v)
  PROVE  \E f : /\ OnTop(f) /\ f.params = Top.params
                /\ DOMAIN f.env = DOMAIN Top.env \cup {x} /\ f.slot = Top.slot
<1> DEFINE f == [Top EXCEPT !.env = Put(@, x, v)]
<1>1. Top = [y \in Fields |-> Top[y]] /\ IsSeq(Top.params) BY TopFacts
<1>2. /\ f = [y \in Fields |-> f[y]] /\ f.env = Put(Top.env, x, v)
      /\ f.params = Top.params /\ f.slot = Top.slot
      /\ f.back = Top.back /\ f.dst = Top.dst /\ f.base = Top.base
  BY <1>1 DEF Fields
<1>3. frames' = [frames EXCEPT ![Len(frames)] = f] BY DEF Writes, Top
<1> HIDE DEF f
<1>4. DOMAIN f.env = DOMAIN Top.env \cup {x}
  <2>1. DOMAIN Put(Top.env, x, v) = DOMAIN Top.env \cup {x} BY PutDomain
  <2> QED BY <1>2, <2>1
<1>5. OnTop(f) BY <1>1, <1>2, <1>3, <1>4, SetTop
<1> QED BY <1>2, <1>4, <1>5

-----------------------------------------------------------------------------
(* One lemma for each action.                                              *)

(* The actions that write one operand, their own x. *)
LEMMA WritesInv ==
  ASSUME IInv, pc # 0, Straight, NEW v, Writes(Now.x, v), UNCHANGED <<arg_list, brk>>,
         Now.op \in Arithmetic \cup {"NORMAL", "RIGHT", "GET_ADDRESS", "READ"}
  PROVE  IInv'
<1>1. PICK f : /\ OnTop(f) /\ f.params = Top.params
               /\ DOMAIN f.env = DOMAIN Top.env \cup {Now.x} /\ f.slot = Top.slot
  BY WritesTop
<1>2. Now.op \notin {"GOTO", "RETURN", "CALL", "DEC", "ARG", "PARAM"} BY DEF Arithmetic
<1>3. Temps(Defines(Now)) \subseteq DOMAIN f.env BY <1>1 DEF Temps, Defines
<1>4. brk' \in Nat BY DEF IInv
<1> QED BY <1>1, <1>2, <1>3, <1>4, StraightInv

(* The actions that leave the frames alone. *)
LEMMA LeavesInv ==
  ASSUME IInv, pc # 0, Straight, UNCHANGED <<frames, arg_list, brk>>,
         Now.op \in {"LEFT", "CJP", "LABEL", "FUNCDEF", "WRITE"}
  PROVE  IInv'
<1>1. OnTop(Top) BY SameTop
<1>2. Defines(Now) = {} BY DEF Defines, Arithmetic
<1>3. Temps(Defines(Now)) = {} BY <1>2 DEF Temps
<1>4. Now.op \notin {"GOTO", "RETURN", "CALL", "DEC", "ARG", "PARAM"} OBVIOUS
<1>5. brk' \in Nat BY DEF IInv
<1> QED BY <1>1, <1>3, <1>4, <1>5, StraightInv

LEMMA AssignInv == ASSUME IInv, Assign PROVE IInv'
BY WritesInv DEF Assign, Executes

LEMMA StoreInv == ASSUME IInv, Store PROVE IInv'
BY LeavesInv DEF Store, Executes

LEMMA ArithInv == ASSUME IInv, Arith PROVE IInv'
BY WritesInv DEF Arith, Executes, Arithmetic

LEMMA BranchInv == ASSUME IInv, Branch PROVE IInv'
<1>1. pc # 0 /\ Now.op = "CJP" /\ UNCHANGED <<frames, arg_list, brk>>
  BY DEF Branch, Executes
<1>2. Straight \/ Goes(Target(Now.label)) BY DEF Branch, Straight, Goes
<1> QED BY <1>1, <1>2, LeavesInv, JumpInv

LEMMA GotoInv == ASSUME IInv, Goto PROVE IInv'
BY JumpInv DEF Goto, Executes

LEMMA PassInv == ASSUME IInv, Pass PROVE IInv'
BY LeavesInv DEF Pass, Executes

LEMMA ReadInv == ASSUME IInv, Read PROVE IInv'
BY WritesInv DEF Read, Executes

LEMMA WriteInv == ASSUME IInv, Write PROVE IInv'
BY LeavesInv DEF Write, Executes

LEMMA ArgInv == ASSUME IInv, Arg PROVE IInv'
<1>1. /\ pc # 0 /\ Now.op = "ARG" /\ Straight /\ UNCHANGED <<frames, brk>>
      /\ arg_list' = <<Value(Now.x)>> \o arg_list
  BY DEF Arg, Executes
<1>2. OnTop(Top) BY <1>1, SameTop
<1>3. Temps(Defines(Now)) = {} BY <1>1 DEF Temps, Defines, Arithmetic
<1>4. IsSeq(arg_list') /\ Len(arg_list') = Len(arg_list) + 1
  BY <1>1, TopFacts, ConsSeq
<1>5. brk' \in Nat BY <1>1 DEF IInv
<1> QED BY <1>1, <1>2, <1>3, <1>4, <1>5, StraightInv

LEMMA DecInv == ASSUME IInv, Dec PROVE IInv'
<1>1. pc # 0 /\ Now.op = "DEC" /\ Straight /\ UNCHANGED arg_list
  BY DEF Dec, Executes
<1>2. Temps(Defines(Now)) = {} BY <1>1 DEF Temps, Defines, Arithmetic
<1>3. CASE Now.x \in DOMAIN Top.slot
  <2>1. UNCHANGED <<frames, brk>> BY <1>3 DEF Dec
  <2>2. OnTop(Top) BY <1>1, <2>1, SameTop
  <2>3. brk' \in Nat BY <2>1 DEF IInv
  <2> QED BY <1>1, <1>2, <1>3, <2>2, <2>3, StraightInv
<1>4. CASE Now.x \notin DOMAIN Top.slot
  <2> DEFINE f == [Top EXCEPT !.slot = Put(@, Now.x, brk)]
  <2>1. frames' = [frames EXCEPT ![Len(frames)] = f] /\ brk' = brk + Now.size
    BY <1>4 DEF Dec, Top
  <2>2. Top = [y \in Fields |-> Top[y]] /\ IsSeq(Top.params) BY <1>1, TopFacts
  <2>3. /\ f = [y \in Fields |-> f[y]] /\ f.slot = Put(Top.slot, Now.x, brk)
        /\ f.params = Top.params /\ f.env = Top.env
        /\ f.back = Top.back /\ f.dst = Top.dst /\ f.base = Top.base
    BY <2>2 DEF Fields
  <2> HIDE DEF f
  <2>4. DOMAIN f.slot = DOMAIN Top.slot \cup {Now.x}
    <3>1. DOMAIN Put(Top.slot, Now.x, brk) = DOMAIN Top.slot \cup {Now.x} BY PutDomain
    <3> QED BY <2>3, <3>1
  <2>5. OnTop(f) BY <1>1, <2>1, <2>2, <2>3, <2>4, SetTop
  <2>6. brk' \in Nat
    <3>1. pc \in DOMAIN code /\ Shaped(code) BY <1>1, TopFacts DEF IInv
    <3>2. Now.size \in Nat BY <1>1, <3>1 DEF Shaped, Now
    <3> QED BY <2>1, <3>2 DEF IInv
  <2> QED BY <1>1, <1>2, <2>3, <2>4, <2>5, <2>6, StraightInv
<1> QED BY <1>3, <1>4

LEMMA ParamInv == ASSUME IInv, Param PROVE IInv'
<1> DEFINE f == [Top EXCEPT !.env = Put(@, Now.x, Head(Top.params)), !.params = Tail(@)]
<1>1. /\ pc # 0 /\ Now.op = "PARAM" /\ Straight /\ UNCHANGED <<arg_list, brk>>
      /\ frames' = [frames EXCEPT ![Len(frames)] = f]
  BY DEF Param, Executes, Top
<1>2. /\ Top = [y \in Fields |-> Top[y]] /\ IsSeq(Top.params) /\ Len(Top.params) \in Nat
      /\ pc \in Nat /\ Waits(code, pc, Len(Top.params))
  BY <1>1, TopFacts
<1>3. Top.params # <<>> BY <1>1, <1>2, WaitsParam, EmptyIsSeq DEF Now
<1>4. IsSeq(Tail(Top.params)) /\ Len(Tail(Top.params)) = Len(Top.params) - 1
  BY <1>2, <1>3, TailSeq
<1>5. /\ f = [y \in Fields |-> f[y]] /\ f.env = Put(Top.env, Now.x, Head(Top.params))
      /\ f.params = Tail(Top.params) /\ f.slot = Top.slot
      /\ f.back = Top.back /\ f.dst = Top.dst /\ f.base = Top.base
  BY <1>2 DEF Fields
<1> HIDE DEF f
<1>6. DOMAIN f.env = DOMAIN Top.env \cup {Now.x}
  <2>1. DOMAIN Put(Top.env, Now.x, Head(Top.params)) = DOMAIN Top.env \cup {Now.x}
    BY PutDomain
  <2> QED BY <1>5, <2>1
<1>7. OnTop(f) BY <1>1, <1>4, <1>5, <1>6, SetTop
<1>8. Temps(Defines(Now)) \subseteq DOMAIN f.env BY <1>6 DEF Temps, Defines
<1>9. brk' \in Nat BY <1>1 DEF IInv
<1> QED BY <1>1, <1>4, <1>5, <1>7, <1>8, <1>9, StraightInv

(* What a call passes is what the function that it enters takes. *)
LEMMA CallMatches ==
  ASSUME IInv, pc # 0, Now.op = "CALL"
  PROVE  /\ Entry(Now.name) \in DOMAIN code /\ code[Entry(Now.name)].op = "FUNCDEF"
         /\ Waits(code, Entry(Now.name), Len(arg_list))
<1> DEFINE e == Entry(Now.name)
<1>1. /\ pc \in DOMAIN code /\ pc \in Nat /\ Len(arg_list) \in Nat
      /\ ArgsBefore(code, pc, Len(arg_list)) /\ Linked(code)
  BY TopFacts DEF IInv, Shaped
<1>2. e \in DOMAIN code /\ code[e].op = "FUNCDEF" /\ code[e].name = Now.name
  BY <1>1 DEF Linked, Entry, Now
<1>3. PICK k \in 0 .. pc :
         /\ ArgsBefore(code, pc, k)
         /\ \A d \in DOMAIN code :
               code[d].op = "FUNCDEF" /\ code[d].name = code[pc].name => ParamsFrom(code, d + 1, k)
  BY <1>1 DEF Linked, Now
<1>4. k = Len(arg_list)
  <2>1. k \in Nat BY <1>1
  <2> QED BY <1>1, <1>3, <2>1, ArgsUnique
<1>5. ParamsFrom(code, e + 1, Len(arg_list)) BY <1>2, <1>3, <1>4 DEF Now
<1> QED BY <1>2, <1>5 DEF Waits

LEMMA OneBack == ASSUME NEW p \in Nat, NEW b, b = p + 1 PROVE b - 1 = p
OBVIOUS

LEMMA CallInv == ASSUME IInv, Call PROVE IInv'
<1> DEFINE n == Len(frames)
           e == Entry(Now.name)
           F == Frame(arg_list, pc + 1, Now.x)
<1>1. /\ pc # 0 /\ Now.op = "CALL" /\ frames' = Append(frames, F)
      /\ arg_list' = <<>> /\ pc' = e /\ code' = code /\ brk' = brk
  BY DEF Call, Executes, Goes
<1>2. /\ n \in Nat /\ n >= 1 /\ Len(code) \in Nat /\ DOMAIN code = 1 .. Len(code)
      /\ pc \in DOMAIN code /\ pc \in Nat /\ Held(code, DOMAIN Top.env, DOMAIN Top.slot, pc)
      /\ IsSeq(arg_list) /\ Waits(code, pc, Len(Top.params))
      /\ IsSeq(Top.params) /\ Len(Top.params) \in Nat
  BY <1>1, TopFacts
<1>3. Shaped(code) /\ Stack /\ Contents /\ brk \in Nat BY DEF IInv
<1>4. e \in DOMAIN code /\ code[e].op = "FUNCDEF" /\ Waits(code, e, Len(arg_list))
  BY <1>1, CallMatches
<1>5. /\ IsSeq(frames') /\ Len(frames') = n + 1 /\ frames'[n + 1] = F
      /\ \A k \in 1 .. n : frames'[k] = frames[k]
  BY <1>1, <1>3, AppendSeq DEF Stack
<1>6. pc + 1 \in 2 .. Len(code) BY <1>1, <1>2, <1>3, NextLine DEF Now
<1>7. Top.params = <<>>
  <2>1. Len(Top.params) = 0 BY <1>1, <1>2, WaitsNone DEF Now
  <2> QED BY <1>2, <2>1, SeqFacts
<1>8. /\ F = [x \in Fields |-> F[x]] /\ F.base = brk /\ F.params = arg_list
      /\ F.back = pc + 1 /\ F.dst = Now.x
  BY DEF Frame, Fields
<1> HIDE DEF F
<1>9. Top' = F BY <1>2, <1>5 DEF Top
<1>10. Stack'
  <2>1. ASSUME NEW k \in 1 .. n + 1
        PROVE  /\ frames'[k] = [x \in Fields |-> frames'[k][x]]
               /\ frames'[k].base \in Nat /\ IsSeq(frames'[k].params)
               /\ IF k = 1 THEN frames'[k].back = 0 ELSE Called(k)'
    <3>1. CASE k = n + 1
      <4>1. n \in 1 .. n /\ k - 1 = n /\ k # 1 BY <1>2, <3>1
      <4>2. frames'[k - 1].params = <<>> BY <1>5, <1>7, <4>1 DEF Top
      <4>3. pc + 1 - 1 = pc BY <1>2
      <4>4. frames'[k].back = pc + 1 /\ frames'[k].dst = Now.x
        BY <1>5, <1>8, <3>1
      <4>5. Called(k)'
        <5>1. frames'[k].back - 1 = pc BY <1>2, <4>4, OneBack
        <5>2. code'[frames'[k].back - 1] = Now BY <1>1, <5>1 DEF Now
        <5> QED BY <1>1, <1>6, <4>2, <4>4, <5>2 DEF Called
      <4> QED BY <1>2, <1>3, <1>5, <1>8, <3>1, <4>1, <4>5
    <3>2. CASE k \in 1 .. n
      <4>1. /\ frames[k] = [x \in Fields |-> frames[k][x]]
            /\ frames[k].base \in Nat /\ IsSeq(frames[k].params)
            /\ IF k = 1 THEN frames[k].back = 0 ELSE Called(k)
        BY <1>3, <3>2 DEF Stack
      <4>2. frames'[k] = frames[k] /\ (k # 1 => frames'[k - 1] = frames[k - 1])
        BY <1>2, <1>5, <3>2
      <4> QED BY <1>1, <4>1, <4>2 DEF Called
    <3> QED BY <1>2, <2>1, <3>1, <3>2
  <2> QED BY <1>5, <2>1 DEF Stack
<1>11. Contents'
  <2>1. ASSUME NEW k \in 1 .. n + 1
        PROVE  Held(code, DOMAIN frames'[k].env, DOMAIN frames'[k].slot, Place(k)')
    <3>1. CASE k = n + 1
      <4>1. Place(k)' = e BY <1>1, <1>5, <3>1 DEF Place
      <4> QED BY <1>4, <4>1, HeldEntry
    <3>2. CASE k = n
      <4>1. Place(k)' = pc
        BY <1>2, <1>5, <1>8, <3>2 DEF Place
      <4>2. frames'[k] = Top BY <1>2, <1>5, <3>2 DEF Top
      <4> QED BY <1>2, <4>1, <4>2
    <3>3. CASE k \in 1 .. n - 1
      <4>1. k + 1 \in 1 .. n /\ k \in 1 .. n /\ k # n /\ k # n + 1 BY <1>2, <3>3
      <4>2. Place(k)' = Place(k) BY <1>5, <4>1 DEF Place
      <4> QED BY <1>3, <1>5, <4>1, <4>2 DEF Contents
    <3> QED BY <1>2, <2>1, <3>1, <3>2, <3>3
  <2> QED BY <1>1, <1>5, <2>1 DEF Contents
<1>12. Arguments'
  <2>1. IsSeq(<<>>) /\ Len(<<>>) = 0 BY EmptyIsSeq
  <2>2. ArgsBefore(code, e, 0) BY <1>3, <1>4, NoArgAtTarget
  <2> QED BY <1>1, <1>4, <1>8, <1>9, <2>1, <2>2 DEF Arguments
<1>13. frames' # <<>> BY <1>2, <1>5, SeqFacts
<1>14. pc' # 0 /\ pc' \in 0 .. Len(code) BY <1>1, <1>2, <1>4
<1> QED BY <1>1, <1>3, <1>10, <1>11, <1>12, <1>13, <1>14 DEF IInv

LEMMA Pred ==
  ASSUME NEW n \in Nat, n >= 1, n # 1
  PROVE  n - 1 \in 1 .. n /\ n - 1 \in 1 .. n - 1 /\ n > 0
OBVIOUS

LEMMA ReturnInv == ASSUME IInv, Return PROVE IInv'
<1> DEFINE n == Len(frames)
<1>1. /\ pc # 0 /\ Now.op = "RETURN" /\ brk' = Top.base /\ code' = code
      /\ arg_list' = arg_list
  BY DEF Return, Executes, Goes
<1>2. /\ n \in Nat /\ n >= 1 /\ n \in 1 .. n /\ Len(code) \in Nat /\ DOMAIN code = 1 .. Len(code)
      /\ pc \in DOMAIN code /\ pc \in Nat /\ Top.base \in Nat
      /\ IsSeq(arg_list) /\ Len(arg_list) \in Nat /\ ArgsBefore(code, pc, Len(arg_list))
  BY <1>1, TopFacts
<1>3. Shaped(code) /\ Stack /\ Contents BY DEF IInv
<1>4. CASE n = 1
  <2>1. pc' = 0 /\ frames' = <<>> BY <1>4 DEF Return, Goes
  <2>2. IsSeq(frames') /\ Len(frames') = 0 BY <2>1, EmptyIsSeq
  <2>3. Stack' /\ Contents' /\ Arguments'
    BY <2>1, <2>2 DEF Stack, Contents, Arguments
  <2> QED BY <1>1, <1>2, <1>3, <2>1, <2>3 DEF IInv
<1>5. CASE n # 1
  <2> DEFINE s == SubSeq(frames, 1, n - 1)
             g == [s[n - 1] EXCEPT !.env = Put(@, Top.dst, Value(Now.x))]
             back == Top.back
  <2>1. n - 1 \in 1 .. n /\ n - 1 \in 1 .. n - 1 /\ n > 0
    <3>1. n \in Nat /\ n >= 1 BY <1>2
    <3> QED BY <1>5, <3>1, Pred
  <2>2. /\ IsSeq(s) /\ Len(s) = n - 1 /\ \A k \in 1 .. n - 1 : s[k] = frames[k]
    BY <1>3, <2>1, ChopSeq DEF Stack
  <2>3. pc' = back /\ frames' = [s EXCEPT ![n - 1] = g]
    BY <1>5 DEF Return, Goes
  <2>4. Len(s) \in Nat /\ DOMAIN s = 1 .. n - 1 BY <2>2, SeqFacts
  <2> HIDE DEF s
  <2>5. Called(n) BY <1>2, <1>3, <1>5 DEF Stack
  <2>6. /\ back \in 2 .. Len(code) /\ code[back - 1].op = "CALL"
        /\ Top.dst = code[back - 1].x /\ frames[n - 1].params = <<>>
    BY <2>5 DEF Called, Top
  <2>7. /\ frames[n - 1] = [x \in Fields |-> frames[n - 1][x]]
        /\ frames[n - 1].base \in Nat
        /\ IF n - 1 = 1 THEN frames[n - 1].back = 0 ELSE Called(n - 1)
    BY <1>3, <2>1 DEF Stack
  <2>8. s[n - 1] = frames[n - 1] BY <2>1, <2>2
  <2>9. /\ g = [x \in Fields |-> g[x]] /\ g.base = frames[n - 1].base
        /\ g.params = <<>> /\ g.back = frames[n - 1].back /\ g.dst = frames[n - 1].dst
        /\ g.slot = frames[n - 1].slot
        /\ g.env = Put(frames[n - 1].env, Top.dst, Value(Now.x))
    BY <2>6, <2>7, <2>8 DEF Fields
  <2> HIDE DEF g
  <2>10. DOMAIN g.env = DOMAIN frames[n - 1].env \cup {Top.dst}
    <3>1. DOMAIN Put(frames[n - 1].env, Top.dst, Value(Now.x))
            = DOMAIN frames[n - 1].env \cup {Top.dst}
      BY PutDomain
    <3> QED BY <2>9, <3>1
  <2>11. /\ IsSeq(frames') /\ Len(frames') = n - 1
         /\ \A k \in 1 .. n - 1 : frames'[k] = IF k = n - 1 THEN g ELSE frames[k]
    <3>1. \A k \in 1 .. n - 1 : frames'[k] = IF k = n - 1 THEN g ELSE frames[k]
      BY <2>2, <2>3, <2>4
    <3>2. frames' = [k \in 1 .. n - 1 |-> frames'[k]] BY <2>3, <2>4
    <3>3. n - 1 \in Nat BY <1>2
    <3> QED BY <3>1, <3>2, <3>3, SegIsSeq
  <2>12. Stack'
    <3>1. ASSUME NEW k \in 1 .. n - 1
          PROVE  /\ frames'[k] = [x \in Fields |-> frames'[k][x]]
                 /\ frames'[k].base \in Nat /\ IsSeq(frames'[k].params)
                 /\ IF k = 1 THEN frames'[k].back = 0 ELSE Called(k)'
      <4>1. /\ frames[k] = [x \in Fields |-> frames[k][x]]
            /\ frames[k].base \in Nat /\ IsSeq(frames[k].params)
            /\ IF k = 1 THEN frames[k].back = 0 ELSE Called(k)
        <5>1. n \in Nat BY <1>2
        <5>2. k \in 1 .. n BY <3>1, <5>1
        <5> QED BY <1>3, <5>2 DEF Stack
      <4>2. frames'[k].back = frames[k].back /\ frames'[k].dst = frames[k].dst
        BY <2>9, <2>11
      <4>3. /\ frames'[k] = [x \in Fields |-> frames'[k][x]]
            /\ frames'[k].base \in Nat /\ IsSeq(frames'[k].params)
        BY <2>7, <2>9, <2>11, <4>1, EmptyIsSeq
      <4>4. k # 1 => frames'[k - 1] = frames[k - 1]
        BY <1>2, <2>11
      <4> QED BY <1>1, <4>1, <4>2, <4>3, <4>4 DEF Called
    <3> QED BY <2>11, <3>1 DEF Stack
  <2>13. Contents'
    <3>1. ASSUME NEW k \in 1 .. n - 1
          PROVE  Held(code, DOMAIN frames'[k].env, DOMAIN frames'[k].slot, Place(k)')
      <4>1. CASE k = n - 1
        <5>1. Place(k)' = back BY <2>3, <2>11, <4>1 DEF Place
        <5>2. Place(k) = back - 1 BY <1>2, <4>1 DEF Place, Top
        <5>3. Held(code, DOMAIN frames[k].env, DOMAIN frames[k].slot, back - 1)
          BY <1>3, <2>1, <4>1, <5>2 DEF Contents
        <5>4. back - 1 \in DOMAIN code /\ back - 1 + 1 \in DOMAIN code /\ back - 1 + 1 = back
          BY <1>2, <2>6
        <5>5. Temps(Defines(code[back - 1])) \subseteq DOMAIN g.env
          BY <2>6, <2>10 DEF Temps, Defines
        <5>6. Held(code, DOMAIN g.env, DOMAIN g.slot, back - 1 + 1)
          BY <1>3, <2>6, <2>9, <2>10, <4>1, <5>3, <5>4, <5>5, HeldNext
        <5> QED BY <2>1, <2>11, <4>1, <5>1, <5>4, <5>6
      <4>2. CASE k # n - 1
        <5>1. k \in 1 .. n /\ k + 1 \in 1 .. n - 1 /\ k # n BY <1>2, <3>1, <4>2
        <5>2. frames'[k] = frames[k] /\ frames'[k + 1].back = frames[k + 1].back
          BY <2>9, <2>11, <4>2, <5>1
        <5>3. Place(k)' = Place(k) BY <2>11, <4>2, <5>1, <5>2 DEF Place
        <5> QED BY <1>3, <5>1, <5>2, <5>3 DEF Contents
      <4> QED BY <4>1, <4>2
    <3> QED BY <1>1, <2>11, <3>1 DEF Contents
  <2>14. Arguments'
    <3>1. Len(arg_list) = 0 BY <1>1, <1>2, <1>3, NoneQueued DEF Now
    <3>2. ArgsBefore(code, back, 0) BY <2>6, NoArgsBefore
    <3>3. back - 1 \in DOMAIN code /\ back - 1 + 1 = back BY <1>2, <2>6
    <3>4. code[back].op \notin {"PARAM", "FUNCDEF"}
      BY <1>3, <2>6, <3>3, NextLine
    <3>5. Waits(code, back, 0) BY <1>2, <2>6, <3>4, NoWait
    <3>6. Top'.params = <<>> /\ Len(<<>>) = 0 BY <2>1, <2>9, <2>11, EmptyIsSeq DEF Top
    <3> QED BY <1>1, <1>2, <2>3, <3>1, <3>2, <3>5, <3>6 DEF Arguments
  <2>15. frames' # <<>> BY <2>1, <2>11, SeqFacts
  <2>16. pc' # 0 /\ pc' \in 0 .. Len(code) BY <1>2, <2>3, <2>6
  <2> QED BY <1>1, <1>2, <1>3, <2>12, <2>13, <2>14, <2>15, <2>16 DEF IInv
<1> QED BY <1>4, <1>5

-----------------------------------------------------------------------------
(* The invariant.                                                          *)

LEMMA InitInv == ASSUME Init PROVE IInv
<1> DEFINE e == Entry("main")
<1>1. Shaped(code) /\ pc = e /\ arg_list = <<>> /\ brk = 0 BY DEF Init, Start
<1>2. Len(code) \in Nat /\ DOMAIN code = 1 .. Len(code) /\ Linked(code) BY <1>1 DEF Shaped
<1>3. e \in DOMAIN code /\ code[e].op = "FUNCDEF" /\ code[e].name = "main"
  BY <1>2 DEF Linked, Entry
<1> DEFINE F == [env |-> <<>>, slot |-> <<>>, params |-> <<>>,
                 back |-> 0, dst |-> NULL, base |-> 0]
<1>4. frames = <<F>> BY DEF Init, Start
<1>5. /\ F = [x \in Fields |-> F[x]] /\ F.params = <<>> /\ F.back = 0 /\ F.base = 0
  BY DEF Fields
<1> HIDE DEF F
<1>6. IsSeq(frames) /\ Len(frames) = 1 /\ frames[1] = F BY <1>4, OneIsSeq
<1>7. Stack BY <1>5, <1>6, EmptyIsSeq DEF Stack
<1>8. Contents
  <2>1. ASSUME NEW k \in 1 .. Len(frames)
        PROVE  Held(code, DOMAIN frames[k].env, DOMAIN frames[k].slot, Place(k))
    <3>1. k = Len(frames) BY <1>6, <2>1
    <3>2. Place(k) = e BY <1>1, <3>1 DEF Place
    <3> QED BY <1>3, <3>2, HeldEntry
  <2> QED BY <2>1 DEF Contents
<1>9. Arguments
  <2>1. ArgsBefore(code, e, 0) BY <1>1, <1>3, NoArgAtTarget
  <2>2. Waits(code, e, 0) BY <1>2, <1>3 DEF Linked, Waits
  <2>3. Top.params = <<>> BY <1>5, <1>6 DEF Top
  <2> QED BY <1>1, <2>1, <2>2, <2>3, EmptyIsSeq DEF Arguments
<1>10. frames # <<>> BY <1>6, SeqFacts
<1>11. pc # 0 /\ pc \in 0 .. Len(code) BY <1>1, <1>2, <1>3
<1> QED BY <1>1, <1>7, <1>8, <1>9, <1>10, <1>11 DEF IInv

LEMMA NextInv == ASSUME IInv, [Next]_vars PROVE IInv'
<1>1. CASE Next
  BY <1>1, AssignInv, StoreInv, ArithInv, BranchInv, GotoInv, PassInv, DecInv, ArgInv,
     CallInv, ParamInv, ReturnInv, ReadInv, WriteInv DEF Next
<1>2. CASE UNCHANGED vars
  <2>1. code' = code /\ pc' = pc /\ frames' = frames /\ arg_list' = arg_list /\ brk' = brk
    BY <1>2 DEF vars
  <2> QED BY <2>1 DEF IInv, Stack, Called, Contents, Place, Arguments, Top
<1> QED BY <1>1, <1>2

LEMMA Invariance == Spec => []IInv
<1>1. Init => IInv BY InitInv
<1>2. IInv /\ [Next]_vars => IInv' BY NextInv
<1> QED BY <1>1, <1>2, PTL DEF Spec

LEMMA RunTyped == ASSUME IInv PROVE TypeOK
<1>1. \A i \in DOMAIN frames : frames[i].back \in 0 .. Len(code)
  <2>1. ASSUME NEW i \in DOMAIN frames PROVE frames[i].back \in 0 .. Len(code)
    <3>1. i \in 1 .. Len(frames) BY SeqFacts DEF IInv, Stack
    <3>2. IF i = 1 THEN frames[i].back = 0 ELSE Called(i) BY <3>1 DEF IInv, Stack
    <3>3. Len(code) \in Nat BY DEF IInv, Shaped
    <3> QED BY <3>2, <3>3 DEF Called
  <2> QED BY <2>1
<1>2. ArgumentsArrive
  <2>1. SUFFICES ASSUME pc # 0
                 PROVE  /\ Now.op = "PARAM" => Top.params # <<>>
                        /\ Now.op \notin {"PARAM", "FUNCDEF"} => Top.params = <<>>
                        /\ Now.op \notin {"ARG", "CALL"} => arg_list = <<>>
    BY DEF ArgumentsArrive
  <2>2. /\ pc \in DOMAIN code /\ pc \in Nat
        /\ IsSeq(Top.params) /\ Len(Top.params) \in Nat
        /\ IsSeq(arg_list) /\ Len(arg_list) \in Nat
        /\ ArgsBefore(code, pc, Len(arg_list)) /\ Waits(code, pc, Len(Top.params))
    BY <2>1, TopFacts
  <2>3. Now.op = "PARAM" => Len(Top.params) > 0 BY <2>2, WaitsParam DEF Now
  <2>4. Now.op \notin {"PARAM", "FUNCDEF"} => Len(Top.params) = 0
    BY <2>2, WaitsNone DEF Now
  <2>5. Now.op \notin {"ARG", "CALL"} => Len(arg_list) = 0
    BY <2>2, NoneQueued DEF Now, IInv
  <2>6. (Top.params = <<>>) = (Len(Top.params) = 0) /\ (arg_list = <<>>) = (Len(arg_list) = 0)
    BY <2>2, SeqFacts
  <2> QED BY <2>2, <2>3, <2>4, <2>5, <2>6
<1> QED BY <1>1, <1>2 DEF IInv, TypeOK

(* The run stays inside the code and its frames; and each call finds, at   *)
(* its PARAMs, exactly the arguments that the ARGs before its CALL queued, *)
(* whatever the arguments' own calls did in between (PrintCodes, cases     *)
(* ARG, CALL and PARAM).                                                   *)
THEOREM Typing == Spec => []TypeOK
<1>1. IInv => TypeOK BY RunTyped
<1> QED BY <1>1, Invariance, PTL

(* Lines that dominate in the text have run in this very call: recursion,  *)
(* loops and jumps notwithstanding, a temporary is written before it is    *)
(* read, and an array is placed before its address is taken.               *)
THEOREM Definedness == Spec => []TempsDefined
<1>1. IInv => TempsDefined
  <2> SUFFICES ASSUME IInv, pc # 0
               PROVE  /\ Temps(Reads(Now)) \subseteq DOMAIN Top.env
                      /\ Now.op = "GET_ADDRESS" => Now.y \in DOMAIN Top.slot
    BY DEF TempsDefined
  <2>1. pc \in DOMAIN code /\ Held(code, DOMAIN Top.env, DOMAIN Top.slot, pc) BY TopFacts
  <2> QED BY <2>1, HeldNeeds DEF IInv, Now
<1> QED BY <1>1, Invariance, PTL

(* When main has returned, no argument is left that nobody took: the half  *)
(* of Halts that does not say that main returns.                           *)
Taken == pc = 0 => arg_list = <<>>

THEOREM ArgumentsTaken == Spec => []Taken
<1>1. Init /\ IInv => Taken BY DEF Init, Start, Taken
<1>2. ASSUME IInv, Next PROVE Taken'
  <2>1. pc # 0 => pc \in Nat BY <1>2, TopFacts
  <2>2. CASE Arg BY <2>1, <2>2 DEF Arg, Executes, Straight, Goes, Taken
  <2>3. CASE Call BY <2>3 DEF Call, Taken
  <2>4. CASE pc # 0 /\ Now.op \notin {"ARG", "CALL"} /\ arg_list' = arg_list
    <3>1. arg_list = <<>> BY <1>2, <2>4, RunTyped DEF TypeOK, ArgumentsArrive
    <3> QED BY <2>4, <3>1 DEF Taken
  <2> QED
    BY <1>2, <2>2, <2>3, <2>4 DEF Next, Executes, Assign, Store, Arith, Branch, Goto,
       Pass, Dec, Param, Return, Read, Write
<1>3. IInv /\ Taken /\ [Next]_vars => Taken'
  <2>1. UNCHANGED vars /\ Taken => Taken' BY DEF vars, Taken
  <2> QED BY <1>2, <2>1
<1> QED BY <1>1, <1>3, Invariance, PTL DEF Spec
=============================================================================
