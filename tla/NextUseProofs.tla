---------------------------- MODULE NextUseProofs ---------------------------
(***************************************************************************)
(* Proofs about NextUse, for every program and every set of operands.      *)
(***************************************************************************)
EXTENDS NextUse, TLAPS

(* The notes that the backward loop has made for the lines from i on, and  *)
(* those the forward loop has yet to use.                                  *)
Noted(first, last, i) ==
    \A k \in i .. last : \A x \in Ops(code[k]) :
        NextRead(x, first, last, k, note[k][x])

Current(first, last, j) ==
    \A x \in Operand : NextRead(x, first, last, j, nxt_code[x])

Clean == \A x \in Operand : nxt_code[x] = -1

Cursors ==
    /\ phase = "judge"  => /\ block_num <= 2 * (codes - 1)
                           /\ \A x \in Operand : cur_block[x] <= block_num
    /\ phase = "divide" => /\ codes \in DOMAIN code /\ cur_code \in DOMAIN code
                           /\ cur_code = codes + num
    /\ phase = "mark"   => /\ codes \in DOMAIN code /\ codes + num \in DOMAIN code
                           /\ cur_code \in codes - 1 .. codes + num
    /\ phase = "print"  => /\ First \in DOMAIN code /\ cur_code \in DOMAIN code
                           /\ codes \in First .. cur_code + 1
    /\ phase = "done"   => codes = Len(code) + 1

IInv ==
    /\ TypeOK
    /\ Cursors
    /\ phase \in {"judge", "divide", "done"} => Clean
    /\ phase = "mark"  => /\ Current(codes, codes + num, cur_code)
                          /\ Noted(codes, codes + num, cur_code + 1)
    /\ phase = "print" => /\ Current(First, cur_code, codes - 1)
                          /\ Noted(First, cur_code, codes)

-----------------------------------------------------------------------------
(* How the next read of an operand changes from one line to the next.      *)

LEMMA ReadTouches ==
  ASSUME code \in Seq(Instr), NEW k \in DOMAIN code, NEW x, Read(x, k)
  PROVE  Touches(x, k)
<1>1. code[k] \in Instr OBVIOUS
<1> QED BY <1>1 DEF Instr, Read, Touches, Ops

LEMMA NoneAtEnd ==
  ASSUME NEW x, NEW first \in Int, NEW last \in Int
  PROVE  /\ NextRead(x, first, last, last, -1)
         /\ \A p \in Int : NextRead(x, first, last, last, p) => p = -1
BY DEF NextRead

(* Backwards over line i: scan_mark(). *)
LEMMA Backward ==
  ASSUME code \in Seq(Instr), NEW x, NEW first \in Nat, NEW last \in Nat,
         NEW i \in first .. last, first .. last \subseteq DOMAIN code,
         NEW p \in Int, NextRead(x, first, last, i, p)
  PROVE  /\ Read(x, i) => NextRead(x, first, last, i - 1, i - first)
         /\ Touches(x, i) /\ ~ Read(x, i) => NextRead(x, first, last, i - 1, -1)
         /\ ~ Touches(x, i) => NextRead(x, first, last, i - 1, p)
<1>0. i \in DOMAIN code /\ i \in Int OBVIOUS
<1>1. ASSUME Read(x, i) PROVE NextRead(x, first, last, i - 1, i - first)
  <2>1. After(x, i - 1, i)
    <3>1. \A m \in DOMAIN code : ~ (i - 1 < m /\ m < i)
      <4>1. \A m \in DOMAIN code : m \in Int OBVIOUS
      <4> QED BY <1>0, <4>1
    <3> QED BY <3>1 DEF After
  <2>2. i - first # -1 /\ first + (i - first) = i /\ i \in i - 1 + 1 .. last
    OBVIOUS
  <2> QED BY <1>1, <2>1, <2>2 DEF NextRead
<1>2. ASSUME Touches(x, i), ~ Read(x, i) PROVE NextRead(x, first, last, i - 1, -1)
  <2> SUFFICES ASSUME NEW k \in i - 1 + 1 .. last, After(x, i - 1, k)
               PROVE  ~ Read(x, k)
    BY DEF NextRead
  <2>1. ~ (i < k)
    BY <1>0, <1>2 DEF After
  <2>2. k = i BY <1>0, <2>1
  <2> QED BY <1>2, <2>2
<1>3. ASSUME ~ Touches(x, i) PROVE NextRead(x, first, last, i - 1, p)
  <2>1. ~ Read(x, i) BY <1>0, <1>3, ReadTouches
  <2>2. \A k \in Int : After(x, i, k) => After(x, i - 1, k)
    <3> SUFFICES ASSUME NEW k \in Int, After(x, i, k), NEW m \in DOMAIN code,
                        i - 1 < m, m < k
                 PROVE  ~ Touches(x, m)
      BY DEF After
    <3>1. m \in Int OBVIOUS
    <3>2. CASE m = i BY <1>3, <3>2
    <3>3. CASE i < m BY <3>3 DEF After
    <3> QED BY <1>0, <3>1, <3>2, <3>3
  <2>3. CASE p = -1
    <3> SUFFICES ASSUME NEW k \in i - 1 + 1 .. last, After(x, i - 1, k)
                 PROVE  ~ Read(x, k)
      BY <2>3 DEF NextRead
    <3>1. CASE k = i BY <2>1, <3>1
    <3>2. CASE k # i
      <4>1. k \in i + 1 .. last BY <3>2
      <4>2. After(x, i, k) BY DEF After
      <4> QED BY <2>3, <4>1, <4>2 DEF NextRead
    <3> QED BY <3>1, <3>2
  <2>4. CASE p # -1
    BY <2>2, <2>4 DEF NextRead
  <2> QED BY <2>3, <2>4
<1> QED BY <1>1, <1>2, <1>3

(* Forwards over line i, which does not mention x: PrintCodes(). *)
LEMMA Forward ==
  ASSUME code \in Seq(Instr), NEW x, NEW first \in Nat, NEW last \in Nat,
         NEW i \in first .. last, first .. last \subseteq DOMAIN code,
         NEW p \in Int, NextRead(x, first, last, i - 1, p), ~ Touches(x, i)
  PROVE  NextRead(x, first, last, i, p)
<1>0. i \in DOMAIN code /\ i \in Int OBVIOUS
<1>1. \A k \in Int : After(x, i, k) <=> After(x, i - 1, k)
  <2> SUFFICES ASSUME NEW k \in Int, NEW m \in DOMAIN code
               PROVE  i - 1 < m /\ Touches(x, m) <=> i < m /\ Touches(x, m)
    BY DEF After
  <2>1. m \in Int OBVIOUS
  <2>2. i - 1 < m <=> i < m \/ m = i BY <1>0, <2>1
  <2> QED BY <2>2, <1>0
<1>2. ~ Read(x, i) BY <1>0, ReadTouches
<1>3. CASE p = -1
  BY <1>1, <1>3 DEF NextRead
<1>4. CASE p # -1
  <2>1. first + p \in i - 1 + 1 .. last /\ Read(x, first + p) /\ After(x, i - 1, first + p)
    BY <1>4 DEF NextRead
  <2>2. first + p # i BY <1>2, <2>1
  <2>3. first + p \in i + 1 .. last BY <2>1, <2>2
  <2> QED BY <1>1, <1>4, <2>1, <2>3 DEF NextRead
<1> QED BY <1>3, <1>4

-----------------------------------------------------------------------------
(* Each step keeps the invariant.                                          *)

LEMMA InitInv == Init => IInv
<1> SUFFICES ASSUME Init PROVE IInv OBVIOUS
<1>1. PICK n \in 0 .. MaxLen : code \in [1 .. n -> Instr]
  BY DEF Init
<1>2. code \in Seq(Instr) /\ Len(code) = n /\ n \in Nat
  BY <1>1, LengthBound
<1>3. TypeOK
  BY <1>2, LengthBound DEF Init, TypeOK
<1>4. Cursors /\ Clean
  BY DEF Init, Cursors, Clean
<1> QED BY <1>3, <1>4 DEF IInv, Init

LEMMA JudgeInv == ASSUME IInv, Judge PROVE IInv'
<1> DEFINE c == code[codes]
           b == IF Starts(c) THEN block_num + 1 ELSE block_num
<1>1. /\ codes \in 1 .. Len(code) /\ Len(code) \in Nat
      /\ block_num \in Nat /\ block_num <= 2 * (codes - 1)
      /\ cur_block \in [Operand -> -1 .. 2 * Len(code)]
      /\ \A x \in Operand : cur_block[x] <= block_num
      /\ Clean
  BY DEF IInv, Judge, Cursors, TypeOK
<1>2. /\ phase = "judge" /\ codes' = codes + 1
      /\ cur_block' = [x \in Operand |-> IF x \in Ops(c) THEN b ELSE cur_block[x]]
      /\ block_num' \in {b, b + 1} /\ (Ends(c) \/ block_num' = b)
      /\ multi_block' \subseteq multi_block \cup Ops(c)
      /\ UNCHANGED <<code, phase, cur_code, num, nxt_code, note>>
  BY DEF Judge
<1>3. b \in {block_num, block_num + 1} /\ (Ends(c) => b = block_num)
  BY DEF Starts, Ends
<1>4. c \in Instr
  BY <1>1 DEF IInv, TypeOK
<1>5. Ops(c) \subseteq Operand
  BY <1>4 DEF Instr, Ops
<1> HIDE DEF b, c
<1>6. b \in Nat /\ b <= 2 * codes - 1 /\ block_num' \in Nat /\ b <= block_num'
      /\ block_num <= b /\ block_num' <= 2 * codes - 1
  BY <1>1, <1>2, <1>3
<1>7. \A x \in Operand : cur_block'[x] \in -1 .. 2 * Len(code) /\ cur_block'[x] <= block_num'
  BY <1>1, <1>2, <1>6
<1>8. cur_block' \in [Operand -> -1 .. 2 * Len(code)]
  <2>1. cur_block' = [x \in Operand |-> cur_block'[x]] BY <1>2
  <2> QED BY <1>7, <2>1
<1>9. codes' \in 1 .. Len(code) + 1 /\ block_num' \in 0 .. 2 * Len(code)
  BY <1>1, <1>2, <1>6
<1>10. TypeOK'
  BY <1>2, <1>5, <1>8, <1>9 DEF IInv, TypeOK
<1>11. Cursors'
  BY <1>1, <1>2, <1>6, <1>7 DEF Cursors
<1> QED BY <1>1, <1>2, <1>10, <1>11 DEF IInv, Clean

LEMMA NextBlockInv == ASSUME IInv, NextBlock PROVE IInv'
<1>1. codes \in Nat /\ cur_code \in Nat /\ Len(code) \in Nat /\ num \in Nat
  BY DEF IInv, TypeOK
<1>2. Clean
  <2>1. CASE phase = "judge" BY <2>1 DEF IInv
  <2>2. CASE phase = "print"
    <3>1. codes - 1 = cur_code
      BY <1>1, <2>2 DEF NextBlock, IInv, Cursors, First
    <3>2. \A x \in Operand : NextRead(x, First, cur_code, cur_code, nxt_code[x])
      BY <2>2, <3>1 DEF IInv, Current
    <3>3. \A x \in Operand : nxt_code[x] \in Int
      BY DEF IInv, TypeOK
    <3>4. First \in Int BY <1>1 DEF First
    <3> SUFFICES ASSUME NEW x \in Operand PROVE nxt_code[x] = -1
      BY DEF Clean
    <3>5. NextRead(x, First, cur_code, cur_code, nxt_code[x]) BY <3>2
    <3>6. nxt_code[x] \in Int /\ cur_code \in Int BY <1>1, <3>3
    <3> QED BY <3>4, <3>5, <3>6, NoneAtEnd
  <2> QED BY <2>1, <2>2 DEF NextBlock
<1>3. codes' \in 1 .. Len(code) + 1 /\ cur_code' = codes'
  BY <1>1 DEF NextBlock, IInv, TypeOK
<1>4. TypeOK'
  BY <1>1, <1>3 DEF NextBlock, IInv, TypeOK
<1>5. Cursors'
  <2>1. phase' = "divide" => codes' \in DOMAIN code
    BY <1>1, <1>3 DEF NextBlock, IInv, TypeOK
  <2>2. phase' = "done" => codes' = Len(code) + 1
    BY <1>1, <1>3 DEF NextBlock, IInv, TypeOK
  <2> QED BY <1>1, <1>3, <2>1, <2>2 DEF NextBlock, Cursors
<1>6. phase' \in {"divide", "done"} /\ Clean'
  BY <1>2 DEF NextBlock, Clean
<1> QED BY <1>4, <1>5, <1>6 DEF IInv

LEMMA DivideInv == ASSUME IInv, Divide PROVE IInv'
<1>1. /\ codes \in DOMAIN code /\ cur_code \in DOMAIN code /\ code \in Seq(Instr)
      /\ cur_code = codes + num /\ num \in Nat /\ Clean
  BY DEF IInv, Divide, Cursors, TypeOK
<1>2. CASE AtEnd
  <2>1. phase' = "mark" /\ UNCHANGED <<code, codes, cur_code, num, nxt_code, note,
                                        block_num, cur_block, multi_block>>
    BY <1>2 DEF Divide
  <2>2. TypeOK' BY <2>1 DEF IInv, TypeOK
  <2>3. Cursors' BY <1>1, <2>1 DEF Cursors
  <2>4. Current(codes, codes + num, cur_code)'
    BY <1>1, <2>1, NoneAtEnd DEF Current, Clean, NextRead, Read, After, Touches
  <2>5. Noted(codes, codes + num, cur_code + 1)'
    BY <1>1, <2>1 DEF Noted
  <2> QED BY <2>1, <2>2, <2>3, <2>4, <2>5 DEF IInv
<1>3. CASE ~ AtEnd
  <2>1. /\ phase' = "divide" /\ cur_code' = cur_code + 1 /\ num' = num + 1
        /\ UNCHANGED <<code, codes, nxt_code, note, block_num, cur_block, multi_block>>
    BY <1>3 DEF Divide
  <2>2. cur_code + 1 \in DOMAIN code
    BY <1>1, <1>3 DEF AtEnd
  <2>3. TypeOK'
    BY <1>1, <2>1, <2>2 DEF IInv, TypeOK
  <2>4. Cursors' BY <1>1, <2>1, <2>2 DEF Cursors
  <2> QED BY <1>1, <2>1, <2>3, <2>4 DEF IInv, Clean
<1> QED BY <1>2, <1>3

LEMMA InstrShape ==
  ASSUME NEW c \in Instr
  PROVE  /\ c.kind \in {"LABEL", "CJP", "DEC", "READ", "OTHER"}
         /\ c.kind \in {"LABEL", "CJP"} => c.def = {}
         /\ c.kind \in {"LABEL", "DEC", "READ"} => c.use = {}
         /\ Ops(c) \subseteq Operand
BY DEF Instr, Ops

(* What scan_mark() leaves for an operand of the line and for any other.   *)
LEMMA ScanMark ==
  ASSUME code \in Seq(Instr), NEW i \in DOMAIN code, NEW n, NEW x \in Operand
  PROVE  /\ Read(x, i) => scan_mark(code[i], n)[x] = n
         /\ Touches(x, i) /\ ~ Read(x, i) => scan_mark(code[i], n)[x] = -1
         /\ ~ Touches(x, i) => scan_mark(code[i], n)[x] = nxt_code[x]
<1>1. code[i] \in Instr OBVIOUS
<1> DEFINE c == code[i]
<1>2. /\ c.kind \in {"LABEL", "CJP", "DEC", "READ", "OTHER"}
      /\ c.kind \in {"LABEL", "CJP"} => c.def = {}
      /\ c.kind \in {"LABEL", "DEC", "READ"} => c.use = {}
  BY <1>1, InstrShape
<1>3. scan_mark(c, n)[x] =
        IF x \in c.use \/ (c.kind = "READ" /\ x \in c.def) THEN n
        ELSE IF x \in c.def /\ c.kind # "DEC" THEN -1 ELSE nxt_code[x]
  BY DEF scan_mark
<1>4. /\ Read(x, i) <=> x \in c.use \/ (c.kind = "READ" /\ x \in c.def)
      /\ Touches(x, i) <=> x \in c.def \cup c.use /\ c.kind # "DEC"
  BY <1>2 DEF Read, Touches, Ops
<1> HIDE DEF c
<1> SUFFICES /\ Read(x, i) => scan_mark(c, n)[x] = n
             /\ Touches(x, i) /\ ~ Read(x, i) => scan_mark(c, n)[x] = -1
             /\ ~ Touches(x, i) => scan_mark(c, n)[x] = nxt_code[x]
  BY DEF c
<1> QED BY <1>2, <1>3, <1>4

LEMMA MarkInv == ASSUME IInv, Mark PROVE IInv'
<1>1. /\ code \in Seq(Instr) /\ codes \in DOMAIN code /\ codes + num \in DOMAIN code
      /\ cur_code \in codes .. codes + num /\ num \in Nat /\ Len(code) \in Nat
  BY DEF IInv, Mark, Cursors, TypeOK
<1>2. /\ phase' = "mark" /\ cur_code' = cur_code - 1
      /\ UNCHANGED <<code, codes, num, block_num, cur_block, multi_block>>
      /\ nxt_code' = scan_mark(code[cur_code], cur_code - codes)
      /\ note' = [note EXCEPT ![cur_code] = [x \in Ops(code[cur_code]) |-> nxt_code[x]]]
  BY DEF Mark
<1>3. Current(codes, codes + num, cur_code) /\ Noted(codes, codes + num, cur_code + 1)
  BY DEF Mark, IInv
<1>4. /\ nxt_code \in [Operand -> -1 .. Len(code) - 1]
      /\ DOMAIN note = DOMAIN code
      /\ \A k \in DOMAIN code : note[k] \in [Ops(code[k]) -> -1 .. Len(code) - 1]
  BY DEF IInv, TypeOK
<1>5. PICK first \in Nat, last \in Nat, i \in Nat :
        first = codes /\ last = codes + num /\ i = cur_code
  BY <1>1
<1>6. /\ first .. last \subseteq DOMAIN code /\ i \in first .. last /\ i \in DOMAIN code
      /\ i - first \in 0 .. Len(code) - 1
  BY <1>1, <1>5
<1>7. \A x \in Operand :
        /\ Read(x, i) => nxt_code'[x] = i - first
        /\ Touches(x, i) /\ ~ Read(x, i) => nxt_code'[x] = -1
        /\ ~ Touches(x, i) => nxt_code'[x] = nxt_code[x]
  BY <1>1, <1>2, <1>5, <1>6, ScanMark
<1>8. nxt_code' \in [Operand -> -1 .. Len(code) - 1]
  <2>1. \A x \in Operand : nxt_code'[x] \in {i - first, -1, nxt_code[x]}
    BY <1>7
  <2>2. nxt_code' = [x \in Operand |-> nxt_code'[x]]
    BY <1>2 DEF scan_mark
  <2>3. \A x \in Operand : nxt_code'[x] \in -1 .. Len(code) - 1
    <3> SUFFICES ASSUME NEW x \in Operand
                 PROVE  nxt_code'[x] \in -1 .. Len(code) - 1
      OBVIOUS
    <3>1. nxt_code'[x] \in {i - first, -1, nxt_code[x]} BY <2>1
    <3>2. nxt_code[x] \in -1 .. Len(code) - 1 BY <1>4
    <3>3. -1 \in -1 .. Len(code) - 1 /\ i - first \in -1 .. Len(code) - 1
      BY <1>1, <1>6
    <3> QED BY <3>1, <3>2, <3>3
  <2> QED BY <2>2, <2>3
<1>9. Ops(code[i]) \subseteq Operand
  BY <1>1, <1>6, InstrShape
<1>10. TypeOK'
  <2>1. \A k \in DOMAIN code : note'[k] \in [Ops(code[k]) -> -1 .. Len(code) - 1]
    BY <1>2, <1>4, <1>5, <1>9
  <2>2. DOMAIN note' = DOMAIN code
    BY <1>2, <1>4
  <2>3. cur_code' \in 0 .. Len(code) + 1
    BY <1>1, <1>2
  <2> QED BY <1>2, <1>8, <2>1, <2>2, <2>3 DEF IInv, TypeOK
<1>11. Cursors'
  BY <1>1, <1>2 DEF Cursors
<1>12. \A x \in Operand : NextRead(x, first, last, i - 1, nxt_code'[x])
  <2> SUFFICES ASSUME NEW x \in Operand
               PROVE  NextRead(x, first, last, i - 1, nxt_code'[x])
    OBVIOUS
  <2>1. NextRead(x, first, last, i, nxt_code[x]) /\ nxt_code[x] \in Int
    BY <1>3, <1>4, <1>5 DEF Current
  <2> QED BY <1>1, <1>6, <1>7, <2>1, Backward
<1>13. \A k \in i .. last : \A x \in Ops(code[k]) :
          NextRead(x, first, last, k, note'[k][x])
  <2> SUFFICES ASSUME NEW k \in i .. last, NEW x \in Ops(code[k])
               PROVE  NextRead(x, first, last, k, note'[k][x])
    OBVIOUS
  <2>1. k \in DOMAIN code BY <1>6
  <2>2. CASE k = i
    <3>1. note'[k][x] = nxt_code[x] BY <1>2, <1>4, <1>5, <1>6, <2>2
    <3> QED BY <1>3, <1>5, <1>9, <2>2, <3>1 DEF Current
  <2>3. CASE k # i
    <3>1. note'[k] = note[k] /\ k \in i + 1 .. last BY <1>2, <1>5, <2>3
    <3> QED BY <1>3, <1>5, <3>1 DEF Noted
  <2> QED BY <2>2, <2>3
<1>14. Current(codes, codes + num, cur_code)'
  <2> SUFFICES ASSUME NEW x \in Operand
               PROVE  NextRead(x, codes, codes + num, cur_code, nxt_code[x])'
    BY DEF Current
  <2>1. NextRead(x, first, last, i - 1, nxt_code'[x]) BY <1>12
  <2>2. codes' = first /\ codes' + num' = last /\ cur_code' = i - 1 /\ code' = code
    BY <1>2, <1>5
  <2> QED BY <2>1, <2>2 DEF NextRead, Read, After, Touches
<1>15. Noted(codes, codes + num, cur_code + 1)'
  <2>1. codes' = first /\ codes' + num' = last /\ cur_code' + 1 = i /\ code' = code
    BY <1>1, <1>2, <1>5
  <2> SUFFICES ASSUME NEW k \in i .. last, NEW x \in Ops(code[k])
               PROVE  NextRead(x, codes, codes + num, k, note[k][x])'
    BY <2>1 DEF Noted
  <2>2. NextRead(x, first, last, k, note'[k][x]) BY <1>13
  <2> QED BY <2>1, <2>2 DEF NextRead, Read, After, Touches
<1> QED BY <1>2, <1>10, <1>11, <1>14, <1>15 DEF IInv

LEMMA MarkedInv == ASSUME IInv, Marked PROVE IInv'
<1>1. /\ codes \in DOMAIN code /\ codes + num \in DOMAIN code /\ code \in Seq(Instr)
      /\ cur_code = codes - 1 /\ num \in Nat
  BY DEF IInv, Marked, Cursors, TypeOK
<1>2. /\ phase' = "print" /\ cur_code' = codes + num
      /\ UNCHANGED <<code, codes, num, block_num, cur_block, multi_block, nxt_code, note>>
  BY DEF Marked
<1>3. Current(codes, codes + num, codes - 1) /\ Noted(codes, codes + num, codes)
  BY <1>1 DEF IInv, Marked
<1>4. First' = codes
  BY <1>1, <1>2 DEF First
<1>5. TypeOK'
  BY <1>1, <1>2 DEF IInv, TypeOK
<1>6. Cursors'
  BY <1>1, <1>2, <1>4 DEF Cursors
<1>7. Current(First, cur_code, codes - 1)'
  BY <1>2, <1>3, <1>4 DEF Current, NextRead, Read, After, Touches
<1>8. Noted(First, cur_code, codes)'
  BY <1>2, <1>3, <1>4 DEF Noted, NextRead, Read, After, Touches
<1> QED BY <1>2, <1>5, <1>6, <1>7, <1>8 DEF IInv

LEMMA PrintLineInv == ASSUME IInv, PrintLine PROVE IInv'
<1>1. PICK first \in Nat, last \in Nat, i \in Nat :
        first = First /\ last = cur_code /\ i = codes
  BY DEF IInv, PrintLine, Cursors, TypeOK
<1>2. /\ code \in Seq(Instr) /\ first \in DOMAIN code /\ last \in DOMAIN code
      /\ i \in first .. last /\ first .. last \subseteq DOMAIN code
      /\ i \in DOMAIN code /\ num \in Nat
  BY <1>1 DEF IInv, PrintLine, Cursors, TypeOK
<1>3. /\ phase' = "print" /\ codes' = i + 1
      /\ nxt_code' = [x \in Operand |-> IF x \in Ops(code[i])
                                        THEN note[i][x] ELSE nxt_code[x]]
      /\ UNCHANGED <<code, cur_code, num, block_num, cur_block, multi_block, note>>
  BY <1>1 DEF PrintLine
<1>4. first = First' /\ last = cur_code'
  BY <1>1, <1>3 DEF First
<1>5. Current(first, last, i - 1) /\ Noted(first, last, i)
  BY <1>1 DEF IInv, PrintLine
<1>6. /\ nxt_code \in [Operand -> -1 .. Len(code) - 1]
      /\ note[i] \in [Ops(code[i]) -> -1 .. Len(code) - 1]
  BY <1>2 DEF IInv, TypeOK
<1>7. nxt_code' \in [Operand -> -1 .. Len(code) - 1]
  BY <1>3, <1>6
<1>8. TypeOK'
  BY <1>1, <1>2, <1>3, <1>7 DEF IInv, TypeOK
<1>9. Cursors'
  BY <1>1, <1>2, <1>3, <1>4 DEF Cursors
<1>10. \A x \in Operand : NextRead(x, first, last, i, nxt_code'[x])
  <2> SUFFICES ASSUME NEW x \in Operand
               PROVE  NextRead(x, first, last, i, nxt_code'[x])
    OBVIOUS
  <2>1. CASE x \in Ops(code[i])
    <3>1. NextRead(x, first, last, i, note[i][x])
      BY <1>2, <1>5, <2>1 DEF Noted
    <3> QED BY <1>3, <2>1, <3>1
  <2>2. CASE x \notin Ops(code[i])
    <3>1. nxt_code'[x] = nxt_code[x] /\ nxt_code[x] \in Int
      BY <1>3, <1>6, <2>2
    <3>2. NextRead(x, first, last, i - 1, nxt_code[x]) BY <1>5 DEF Current
    <3>3. ~ Touches(x, i) BY <2>2 DEF Touches
    <3>4. NextRead(x, first, last, i, nxt_code[x])
      BY <1>2, <3>1, <3>2, <3>3, Forward
    <3> QED BY <3>1, <3>4
  <2> QED BY <2>1, <2>2
<1>11. Current(First, cur_code, codes - 1)'
  <2>1. codes' - 1 = i BY <1>2, <1>3
  <2> QED BY <1>3, <1>4, <1>10, <2>1 DEF Current, NextRead, Read, After, Touches
<1>12. Noted(First, cur_code, codes)'
  <2>1. \A k \in i + 1 .. last : k \in i .. last BY <1>2
  <2> SUFFICES ASSUME NEW k \in i + 1 .. last, NEW x \in Ops(code[k])
               PROVE  NextRead(x, First, cur_code, k, note[k][x])'
    BY <1>3, <1>4 DEF Noted
  <2>2. NextRead(x, first, last, k, note[k][x]) BY <1>5, <2>1 DEF Noted
  <2> QED BY <1>3, <1>4, <2>2 DEF NextRead, Read, After, Touches
<1> QED BY <1>3, <1>8, <1>9, <1>11, <1>12 DEF IInv

LEMMA StepInv == IInv /\ [Next]_vars => IInv'
<1> SUFFICES ASSUME IInv, [Next]_vars PROVE IInv' OBVIOUS
<1>1. CASE UNCHANGED vars
  BY <1>1 DEF vars, IInv, TypeOK, Cursors, Clean, Current, Noted, First,
              NextRead, Read, After, Touches
<1>2. CASE Next
  BY <1>2, JudgeInv, NextBlockInv, DivideInv, MarkInv, MarkedInv, PrintLineInv
     DEF Next
<1> QED BY <1>1, <1>2

-----------------------------------------------------------------------------
(* Cursors, block numbers and next uses keep their types and bounds.       *)
THEOREM TypeCorrect == Spec => []TypeOK
<1>1. IInv => TypeOK BY DEF IInv
<1> QED BY InitInv, StepInv, <1>1, PTL DEF Spec

(* Whatever the program: when a line has been printed, every operand       *)
(* points to the next line of the block that reads it, or to none.         *)
THEOREM NextUsesExact == Spec => []NextUseExact
<1>1. IInv => NextUseExact BY DEF IInv, Current, NextUseExact
<1> QED BY InitInv, StepInv, <1>1, PTL DEF Spec

(* No next use survives the end of its block.                              *)
THEOREM NoNextUseBetweenBlocks == Spec => []CleanBetweenBlocks
<1>1. IInv => CleanBetweenBlocks BY DEF IInv, Clean, CleanBetweenBlocks
<1> QED BY InitInv, StepInv, <1>1, PTL DEF Spec

-----------------------------------------------------------------------------
(* How the two passes cut the program.  A line is the first of a block if  *)
(* it starts one or the line before ends one.                              *)
Bound(k)   == Starts(code[k]) \/ Ends(code[k - 1])
Cut(i, j)  == \E k \in i + 1 .. j : Bound(k)
Begins(k)  == k = 1 \/ Bound(k)
Finishes(k) == k = Len(code) \/ Bound(k + 1)
Mentions(x, i) == x \in Ops(code[i])

(* JudgeMultiBlock: the operands seen so far, those of the block that the  *)
(* next line may go on with, and those seen on both sides of a cut.        *)
Judged(n) ==
    \A x \in Operand :
        /\ cur_block[x] # -1 <=> \E i \in 1 .. n : Mentions(x, i)
        /\ cur_block[x] = block_num <=>
              \E i \in 1 .. n : Mentions(x, i) /\ ~ Cut(i, n) /\ ~ Ends(code[n])
Multi(n) ==
    \A x \in Operand :
        x \in multi_block <=>
            \E i, j \in 1 .. n : i < j /\ Mentions(x, i) /\ Mentions(x, j) /\ Cut(i, j)

(* DividingBlock: its blocks lie between two cuts and have none inside.    *)
Parted ==
    /\ phase = "divide" => Begins(codes) /\ ~ Cut(codes, cur_code)
    /\ phase = "mark"   => /\ Begins(codes) /\ Finishes(codes + num)
                           /\ ~ Cut(codes, codes + num)
    /\ phase = "print"  => /\ Begins(First) /\ Finishes(cur_code)
                           /\ ~ Cut(First, cur_code)

MInv ==
    /\ phase = "judge" => Judged(codes - 1) /\ Multi(codes - 1)
    /\ phase # "judge" => Multi(Len(code))
    /\ Parted

LEMMA InitMulti == Init => MInv
BY DEF Init, MInv, Judged, Multi, Parted

LEMMA JudgeMulti == ASSUME IInv, MInv, Judge PROVE MInv'
<1> USE DEF IInv
<1> PICK n \in Nat : n = codes BY DEF TypeOK
<1> PICK B : B = IF Starts(code[n]) THEN block_num + 1 ELSE block_num OBVIOUS
<1>1. /\ phase = "judge" /\ phase' = phase /\ n \in 1 .. Len(code) /\ code' = code
      /\ codes' = n + 1 /\ n \in Nat /\ n >= 1
      /\ cur_block' = [x \in Operand |-> IF Mentions(x, n) THEN B ELSE cur_block[x]]
      /\ multi_block' = multi_block \cup {x \in Ops(code[n]) : cur_block[x] \notin {-1, B}}
      /\ block_num' = IF Ends(code[n]) THEN B + 1 ELSE B
  BY DEF Judge, TypeOK, Mentions
<1>2. /\ block_num \in Nat /\ B \in Nat /\ block_num <= B /\ block_num' \in Nat /\ B <= block_num'
      /\ Ends(code[n]) => block_num' # B
      /\ ~ Ends(code[n]) => block_num' = B
      /\ Starts(code[n]) => block_num < B
      /\ ~ Starts(code[n]) => block_num = B
  BY <1>1 DEF TypeOK
<1>3. \A x \in Operand : cur_block[x] \in Int /\ cur_block[x] <= block_num
  BY <1>1 DEF TypeOK, Cursors
<1>4. Judged(n - 1) /\ Multi(n - 1) BY <1>1 DEF MInv
<1>5. \A i \in 1 .. n - 1 : Cut(i, n) <=> Cut(i, n - 1) \/ Bound(n)
  <2> SUFFICES ASSUME NEW i \in 1 .. n - 1 PROVE Cut(i, n) <=> Cut(i, n - 1) \/ Bound(n)
    OBVIOUS
  <2>1. i + 1 .. n = (i + 1 .. n - 1) \cup {n} BY <1>1
  <2> QED BY <2>1 DEF Cut
<1>6. ~ Cut(n, n) BY <1>1 DEF Cut
(* The number of the block that line n goes to is that of an earlier line's *)
(* operand exactly if no cut lies between the two.                         *)
<1>7. ASSUME NEW x \in Operand
      PROVE  cur_block[x] = B <=> \E i \in 1 .. n - 1 : Mentions(x, i) /\ ~ Cut(i, n)
  <2>1. cur_block[x] = B <=> cur_block[x] = block_num /\ ~ Starts(code[n])
    BY <1>2, <1>3
  <2>2. cur_block[x] = block_num <=>
            \E i \in 1 .. n - 1 : Mentions(x, i) /\ ~ Cut(i, n - 1) /\ ~ Ends(code[n - 1])
    BY <1>4 DEF Judged
  <2> HIDE DEF IInv
  <2> QED BY <1>5, <2>1, <2>2 DEF Bound
<1>8. 1 .. n = (1 .. n - 1) \cup {n} BY <1>1
<1>9. Judged(n)'
  <2> HIDE DEF IInv
  <2> SUFFICES ASSUME NEW x \in Operand
      PROVE  /\ cur_block'[x] # -1 <=> \E i \in 1 .. n : Mentions(x, i)
             /\ cur_block'[x] = block_num' <=>
                   \E i \in 1 .. n : Mentions(x, i) /\ ~ Cut(i, n) /\ ~ Ends(code[n])
    BY <1>1 DEF Judged, Mentions, Cut, Bound, Starts, Ends
  <2>1. CASE Mentions(x, n)
    <3>1. cur_block'[x] = B /\ n \in 1 .. n BY <1>1, <2>1
    <3> QED BY <1>2, <1>6, <2>1, <3>1
  <2>2. CASE ~ Mentions(x, n)
    <3>1. cur_block'[x] = cur_block[x] BY <1>1, <2>2
    <3>2. cur_block'[x] # -1 <=> \E i \in 1 .. n : Mentions(x, i)
      BY <1>4, <1>8, <2>2, <3>1 DEF Judged
    <3>3. CASE Ends(code[n])
      <4>1. cur_block'[x] # block_num' BY <1>2, <1>3, <3>1, <3>3
      <4> QED BY <3>2, <3>3, <4>1
    <3>4. CASE ~ Ends(code[n])
      <4>1. cur_block'[x] = block_num' <=> cur_block[x] = B BY <1>2, <3>1, <3>4
      <4> QED BY <1>7, <1>8, <2>2, <3>2, <3>4, <4>1
    <3> QED BY <3>3, <3>4
  <2> QED BY <2>1, <2>2
<1>10. Multi(n)'
  <2> HIDE DEF IInv
  <2> DEFINE Two(x, m) == \E i, j \in 1 .. m : i < j /\ Mentions(x, i) /\ Mentions(x, j)
                                              /\ Cut(i, j)
  <2> SUFFICES ASSUME NEW x \in Operand PROVE x \in multi_block' <=> Two(x, n)
    BY <1>1 DEF Multi, Mentions, Cut, Bound, Starts, Ends
  <2>1. x \in multi_block' <=>
            x \in multi_block \/ (Mentions(x, n) /\ cur_block[x] # -1 /\ cur_block[x] # B)
    BY <1>1 DEF Mentions
  <2>2. x \in multi_block <=> Two(x, n - 1) BY <1>4 DEF Multi
  <2>3. Two(x, n - 1) => Two(x, n) BY <1>8
  <2>4. ASSUME Mentions(x, n), cur_block[x] # -1, cur_block[x] # B PROVE Two(x, n)
    <3>1. PICK i \in 1 .. n - 1 : Mentions(x, i) BY <1>4, <2>4 DEF Judged
    <3>2. Cut(i, n) BY <1>7, <2>4, <3>1
    <3>3. i \in 1 .. n /\ n \in 1 .. n /\ i < n BY <1>1
    <3> QED BY <2>4, <3>1, <3>2, <3>3
  <2>5. ASSUME Two(x, n), ~ Two(x, n - 1)
        PROVE  Mentions(x, n) /\ cur_block[x] # -1 /\ cur_block[x] # B
    <3>1. PICK i \in 1 .. n, j \in 1 .. n :
              i < j /\ Mentions(x, i) /\ Mentions(x, j) /\ Cut(i, j)
      BY <2>5
    <3>2. j = n
      <4>1. CASE j \in 1 .. n - 1
        <5>1. i \in 1 .. n - 1 BY <3>1, <4>1
        <5> QED BY <2>5, <3>1, <4>1, <5>1
      <4> QED BY <1>8, <4>1
    <3>3. i \in 1 .. n - 1 BY <3>1, <3>2
    <3>4. cur_block[x] # -1 BY <1>4, <3>1, <3>3 DEF Judged
    <3>5. ASSUME cur_block[x] = B PROVE FALSE
      <4>1. PICK h \in 1 .. n - 1 : Mentions(x, h) /\ ~ Cut(h, n) BY <1>7, <3>5
      <4>2. PICK k \in i + 1 .. n : Bound(k) BY <3>1, <3>2 DEF Cut
      <4>3. k \notin h + 1 .. n BY <4>1, <4>2 DEF Cut
      <4>4. k \in i + 1 .. h /\ i < h BY <4>3
      <4>5. Cut(i, h) BY <4>2, <4>4 DEF Cut
      <4> QED BY <2>5, <3>1, <3>3, <4>1, <4>4, <4>5
    <3> QED BY <3>1, <3>2, <3>4, <3>5
  <2> HIDE DEF Two
  <2> QED BY <2>1, <2>2, <2>3, <2>4, <2>5
<1>11. codes' - 1 = n BY <1>1
<1> QED BY <1>1, <1>9, <1>10, <1>11 DEF MInv, Parted, Judged, Multi

(* The other loops leave the marks alone.                                  *)
LEMMA MultiStays ==
  ASSUME IInv, MInv, UNCHANGED <<code, multi_block>>, phase' # "judge",
         phase = "judge" => codes > Len(code)
  PROVE  Multi(Len(code))'
<1>1. Multi(Len(code)) 
  <2>1. phase = "judge" => codes - 1 = Len(code) BY DEF IInv, TypeOK
  <2> QED BY <2>1 DEF MInv
<1> QED BY <1>1 DEF Multi, Mentions, Cut, Bound, Starts, Ends

LEMMA NextBlockMulti == ASSUME IInv, MInv, NextBlock PROVE MInv'
<1> DEFINE first == IF phase = "judge" THEN 1 ELSE codes
<1>1. /\ UNCHANGED <<code, multi_block>> /\ phase \in {"judge", "print"}
      /\ phase = "judge" => codes > Len(code)
      /\ phase = "print" => codes > cur_code
      /\ codes' = first /\ cur_code' = first
      /\ phase' = IF first <= Len(code) THEN "divide" ELSE "done"
  BY DEF NextBlock
<1>2. Multi(Len(code))' BY <1>1, MultiStays
<1>3. CASE first <= Len(code)
  <2>1. Begins(first)
    <3>1. CASE phase = "judge" BY <3>1 DEF Begins
    <3>2. CASE phase = "print"
      <4>1. codes = cur_code + 1 /\ cur_code \in DOMAIN code /\ code \in Seq(Instr)
            /\ cur_code \in Nat
        BY <1>1, <3>2 DEF IInv, Cursors, TypeOK, First
      <4>2. Finishes(cur_code) BY <3>2 DEF MInv, Parted
      <4>3. cur_code # Len(code) BY <1>3, <3>2, <4>1
      <4> QED BY <3>2, <4>1, <4>2, <4>3 DEF Finishes, Begins
    <3> QED BY <1>1, <3>1, <3>2
  <2>2. ~ Cut(first, first) 
    <3>1. first \in Int BY DEF IInv, TypeOK
    <3> QED BY <3>1 DEF Cut
  <2> HIDE DEF first
  <2>3. phase' = "divide" BY <1>1, <1>3
  <2> QED BY <1>1, <1>2, <2>1, <2>2, <2>3
          DEF MInv, Parted, Begins, Cut, Bound, Starts, Ends
<1>4. CASE ~ (first <= Len(code))
  <2>1. phase' = "done" BY <1>1, <1>4
  <2> QED BY <1>2, <2>1 DEF MInv, Parted
<1> QED BY <1>3, <1>4

LEMMA DivideMulti == ASSUME IInv, MInv, Divide PROVE MInv'
<1>1. /\ phase = "divide" /\ UNCHANGED <<code, codes, multi_block>>
      /\ Begins(codes) /\ ~ Cut(codes, cur_code) /\ cur_code = codes + num
      /\ codes \in Nat /\ num \in Nat /\ cur_code \in Nat /\ Len(code) \in Nat
  BY DEF Divide, MInv, Parted, IInv, Cursors, TypeOK
<1>2. CASE AtEnd
  <2>1. phase' = "mark" /\ UNCHANGED <<cur_code, num>> BY <1>2 DEF Divide
  <2>2. Finishes(cur_code) BY <1>1, <1>2 DEF AtEnd, Finishes, Bound
  <2>3. Multi(Len(code))' BY <1>1, <2>1, MultiStays
  <2> QED BY <1>1, <2>1, <2>2, <2>3
          DEF MInv, Parted, Begins, Finishes, Cut, Bound, Starts, Ends
<1>3. CASE ~ AtEnd
  <2>1. phase' = phase /\ cur_code' = cur_code + 1 BY <1>3 DEF Divide
  <2>2. ~ Bound(cur_code + 1) BY <1>1, <1>3 DEF AtEnd, Bound
  <2>3. codes + 1 .. cur_code + 1 = (codes + 1 .. cur_code) \cup {cur_code + 1} BY <1>1
  <2>4. ~ Cut(codes, cur_code + 1) BY <1>1, <2>2, <2>3 DEF Cut
  <2>5. Multi(Len(code))' BY <1>1, <2>1, MultiStays
  <2> QED BY <1>1, <2>1, <2>4, <2>5
          DEF MInv, Parted, Begins, Cut, Bound, Starts, Ends
<1> QED BY <1>2, <1>3

LEMMA MarkMulti == ASSUME IInv, MInv, Mark \/ Marked PROVE MInv'
<1>1. /\ phase = "mark" /\ UNCHANGED <<code, codes, num, multi_block>>
      /\ phase' = phase \/ (phase' = "print" /\ cur_code' = codes + num)
      /\ Begins(codes) /\ Finishes(codes + num) /\ ~ Cut(codes, codes + num)
      /\ codes \in Nat /\ num \in Nat
  BY DEF Mark, Marked, MInv, Parted, IInv, TypeOK
<1>2. Multi(Len(code))' BY <1>1, MultiStays
<1>3. phase' = "print" => First' = codes BY <1>1 DEF First
<1> QED BY <1>1, <1>2, <1>3
        DEF MInv, Parted, Begins, Finishes, Cut, Bound, Starts, Ends

LEMMA PrintMulti == ASSUME IInv, MInv, PrintLine PROVE MInv'
<1>1. /\ phase = "print" /\ UNCHANGED <<code, phase, cur_code, num, multi_block>>
      /\ Begins(First) /\ Finishes(cur_code) /\ ~ Cut(First, cur_code) /\ First' = First
  BY DEF PrintLine, MInv, Parted, First
<1>2. Multi(Len(code))' BY <1>1, MultiStays
<1> QED BY <1>1, <1>2 DEF MInv, Parted, Begins, Finishes, Cut, Bound, Starts, Ends

LEMMA StepMulti == IInv /\ MInv /\ [Next]_vars => MInv'
<1> SUFFICES ASSUME IInv, MInv, [Next]_vars PROVE MInv' OBVIOUS
<1>1. CASE UNCHANGED vars
  BY <1>1 DEF vars, MInv, Judged, Multi, Parted, First, Mentions, Begins, Finishes, Cut,
              Bound, Starts, Ends
<1>2. CASE Next
  BY <1>2, JudgeMulti, NextBlockMulti, DivideMulti, MarkMulti, PrintMulti DEF Next
<1> QED BY <1>1, <1>2

(* The two passes agree on the blocks: exactly the operands that a block   *)
(* shares with others are marked multi_block.                              *)
THEOREM MultiBlocksExact == Spec => []MultiBlockExact
<1>1. IInv /\ MInv => MultiBlockExact
  <2> SUFFICES ASSUME IInv, MInv, phase = "print",
                      NEW x \in UNION {Ops(code[i]) : i \in Block}
               PROVE  x \in multi_block <=> \E i \in DOMAIN code \ Block : Mentions(x, i)
    BY DEF MultiBlockExact, Mentions
  <2>0. PICK h \in Block : Mentions(x, h) BY DEF Mentions
  <2>1. /\ Begins(First) /\ Finishes(cur_code) /\ ~ Cut(First, cur_code)
        /\ Multi(Len(code)) /\ First \in DOMAIN code /\ cur_code \in DOMAIN code
        /\ DOMAIN code = 1 .. Len(code) /\ Len(code) \in Nat
    BY DEF MInv, Parted, IInv, Cursors, TypeOK
  <2>2. h \in First .. cur_code /\ h \in 1 .. Len(code) BY <2>0, <2>1 DEF Block
  <2>21. x \in Operand
    <3>1. code[h] \in Instr BY <2>1, <2>2 DEF IInv, TypeOK
    <3>2. Ops(code[h]) \subseteq Operand BY <3>1 DEF Instr, Ops
    <3> QED BY <2>0, <3>2 DEF Mentions
  <2>3. ASSUME x \in multi_block PROVE \E i \in DOMAIN code \ Block : Mentions(x, i)
    <3>1. PICK i \in 1 .. Len(code), j \in 1 .. Len(code) :
              i < j /\ Mentions(x, i) /\ Mentions(x, j) /\ Cut(i, j)
      BY <2>1, <2>3, <2>21 DEF Multi
    <3>2. PICK k \in i + 1 .. j : Bound(k) BY <3>1 DEF Cut
    <3>3. k \notin First + 1 .. cur_code BY <2>1, <3>2 DEF Cut
    <3>4. i \notin Block \/ j \notin Block BY <2>1, <3>2, <3>3 DEF Block
    <3> QED BY <2>1, <3>1, <3>4
  <2>4. ASSUME NEW i \in DOMAIN code \ Block, Mentions(x, i) PROVE x \in multi_block
    <3>1. i \in 1 .. Len(code) /\ (i < First \/ cur_code < i) BY <2>1 DEF Block
    <3>2. CASE i < First
      <4>1. Bound(First) /\ First \in i + 1 .. h BY <2>1, <2>2, <3>1, <3>2 DEF Begins
      <4>2. Cut(i, h) /\ i < h BY <2>2, <3>1, <4>1 DEF Cut
      <4> QED BY <2>0, <2>1, <2>2, <2>4, <2>21, <3>1, <4>2 DEF Multi
    <3>3. CASE cur_code < i
      <4>1. Bound(cur_code + 1) /\ cur_code + 1 \in h + 1 .. i
        BY <2>1, <2>2, <3>1, <3>3 DEF Finishes
      <4>2. Cut(h, i) /\ h < i BY <2>2, <3>1, <3>3, <4>1 DEF Cut
      <4> QED BY <2>0, <2>1, <2>2, <2>4, <2>21, <3>1, <4>2 DEF Multi
    <3> QED BY <3>1, <3>2, <3>3
  <2> QED BY <2>3, <2>4
<1> QED BY InitInv, StepInv, InitMulti, StepMulti, <1>1, PTL DEF Spec

-----------------------------------------------------------------------------
(* What the register allocator takes for granted of the notes.             *)

(* When line codes is printed, the operands whose next use is noted to be  *)
(* this line are those that it reads; no note lags behind, so that an      *)
(* operand is never kept for a read that is over, nor freed before one; an *)
(* operand that the line overwrites is promised to nobody; and behind the  *)
(* last line nothing is.  These are the guards of RegAlloc!Mentions and    *)
(* RegAlloc!EndBlock.                                                      *)
Index == codes - First
Promises ==
    phase = "print" =>
        \A x \in Operand :
            /\ nxt_code[x] = -1 \/ nxt_code[x] \in Index .. num
            /\ codes <= cur_code => (nxt_code[x] = Index <=> Read(x, codes))
            /\ (/\ codes <= cur_code
                /\ Touches(x, codes) /\ ~ Read(x, codes)) => nxt_code[x] = -1
            /\ codes = cur_code + 1 => nxt_code[x] = -1

(* The allocator's model picks any notes of this kind; the notes of every  *)
(* block of every program are of it.                                       *)
THEOREM NotesKeepPromises == Spec => []Promises
<1>1. IInv => Promises
  <2> SUFFICES ASSUME IInv, phase = "print", NEW x \in Operand
               PROVE  /\ nxt_code[x] = -1 \/ nxt_code[x] \in Index .. num
                      /\ codes <= cur_code => (nxt_code[x] = Index <=> Read(x, codes))
                      /\ (/\ codes <= cur_code
                          /\ Touches(x, codes) /\ ~ Read(x, codes)) => nxt_code[x] = -1
                      /\ codes = cur_code + 1 => nxt_code[x] = -1
    BY DEF Promises
  <2>1. /\ num \in Nat /\ First = cur_code - num
        /\ First \in DOMAIN code /\ cur_code \in DOMAIN code
        /\ codes \in First .. cur_code + 1
        /\ DOMAIN code = 1 .. Len(code) /\ Len(code) \in Nat /\ code \in Seq(Instr)
    BY DEF IInv, TypeOK, Cursors, First
  <2>2. nxt_code[x] \in Int /\ NextRead(x, First, cur_code, codes - 1, nxt_code[x])
    BY DEF IInv, TypeOK, Current
  <2> DEFINE p == nxt_code[x]
  <2>3. CASE p = -1
    <3>1. codes <= cur_code => ~ Read(x, codes)
      BY <2>1, <2>2, <2>3 DEF NextRead, After
    <3>2. p # Index BY <2>1, <2>3 DEF Index
    <3> QED BY <2>3, <3>1, <3>2
  <2>4. CASE p # -1
    <3>1. /\ First + p \in codes .. cur_code /\ Read(x, First + p)
          /\ \A m \in DOMAIN code : codes - 1 < m /\ m < First + p => ~ Touches(x, m)
      BY <2>1, <2>2, <2>4 DEF NextRead, After
    <3>2. p \in Index .. num /\ codes <= cur_code /\ codes \in DOMAIN code
      BY <2>1, <2>2, <3>1 DEF Index
    <3>3. First + p = codes \/ ~ Touches(x, codes)
      <4>1. First \in Int /\ codes \in Int /\ p \in Int BY <2>1, <2>2
      <4>2. First + p = codes \/ codes < First + p BY <3>1, <4>1
      <4>3. codes - 1 < codes BY <4>1
      <4> QED BY <3>1, <3>2, <4>2, <4>3
    <3>4. Read(x, codes) => Touches(x, codes) BY <2>1, <3>2, ReadTouches
    <3>5. p = Index <=> First + p = codes BY <2>1, <2>2 DEF Index
    <3> QED BY <2>1, <3>1, <3>2, <3>3, <3>4, <3>5
  <2> QED BY <2>3, <2>4
<1> QED BY InitInv, StepInv, <1>1, PTL DEF Spec

-----------------------------------------------------------------------------
(* The passes take a number of steps that is linear in the program.        *)

(* A line costs at most five steps behind JudgeMultiBlock(): what is left  *)
(* of the n lines counts from the first line of the block, whichever loop  *)
(* runs, for the cursors c (codes) and d (cur_code) and m, which is num.   *)
Judging(n, c)        == 6 * n + 2 - c
Dividing(n, c, m)    == 5 * (n + 1 - c) - m
Marking(n, c, d, m)  == 5 * (n + 1 - c) - (m + 1) - (c + m - d)
Printing(n, c, d, m) == 5 * (n + 1 - (d - m)) - 2 * (m + 1) - 1 - (c - (d - m))

Left ==
    CASE phase = "judge"  -> Judging(Len(code), codes)
      [] phase = "divide" -> Dividing(Len(code), codes, num)
      [] phase = "mark"   -> Marking(Len(code), codes, cur_code, num)
      [] phase = "print"  -> Printing(Len(code), codes, cur_code, num)
      [] phase = "done"   -> 0

(* The passes can still go 6 * Len(code) + 1 steps at most, and have       *)
(* printed all the lines when they cannot go on.                           *)
Bounded ==
    /\ Left \in 0 .. 6 * Len(code) + 1
    /\ Left = 0 <=> phase = "done"
    /\ phase = "done" => codes = Len(code) + 1

LEMMA JudgingBound ==
  ASSUME NEW n \in Nat, NEW c \in 1 .. n + 1
  PROVE  Judging(n, c) \in 1 .. 6 * n + 1 /\ Judging(n, c + 1) < Judging(n, c)
BY DEF Judging

LEMMA DividingBound ==
  ASSUME NEW n \in Nat, NEW c \in 1 .. n, NEW m \in Nat, c + m <= n
  PROVE  /\ Dividing(n, c, m) \in 1 .. 6 * n + 1
         /\ Dividing(n, c, m + 1) < Dividing(n, c, m)
         /\ Marking(n, c, c + m, m) < Dividing(n, c, m)
BY DEF Dividing, Marking

LEMMA MarkingBound ==
  ASSUME NEW n \in Nat, NEW c \in 1 .. n, NEW m \in Nat, c + m <= n,
         NEW d \in c - 1 .. c + m
  PROVE  /\ Marking(n, c, d, m) \in 1 .. 6 * n + 1
         /\ Marking(n, c, d - 1, m) < Marking(n, c, d, m)
         /\ d = c - 1 => Printing(n, c, c + m, m) < Marking(n, c, d, m)
BY DEF Marking, Printing

LEMMA PrintingBound ==
  ASSUME NEW n \in Nat, NEW d \in 1 .. n, NEW m \in Nat, 1 <= d - m,
         NEW c \in d - m .. d + 1
  PROVE  /\ Printing(n, c, d, m) \in 1 .. 6 * n + 1
         /\ Printing(n, c + 1, d, m) < Printing(n, c, d, m)
         /\ c = d + 1 => Dividing(n, c, 0) < Printing(n, c, d, m)
BY DEF Printing, Dividing

(* Where the cursors are, as the bounds want it.                           *)
LEMMA Where ==
  ASSUME IInv
  PROVE  /\ Len(code) \in Nat /\ DOMAIN code = 1 .. Len(code) /\ num \in Nat
         /\ phase \in {"judge", "divide", "mark", "print", "done"}
         /\ codes \in 1 .. Len(code) + 1 /\ cur_code \in Int
         /\ phase = "divide" => codes \in 1 .. Len(code) /\ codes + num <= Len(code)
         /\ phase = "divide" => cur_code = codes + num
         /\ phase = "mark" => codes \in 1 .. Len(code) /\ codes + num <= Len(code)
         /\ phase = "mark" => cur_code \in codes - 1 .. codes + num
         /\ phase = "print" => cur_code \in 1 .. Len(code) /\ 1 <= cur_code - num
         /\ phase = "print" => codes \in cur_code - num .. cur_code + 1
         /\ phase = "done" => codes = Len(code) + 1
<1>1. Len(code) \in Nat /\ DOMAIN code = 1 .. Len(code) BY DEF IInv, TypeOK
<1>2. /\ phase \in {"judge", "divide", "mark", "print", "done"}
      /\ codes \in 1 .. Len(code) + 1 /\ cur_code \in 0 .. Len(code) + 1
      /\ num \in 0 .. Len(code)
  BY DEF IInv, TypeOK
<1>3. Cursors BY DEF IInv
<1>4. num \in Nat /\ cur_code \in Int BY <1>1, <1>2
<1>5. phase = "divide" => codes \in 1 .. Len(code) /\ codes + num <= Len(code)
  BY <1>1, <1>2, <1>3 DEF Cursors
<1>6. phase = "mark" => codes \in 1 .. Len(code) /\ codes + num <= Len(code)
  BY <1>1, <1>2, <1>3 DEF Cursors
<1>7. phase = "print" => cur_code \in 1 .. Len(code) /\ 1 <= cur_code - num
  BY <1>1, <1>2, <1>3 DEF Cursors, First
<1>8. phase = "print" => codes \in cur_code - num .. cur_code + 1
  BY <1>3 DEF Cursors, First
<1> QED BY <1>1, <1>2, <1>3, <1>4, <1>5, <1>6, <1>7, <1>8 DEF Cursors

LEMMA LeftFacts == ASSUME IInv PROVE Bounded
<1> DEFINE n == Len(code)
<1>1. /\ n \in Nat /\ num \in Nat /\ codes \in 1 .. n + 1
      /\ phase \in {"judge", "divide", "mark", "print", "done"}
      /\ phase = "done" => codes = n + 1
  BY Where
<1>2. CASE phase = "judge" BY <1>1, <1>2, JudgingBound DEF Left, Bounded
<1>3. CASE phase = "divide" BY <1>1, <1>3, Where, DividingBound DEF Left, Bounded
<1>4. CASE phase = "mark" BY <1>1, <1>4, Where, MarkingBound DEF Left, Bounded
<1>5. CASE phase = "print" BY <1>1, <1>5, Where, PrintingBound DEF Left, Bounded
<1>6. CASE phase = "done" BY <1>1, <1>6 DEF Left, Bounded
<1> QED BY <1>1, <1>2, <1>3, <1>4, <1>5, <1>6

LEMMA LeftLess == ASSUME IInv, Next PROVE Left' < Left
<1> DEFINE n == Len(code)
<1>0. n \in Nat /\ num \in Nat /\ codes \in 1 .. n + 1 BY Where
<1>1. CASE Judge
  <2>1. /\ phase = "judge" /\ phase' = "judge" /\ code' = code /\ codes' = codes + 1
    BY <1>1 DEF Judge
  <2>2. Left = Judging(n, codes) /\ Left' = Judging(n, codes + 1) BY <2>1 DEF Left
  <2> QED BY <1>0, <2>2, JudgingBound
<1>2. CASE NextBlock
  <2>1. /\ code' = code /\ num' = 0 /\ cur_code' = codes'
        /\ codes' = IF phase = "judge" THEN 1 ELSE codes
        /\ phase' = IF codes' <= n THEN "divide" ELSE "done"
    BY <1>2 DEF NextBlock
  <2>2. CASE phase = "judge" /\ codes > n
    <3>1. codes = n + 1 /\ codes' = 1 BY <1>0, <2>1, <2>2
    <3>2. Left = 5 * n + 1 BY <1>0, <2>2, <3>1 DEF Left, Judging
    <3>3. CASE n >= 1
      <4>1. phase' = "divide" BY <1>0, <2>1, <3>1, <3>3
      <4>2. Left' = Dividing(n, 1, 0) BY <2>1, <3>1, <4>1 DEF Left
      <4>3. Dividing(n, 1, 0) = 5 * n BY <1>0 DEF Dividing
      <4> QED BY <1>0, <3>2, <4>2, <4>3
    <3>4. CASE n = 0
      <4>1. phase' = "done" BY <2>1, <3>1, <3>4
      <4>2. Left' = 0 BY <4>1 DEF Left
      <4> QED BY <3>2, <3>4, <4>2
    <3> QED BY <1>0, <3>3, <3>4
  <2>3. CASE phase = "print" /\ codes > cur_code
    <3>1. /\ cur_code \in 1 .. n /\ 1 <= cur_code - num
          /\ codes \in cur_code - num .. cur_code + 1 /\ codes = cur_code + 1
      BY <1>0, <2>3, Where
    <3>2. Left = Printing(n, codes, cur_code, num) /\ codes' = codes
      BY <2>1, <2>3 DEF Left
    <3>3. /\ Dividing(n, codes, 0) < Left
          /\ Left \in 1 .. 6 * n + 1
      BY <1>0, <3>1, <3>2, PrintingBound
    <3>4. CASE codes <= n
      <4>1. phase' = "divide" BY <2>1, <3>2, <3>4
      <4>2. Left' = Dividing(n, codes, 0) BY <2>1, <3>2, <4>1 DEF Left
      <4> QED BY <3>3, <4>2
    <3>5. CASE ~ codes <= n
      <4>1. phase' = "done" BY <2>1, <3>2, <3>5
      <4>2. Left' = 0 BY <4>1 DEF Left
      <4> QED BY <1>0, <3>3, <4>2
    <3> QED BY <3>4, <3>5
  <2> QED BY <1>2, <2>2, <2>3 DEF NextBlock
<1>3. CASE Divide
  <2>1. /\ phase = "divide" /\ code' = code /\ codes' = codes
        /\ \/ phase' = "mark" /\ cur_code' = cur_code /\ num' = num
           \/ phase' = "divide" /\ num' = num + 1
    BY <1>3 DEF Divide
  <2>2. codes \in 1 .. n /\ codes + num <= n /\ cur_code = codes + num
    BY <2>1, Where
  <2>3. Left = Dividing(n, codes, num) BY <2>1 DEF Left
  <2>4. CASE phase' = "mark" /\ cur_code' = cur_code /\ num' = num
    <3>1. Left' = Marking(n, codes, codes + num, num) BY <2>1, <2>2, <2>4 DEF Left
    <3> QED BY <1>0, <2>2, <2>3, <3>1, DividingBound
  <2>5. CASE phase' = "divide" /\ num' = num + 1
    <3>1. Left' = Dividing(n, codes, num + 1) BY <2>1, <2>5 DEF Left
    <3> QED BY <1>0, <2>2, <2>3, <3>1, DividingBound
  <2> QED BY <2>1, <2>4, <2>5
<1>4. CASE Mark
  <2>1. /\ phase = "mark" /\ phase' = "mark" /\ code' = code /\ codes' = codes
        /\ num' = num /\ cur_code' = cur_code - 1
    BY <1>4 DEF Mark
  <2>2. /\ codes \in 1 .. n /\ codes + num <= n
        /\ cur_code \in codes - 1 .. codes + num
    BY <2>1, Where
  <2>3. /\ Left = Marking(n, codes, cur_code, num)
        /\ Left' = Marking(n, codes, cur_code - 1, num)
    BY <2>1 DEF Left
  <2> QED BY <1>0, <2>2, <2>3, MarkingBound
<1>5. CASE Marked
  <2>1. /\ phase = "mark" /\ phase' = "print" /\ code' = code /\ codes' = codes
        /\ num' = num /\ cur_code' = codes + num /\ cur_code < codes
    BY <1>5 DEF Marked
  <2>2. /\ codes \in 1 .. n /\ codes + num <= n
        /\ cur_code \in codes - 1 .. codes + num
    BY <2>1, Where
  <2>3. cur_code = codes - 1 BY <1>0, <2>1, <2>2
  <2>4. /\ Left = Marking(n, codes, cur_code, num)
        /\ Left' = Printing(n, codes, codes + num, num)
    BY <2>1 DEF Left
  <2> QED BY <1>0, <2>2, <2>3, <2>4, MarkingBound
<1>6. CASE PrintLine
  <2>1. /\ phase = "print" /\ phase' = "print" /\ code' = code /\ codes' = codes + 1
        /\ num' = num /\ cur_code' = cur_code
    BY <1>6 DEF PrintLine
  <2>2. /\ cur_code \in 1 .. n /\ 1 <= cur_code - num
        /\ codes \in cur_code - num .. cur_code + 1
    BY <2>1, Where
  <2>3. /\ Left = Printing(n, codes, cur_code, num)
        /\ Left' = Printing(n, codes + 1, cur_code, num)
    BY <2>1 DEF Left
  <2> QED BY <1>0, <2>2, <2>3, PrintingBound
<1> QED BY <1>1, <1>2, <1>3, <1>4, <1>5, <1>6 DEF Next

(* DividingBlock() and the loops in it come to an end for every program,   *)
(* after a number of steps that is linear in its length: every step uses   *)
(* up some of a natural number, and when it is used up the last line is    *)
(* printed.  What AllPrinted adds is that a step is taken while one can    *)
(* be.                                                                     *)
THEOREM PassesEnd == Spec => [](Bounded) /\ [][Left' < Left]_vars
<1>1. IInv => Bounded BY LeftFacts
<1>2. IInv /\ [Next]_vars => [Left' < Left]_vars BY LeftLess
<1> QED BY InitInv, StepInv, <1>1, <1>2, PTL DEF Spec
=============================================================================
