--------------------------- MODULE RegAllocProofs ---------------------------
(***************************************************************************)
(* Proofs about RegAlloc, for every number of registers, operands and      *)
(* instructions.                                                           *)
(***************************************************************************)
EXTENDS RegAlloc, FiniteSetTheorems, WellFoundedInduction, TLAPS

(* DescriptorSound of a generator state.                                   *)
Sound(s) == \A r \in Reg : s.reg[r] # None => s.reg_no[s.reg[r]] = r

Good(s) == s \in State /\ Sound(s)

-----------------------------------------------------------------------------
(* The register that the loops of allocate() end on exists.                *)

LEMMA LeastIn == ASSUME NEW R \in SUBSET Nat, R # {}
                 PROVE  Least(R) \in R /\ \A q \in R : Least(R) <= q
<1>1. \E r \in R : \A q \in R : ~ (<<q, r>> \in OpToRel(<, Nat))
  BY NatLessThanWellFounded, WFMin
<1>2. ASSUME NEW q \in Nat, NEW r \in Nat, q < r
      PROVE  <<q, r>> \in OpToRel(<, Nat)
  <2>1. <<q, r>> \in Nat \X Nat /\ <<q, r>>[1] < <<q, r>>[2]
    BY <1>2
  <2> QED BY <2>1, Zenon DEF OpToRel
<1>3. \E r \in R : \A q \in R : r <= q
  <2>1. PICK r \in R : \A q \in R : ~ (<<q, r>> \in OpToRel(<, Nat))
    BY <1>1
  <2>2. \A q \in R : ~ (q < r)
    BY <1>2, <2>1
  <2> QED BY <2>2
<1> QED BY <1>3 DEF Least

LEMMA FarthestExists ==
  ASSUME NEW s \in State, \A r \in Reg : s.reg[r] # None
  PROVE  Farthest(s) # {}
<1> DEFINE nxt(r) == s.nxt_code[s.reg[r]]
           T == {m \in Nat : \A r \in Reg : nxt(r) + 1 <= m}
<1>1. \A r \in Reg : nxt(r) \in -1 .. MaxLen - 1
  BY DEF State
<1>2. MaxLen \in T
  BY <1>1, LengthBound
<1>3. Least(T) \in T /\ \A m \in T : Least(T) <= m
  <2> HIDE DEF T
  <2>1. T \in SUBSET Nat BY DEF T
  <2> QED BY <1>2, <2>1, LeastIn
<1>4. 0 \in Reg
  BY RegisterNumbers DEF Reg
<1>5. CASE Least(T) = 0
  <2>1. \A r \in Reg : nxt(r) = -1
    <3>1. \A r \in Reg : nxt(r) + 1 <= 0 BY <1>3, <1>5
    <3> HIDE DEF nxt
    <3> QED BY <1>1, <3>1, LengthBound
  <2>2. 0 \in Farthest(s)
    BY <1>4, <2>1 DEF Farthest
  <2> QED BY <2>2
<1>6. CASE Least(T) # 0
  <2> DEFINE m == Least(T)
  <2>1. m \in Nat /\ m - 1 \in Nat /\ m - 1 \notin T
    <3>1. m \in Nat /\ m - 1 \in Nat BY <1>3, <1>6
    <3>2. ~ (m <= m - 1) BY <3>1
    <3> QED BY <1>3, <3>1, <3>2
  <2>2. PICK r \in Reg : ~ (nxt(r) + 1 <= m - 1)
    BY <2>1
  <2>3. \A q \in Reg : nxt(q) <= nxt(r)
    <3> SUFFICES ASSUME NEW q \in Reg PROVE nxt(q) <= nxt(r) OBVIOUS
    <3>1. nxt(q) + 1 <= m BY <1>3
    <3>2. nxt(q) \in Int /\ nxt(r) \in Int BY <1>1
    <3> HIDE DEF nxt, T, m
    <3> QED BY <2>1, <2>2, <3>1, <3>2
  <2> QED BY <2>3 DEF Farthest
<1> QED BY <1>5, <1>6

-----------------------------------------------------------------------------
(* Each operator keeps a good state good, and nxt_code as it is.           *)

LEMMA BindGood ==
  ASSUME NEW s, Good(s), NEW x \in Operand, NEW r \in Reg, s.reg_no[x] < 0
  PROVE  /\ Good(Bind(s, x, r)) /\ Bind(s, x, r).nxt_code = s.nxt_code
         /\ Bind(s, x, r).reg_no[x] = r
<1> DEFINE b == Bind(s, x, r)
<1>1. b \in State
  BY DEF Good, Bind, State
<1>2. /\ b.reg = [s.reg EXCEPT ![r] = x]
      /\ b.reg_no = [s.reg_no EXCEPT ![x] = r]
      /\ b.nxt_code = s.nxt_code
  BY DEF Good, Bind, State
<1>3. Sound(b)
  <2> SUFFICES ASSUME NEW q \in Reg, b.reg[q] # None
               PROVE  b.reg_no[b.reg[q]] = q
    BY DEF Sound
  <2>1. CASE q = r
    BY <1>2, <2>1 DEF Good, State
  <2>2. CASE q # r
    <3>1. b.reg[q] = s.reg[q] /\ s.reg_no[s.reg[q]] = q
      BY <1>2, <2>2 DEF Good, State, Sound
    <3>2. s.reg[q] # x
      BY <3>1 DEF Reg
    <3> QED BY <1>2, <3>1, <3>2 DEF Good, State
  <2> QED BY <2>1, <2>2
<1> QED BY <1>1, <1>2, <1>3 DEF Good, State

LEMMA UnbindGood ==
  ASSUME NEW s, Good(s), NEW X \in SUBSET Operand
  PROVE  /\ Good(Unbind(s, X)) /\ Unbind(s, X).nxt_code = s.nxt_code
         /\ \A y \in Operand : s.reg_no[y] < 0 => Unbind(s, X).reg_no[y] < 0
<1> DEFINE b == Unbind(s, X)
<1>1. b \in State
  BY DEF Good, Unbind, State
<1>2. /\ b.reg = [r \in Reg |-> IF \E x \in X : s.reg_no[x] = r
                                THEN None ELSE s.reg[r]]
      /\ b.reg_no = [x \in Operand |-> IF x \in X THEN -1 ELSE s.reg_no[x]]
      /\ b.nxt_code = s.nxt_code
  BY DEF Good, Unbind, State
<1>3. Sound(b)
  <2> SUFFICES ASSUME NEW q \in Reg, b.reg[q] # None
               PROVE  b.reg_no[b.reg[q]] = q
    BY DEF Sound
  <2>1. b.reg[q] = s.reg[q] /\ s.reg_no[s.reg[q]] = q
    BY <1>2 DEF Good, Sound
  <2>2. s.reg[q] \in Operand \ X
    BY <1>2, <2>1 DEF Good, State
  <2> QED BY <1>2, <2>1, <2>2
<1> QED BY <1>1, <1>2, <1>3 DEF Good

LEMMA SaveGood ==
  ASSUME NEW s, Good(s), NEW X \in SUBSET Operand
  PROVE  /\ Good(Save(s, X)) /\ Save(s, X).nxt_code = s.nxt_code
         /\ Save(s, X).reg_no = s.reg_no /\ Save(s, X).reg = s.reg
BY DEF Good, Sound, Save, State

LEMMA FreeGood ==
  ASSUME NEW s, Good(s), NEW X \in SUBSET Operand
  PROVE  /\ Good(Free(s, X)) /\ Free(s, X).nxt_code = s.nxt_code
         /\ \A y \in Operand : s.reg_no[y] < 0 => Free(s, X).reg_no[y] < 0
<1> DEFINE done == {x \in X : s.nxt_code[x] <= 0}
<1>1. done \in SUBSET Operand /\ done \cap Global \in SUBSET Operand
  OBVIOUS
<1> DEFINE a == Save(s, done \cap Global)
<1>2. Good(a) /\ a.nxt_code = s.nxt_code /\ a.reg_no = s.reg_no
  BY <1>1, SaveGood
<1> QED BY <1>1, <1>2, UnbindGood DEF Free

LEMMA AllocateGood ==
  ASSUME NEW s, Good(s), NEW x \in Operand
  PROVE  /\ Good(Allocate(s, x)) /\ Allocate(s, x).nxt_code = s.nxt_code
         /\ Allocate(s, x).reg_no[x] \in Reg
<1>1. s.reg_no[x] \in Reg \cup {-1}
  BY DEF Good, State
<1>2. CASE s.reg_no[x] >= 0
  BY <1>1, <1>2 DEF Allocate, Reg
<1>3. CASE s.reg_no[x] < 0 /\ FreeRegs(s) # {}
  <2>1. Least(FreeRegs(s)) \in Reg
    BY <1>3, LeastIn, RegisterNumbers DEF FreeRegs, Reg
  <2>2. Allocate(s, x) = Bind(s, x, Least(FreeRegs(s)))
    BY <1>1, <1>3 DEF Allocate, Reg
  <2>3. s.reg[Least(FreeRegs(s))] = None
    BY <1>3, LeastIn, RegisterNumbers DEF FreeRegs, Reg
  <2> QED BY <1>3, <2>1, <2>2, <2>3, BindGood
<1>4. CASE s.reg_no[x] < 0 /\ FreeRegs(s) = {} /\ DeadRegs(s) # {}
  <2> DEFINE r == Least(DeadRegs(s))
             a == Free(s, {s.reg[r]})
  <2>1. r \in Reg
    BY <1>4, LeastIn, RegisterNumbers DEF DeadRegs, Reg
  <2>2. s.reg[r] \in Operand
    BY <1>4, <2>1 DEF FreeRegs, Good, State
  <2>3. Good(a) /\ a.nxt_code = s.nxt_code /\ a.reg_no[x] < 0
    BY <1>4, <2>2, FreeGood
  <2>4. Allocate(s, x) = Bind(a, x, r)
    BY <1>1, <1>4 DEF Allocate, Reg
  <2> QED BY <1>4, <2>1, <2>3, <2>4, BindGood
<1>5. CASE s.reg_no[x] < 0 /\ FreeRegs(s) = {} /\ DeadRegs(s) = {}
  <2> DEFINE r == Least(Farthest(s))
             a == Save(s, {s.reg[r]})
  <2>1. Farthest(s) # {}
    BY <1>5, FarthestExists DEF FreeRegs, Good
  <2>2. r \in Reg
    BY <2>1, LeastIn, RegisterNumbers DEF Farthest, Reg
  <2>3. s.reg[r] \in Operand
    BY <1>5, <2>2 DEF FreeRegs, Good, State
  <2>4. Good(a) /\ a.nxt_code = s.nxt_code /\ a.reg_no[x] < 0
    BY <1>5, <2>3, SaveGood
  <2>5. Allocate(s, x) = Bind(a, x, r)
    BY <1>1, <1>5 DEF Allocate, Reg
  <2> QED BY <1>5, <2>2, <2>4, <2>5, BindGood
<1> QED BY <1>1, <1>2, <1>3, <1>4, <1>5 DEF Reg

LEMMA LoadGood ==
  ASSUME NEW s, Good(s), NEW x \in Operand
  PROVE  /\ Good(Load(s, x)) /\ Load(s, x).nxt_code = s.nxt_code
         /\ Load(s, x).reg_no = s.reg_no /\ Load(s, x).reg = s.reg
BY DEF Good, Sound, Load, State

LEMMA EnsureGood ==
  ASSUME NEW s, Good(s), NEW x \in Operand
  PROVE  Good(Ensure(s, x)) /\ Ensure(s, x).nxt_code = s.nxt_code
BY AllocateGood, LoadGood DEF Ensure

LEMMA ReadsGood ==
  ASSUME NEW s, Good(s), NEW x \in Operand, NEW r
  PROVE  Good(Reads(s, x, r)) /\ Reads(s, x, r).nxt_code = s.nxt_code
BY DEF Good, Sound, Reads, State

LEMMA WritesGood ==
  ASSUME NEW s, Good(s), NEW x \in Operand, NEW r
  PROVE  Good(Writes(s, x, r)) /\ Writes(s, x, r).nxt_code = s.nxt_code
BY DEF Good, Sound, Writes, State

-----------------------------------------------------------------------------
(* So does each printer.                                                   *)

LEMMA DefineGood ==
  ASSUME NEW s, Good(s), NEW d \in Operand
  PROVE  Good(PrintDefine(s, d)) /\ PrintDefine(s, d).nxt_code = s.nxt_code
BY AllocateGood, WritesGood DEF PrintDefine

LEMMA CopyGood ==
  ASSUME NEW s, Good(s), NEW d \in Operand, NEW u \in Operand
  PROVE  Good(PrintCopy(s, d, u)) /\ PrintCopy(s, d, u).nxt_code = s.nxt_code
<1> DEFINE a == Allocate(s, d)
           b == Ensure(a, u)
           c == Reads(b, u, b.reg_no[u])
           e == Writes(c, d, a.reg_no[d])
<1>1. Good(a) /\ a.nxt_code = s.nxt_code BY AllocateGood
<1>2. Good(b) /\ b.nxt_code = s.nxt_code BY <1>1, EnsureGood
<1>3. Good(c) /\ c.nxt_code = s.nxt_code BY <1>2, ReadsGood
<1>4. Good(e) /\ e.nxt_code = s.nxt_code BY <1>3, WritesGood
<1> QED BY <1>4, FreeGood DEF PrintCopy

LEMMA StoreGood ==
  ASSUME NEW s, Good(s), NEW p \in Operand, NEW u \in Operand
  PROVE  Good(PrintStore(s, p, u)) /\ PrintStore(s, p, u).nxt_code = s.nxt_code
<1> DEFINE a == Allocate(s, p)
           b == Ensure(a, u)
           c == Reads(b, p, a.reg_no[p])
           e == Reads(c, u, b.reg_no[u])
<1>1. Good(a) /\ a.nxt_code = s.nxt_code BY AllocateGood
<1>2. Good(b) /\ b.nxt_code = s.nxt_code BY <1>1, EnsureGood
<1>3. Good(c) /\ c.nxt_code = s.nxt_code BY <1>2, ReadsGood
<1>4. Good(e) /\ e.nxt_code = s.nxt_code BY <1>3, ReadsGood
<1> QED BY <1>4, FreeGood DEF PrintStore

LEMMA AddGood ==
  ASSUME NEW s, Good(s), NEW d \in Operand, NEW u \in Operand, NEW w \in Operand
  PROVE  /\ Good(PrintAdd(s, d, u, w))
         /\ PrintAdd(s, d, u, w).nxt_code = s.nxt_code
<1> DEFINE a == Ensure(s, u)
           b == Allocate(a, d)
           c == IF w \in Const THEN b ELSE Ensure(b, w)
           e == IF w \in Const THEN c ELSE Reads(c, w, c.reg_no[w])
           f == Writes(Reads(e, u, a.reg_no[u]), d, b.reg_no[d])
           h == IF w \in Const THEN f ELSE Free(f, {w})
<1>1. Good(a) /\ a.nxt_code = s.nxt_code BY EnsureGood
<1>2. Good(b) /\ b.nxt_code = s.nxt_code BY <1>1, AllocateGood
<1>3. Good(c) /\ c.nxt_code = s.nxt_code BY <1>2, EnsureGood
<1>4. Good(e) /\ e.nxt_code = s.nxt_code BY <1>3, ReadsGood
<1>5. Good(f) /\ f.nxt_code = s.nxt_code BY <1>4, ReadsGood, WritesGood
<1>6. Good(h) /\ h.nxt_code = s.nxt_code BY <1>5, FreeGood
<1>7. PrintAdd(s, d, u, w) = Free(h, {u}) BY DEF PrintAdd
<1> QED BY <1>6, <1>7, FreeGood

LEMMA MulGood ==
  ASSUME NEW s, Good(s), NEW d \in Operand, NEW u \in Operand, NEW w \in Operand
  PROVE  /\ Good(PrintMul(s, d, u, w))
         /\ PrintMul(s, d, u, w).nxt_code = s.nxt_code
<1> DEFINE a == Ensure(s, u)
           b == Allocate(a, d)
           c == Ensure(b, w)
           e == Reads(Reads(c, w, c.reg_no[w]), u, a.reg_no[u])
           f == Writes(e, d, b.reg_no[d])
           h == Free(f, {u})
<1>1. Good(a) /\ a.nxt_code = s.nxt_code BY EnsureGood
<1>2. Good(b) /\ b.nxt_code = s.nxt_code BY <1>1, AllocateGood
<1>3. Good(c) /\ c.nxt_code = s.nxt_code BY <1>2, EnsureGood
<1>4. Good(e) /\ e.nxt_code = s.nxt_code BY <1>3, ReadsGood
<1>5. Good(f) /\ f.nxt_code = s.nxt_code BY <1>4, WritesGood
<1>6. Good(h) /\ h.nxt_code = s.nxt_code BY <1>5, FreeGood
<1>7. PrintMul(s, d, u, w) = Free(h, {w}) BY DEF PrintMul
<1> QED BY <1>6, <1>7, FreeGood

LEMMA WriteGood ==
  ASSUME NEW s, Good(s), NEW u \in Operand
  PROVE  Good(PrintWrite(s, u)) /\ PrintWrite(s, u).nxt_code = s.nxt_code
BY EnsureGood, ReadsGood, FreeGood DEF PrintWrite

(* The operands found in a set of registers are operands. *)
LEMMA Occupants ==
  ASSUME NEW s, Good(s), NEW R \in SUBSET Reg
  PROVE  {s.reg[r] : r \in R} \ {None} \in SUBSET Operand
BY DEF Good, State

LEMMA LowRegisters == 0 .. S7 - 1 \in SUBSET Reg /\ 0 .. T9 - 1 \in SUBSET Reg
BY RegisterNumbers DEF Reg

LEMMA ReturnGood ==
  ASSUME NEW s, Good(s), NEW u \in Operand
  PROVE  Good(PrintReturn(s, u)) /\ PrintReturn(s, u).nxt_code = s.nxt_code
<1> DEFINE a == PrintWrite(s, u)
           X == {a.reg[r] : r \in 0 .. S7 - 1} \ {None}
           b == Unbind(a, X)
<1>1. Good(a) /\ a.nxt_code = s.nxt_code BY WriteGood
<1>2. X \in SUBSET Operand BY <1>1, Occupants, LowRegisters
<1>3. Good(b) /\ b.nxt_code = s.nxt_code
  <2> HIDE DEF X, a
  <2> QED BY <1>1, <1>2, UnbindGood
<1>4. PrintReturn(s, u) = [b EXCEPT !.dead = TRUE] BY DEF PrintReturn
<1> HIDE DEF b
<1> QED BY <1>3, <1>4 DEF Good, State, Sound

LEMMA BranchGood ==
  ASSUME NEW s, Good(s), NEW x \in Operand, NEW y \in Operand,
         NEW first \in Operand, NEW second \in Operand
  PROVE  /\ Good(PrintBranch(s, x, y, first, second))
         /\ PrintBranch(s, x, y, first, second).nxt_code = s.nxt_code
<1> DEFINE others == {s.reg[r] : r \in 0 .. S7 - 1} \ {None, x, y}
           f == Free(s, others)
           a == Ensure(f, first)
           b == Ensure(a, second)
           c == Reads(Reads(b, first, a.reg_no[first]), second, b.reg_no[second])
           e == [c EXCEPT !.edge = c.home]
<1>1. others \in SUBSET Operand BY Occupants, LowRegisters
<1>2. Good(f) /\ f.nxt_code = s.nxt_code
  <2> HIDE DEF others
  <2> QED BY <1>1, FreeGood
<1>3. Good(a) /\ a.nxt_code = s.nxt_code BY <1>2, EnsureGood
<1>4. Good(b) /\ b.nxt_code = s.nxt_code BY <1>3, EnsureGood
<1>5. Good(c) /\ c.nxt_code = s.nxt_code BY <1>4, ReadsGood
<1>6. Good(e) /\ e.nxt_code = s.nxt_code
  <2> HIDE DEF c
  <2> QED BY <1>5 DEF Good, State, Sound
<1>7. Good(Free(e, {x})) /\ Free(e, {x}).nxt_code = s.nxt_code
  BY <1>6, FreeGood
<1>8. PrintBranch(s, x, y, first, second) = Free(Free(e, {x}), {y})
  BY DEF PrintBranch
<1> QED BY <1>7, <1>8, FreeGood

LEMMA CallSaveGood ==
  ASSUME NEW s, Good(s), NEW args
  PROVE  Good(CallSave(s, args)) /\ CallSave(s, args).nxt_code = s.nxt_code
<1> DEFINE X == {x \in {s.reg[r] : r \in 0 .. S7 - 1} \ {None} :
                    x \in args => s.nxt_code[x] > 0}
           a == Save(s, X)
           b == Unbind(a, X)
<1>1. X \in SUBSET Operand BY Occupants, LowRegisters
<1>2. Good(a) /\ a.nxt_code = s.nxt_code
  <2> HIDE DEF X
  <2> QED BY <1>1, SaveGood
<1>3. Good(b) /\ b.nxt_code = s.nxt_code
  <2> HIDE DEF X, a
  <2> QED BY <1>1, <1>2, UnbindGood
<1>4. CallSave(s, args) = [b EXCEPT !.st_lk = TRUE] BY DEF CallSave
<1> HIDE DEF b
<1> QED BY <1>3, <1>4 DEF Good, State, Sound

LEMMA CallPassGood ==
  ASSUME NEW s, Good(s), NEW u \in Operand
  PROVE  Good(CallPass(s, u)) /\ CallPass(s, u).nxt_code = s.nxt_code
BY EnsureGood, ReadsGood DEF CallPass

LEMMA CallJumpGood ==
  ASSUME NEW s, Good(s), NEW d \in Operand
  PROVE  Good(CallJump(s, d)) /\ CallJump(s, d).nxt_code = s.nxt_code
<1> DEFINE X == {s.reg[r] : r \in 0 .. T9 - 1} \ {None}
           b == Unbind(s, X)
           a == [b EXCEPT !.st_lk = FALSE, !.holds = [r \in Reg |-> None]]
<1>1. X \in SUBSET Operand BY Occupants, LowRegisters
<1>2. Good(b) /\ b.nxt_code = s.nxt_code
  <2> HIDE DEF X
  <2> QED BY <1>1, UnbindGood
<1>3. Good(a) /\ a.nxt_code = s.nxt_code
  <2> HIDE DEF b
  <2> QED BY <1>2 DEF Good, State, Sound
<1> QED BY <1>3, DefineGood DEF CallJump

-----------------------------------------------------------------------------
(* The inductive invariant.  Beside the descriptors it needs: a next       *)
(* mention lies ahead, so that everything is released at the end of the    *)
(* block, and only what the block has mentioned has one; the registers are *)
(* empty there, so that the temporaries of the next block start without    *)
(* one; a call has a result to define.                                     *)
NextAhead ==
    /\ \A x \in Operand : g.nxt_code[x] = -1 \/ g.nxt_code[x] >= idx
    /\ \A x \in Operand \ touched : g.nxt_code[x] = -1

IInv ==
    /\ TypeOK
    /\ Good(g)
    /\ NextAhead
    /\ ExitsEmpty
    /\ at = "passing" => last \in Tmp

(* What an instruction that mentions M leaves of nxt_code. *)
NextOf(n, M) ==
    /\ \A x \in Operand : n[x] = -1 \/ n[x] >= idx + 1
    /\ \A x \in Operand \ (touched \cup M) : n[x] = -1

LEMMA AnnotationsAhead ==
  ASSUME IInv, NEW uses \in SUBSET Operand, NEW M, uses \subseteq M,
         idx < MaxLen, Promised \subseteq uses, NEW n \in Annotations(M)
  PROVE  /\ Good(Annotated(n)) /\ Annotated(n).nxt_code = n
         /\ NextOf(n, M)
<1>1. PICK f \in [M -> {-1} \cup (idx + 1 .. MaxLen - 1)] :
        n = [x \in Operand |-> IF x \in M THEN f[x] ELSE g.nxt_code[x]]
  BY DEF Annotations
<1>2. idx \in Nat /\ MaxLen \in Nat
  BY LengthBound DEF IInv, TypeOK
<1>3. ASSUME NEW x \in Operand
      PROVE  n[x] \in -1 .. MaxLen - 1 /\ (n[x] = -1 \/ n[x] >= idx + 1)
  <2>1. CASE x \in M
    BY <1>1, <1>2, <2>1
  <2>2. CASE x \notin M
    <3>1. n[x] = g.nxt_code[x] /\ n[x] \in -1 .. MaxLen - 1
      BY <1>1, <2>2 DEF IInv, Good, State
    <3>2. n[x] # idx
      BY <3>1, <2>2 DEF Promised
    <3> QED BY <1>2, <3>1, <3>2 DEF IInv, NextAhead
  <2> QED BY <2>1, <2>2
<1>4. n \in [Operand -> -1 .. MaxLen - 1]
  BY <1>1, <1>3
<1>5. Good(Annotated(n)) /\ Annotated(n).nxt_code = n
  BY <1>4 DEF IInv, Good, Annotated, State, Sound
<1>6. \A x \in Operand \ (touched \cup M) : n[x] = -1
  BY <1>1 DEF IInv, NextAhead
<1> QED BY <1>3, <1>5, <1>6 DEF NextOf

(* The same for an instruction whose operands are not mentioned again. *)
LEMMA LastMention ==
  ASSUME IInv, NEW uses \in SUBSET Operand, NEW n \in [Operand -> -1 .. MaxLen - 1],
         idx < MaxLen, Promised \subseteq uses,
         \A x \in uses : n[x] = -1,
         \A x \in Operand \ uses : n[x] = g.nxt_code[x]
  PROVE  /\ Good(Annotated(n)) /\ Annotated(n).nxt_code = n
         /\ NextOf(n, uses)
<1>1. Good(Annotated(n)) /\ Annotated(n).nxt_code = n
  BY DEF IInv, Good, Annotated, State, Sound
<1>2. ASSUME NEW x \in Operand \ uses PROVE n[x] = -1 \/ n[x] >= idx + 1
  <2>1. n[x] # idx BY DEF Promised
  <2>2. n[x] \in -1 .. MaxLen - 1 /\ idx \in Nat BY DEF IInv, TypeOK
  <2> QED BY <2>1, <2>2, LengthBound DEF IInv, NextAhead
<1>3. \A x \in Operand \ (touched \cup uses) : n[x] = -1
  BY DEF IInv, NextAhead
<1> QED BY <1>1, <1>2, <1>3 DEF NextOf

(* What Mentions() leaves of the other conjuncts. *)
LEMMA MentionsType ==
  ASSUME IInv, NEW uses \in SUBSET Operand, NEW d,
         \/ d \in Operand /\ Mentions(uses, {d})
         \/ d = None /\ Mentions(uses, {})
  PROVE  /\ idx < MaxLen /\ Promised \subseteq uses /\ at = "block"
         /\ idx' = idx + 1 /\ idx' \in 0 .. MaxLen
         /\ touched' \subseteq Operand /\ touched \cup uses \subseteq touched'
         /\ last' = d /\ (d \in Operand => d \in touched')
<1>1. idx \in Nat /\ (idx + 1 \in 0 .. MaxLen \/ ~ (idx < MaxLen))
  BY LengthBound DEF IInv, TypeOK
<1>2. None \notin Operand BY OperandKinds DEF Operand, Tmp
<1> QED BY <1>1, <1>2 DEF IInv, TypeOK, Mentions

(* A straight-line instruction: its printer keeps the state good and the   *)
(* annotations, so the whole invariant holds again.                        *)
LEMMA StraightStep ==
  ASSUME IInv, NEW uses \in SUBSET Operand, NEW d,
         \/ d \in Operand /\ Mentions(uses, {d})
         \/ d = None /\ Mentions(uses, {}),
         Straight, Good(g'), NEW M, M \subseteq touched',
         NextOf(g'.nxt_code, M)
  PROVE  IInv'
<1>1. /\ at = "block" /\ at' = "block" /\ idx' = idx + 1
      /\ idx' \in 0 .. MaxLen /\ touched' \subseteq Operand
      /\ last' \in Operand \cup {None}
  BY MentionsType DEF Straight
<1>2. TypeOK'
  BY <1>1 DEF IInv, TypeOK, Straight, Good
<1>3. NextAhead'
  <2>1. touched \subseteq touched' BY MentionsType
  <2> QED BY <1>1, <2>1 DEF NextAhead, NextOf
<1> QED BY <1>1, <1>2, <1>3 DEF IInv, ExitsEmpty

LEMMA InitInv == Init => IInv
<1> SUFFICES ASSUME Init PROVE IInv OBVIOUS
<1>0. Global \subseteq Operand
  BY DEF Global, Operand, Tmp
<1>1. /\ g.reg = [r \in Reg |-> None]
      /\ g.reg_no = [x \in Operand |-> -1]
      /\ g.nxt_code = [x \in Operand |-> -1]
  BY DEF Init
<1>2. g \in State
  BY <1>0, LengthBound DEF Init, State
<1>3. Sound(g)
  BY <1>1 DEF Sound
<1>4. TypeOK
  BY <1>2, LengthBound DEF Init, TypeOK
<1> QED BY <1>1, <1>2, <1>3, <1>4 DEF Init, IInv, Good, NextAhead, ExitsEmpty

(* The straight-line instructions, one step for each. *)
LEMMA StraightInv ==
  ASSUME IInv,
         \/ \E d \in Var \cup Tmp : Define(d)
         \/ \E d, u \in Var \cup Tmp : Copy(d, u)
         \/ \E p, u \in Tmp : Store(p, u)
         \/ \E d, u, w \in Tmp : Binary(d, u, w)
         \/ \E d, w \in Tmp, c \in Const : Negate(d, c, w)
         \/ \E t \in Tmp, c \in Const : Scale(t, c)
         \/ \E p \in Tmp, w \in Tmp \cup Const : Displace(p, w)
         \/ \E u \in Tmp : Write(u) \/ Return(u)
  PROVE  IInv'
<1> Var \cup Tmp \subseteq Operand /\ Tmp \subseteq Operand /\ Const \subseteq Operand
  BY DEF Operand
<1>1. ASSUME NEW d \in Var \cup Tmp, Define(d) PROVE IInv'
  <2>1. idx < MaxLen /\ Promised \subseteq {} /\ {d} \subseteq touched'
    <3>1. Mentions({}, {d}) /\ d \in Operand /\ {} \in SUBSET Operand BY <1>1 DEF Define
    <3> QED BY <3>1, MentionsType
  <2>2. PICK n \in Annotations({d}) : g' = PrintDefine(Annotated(n), d)
    BY <1>1 DEF Define
  <2>3. /\ Good(Annotated(n)) /\ Annotated(n).nxt_code = n
        /\ NextOf(n, {d})
    BY <2>1, AnnotationsAhead
  <2>4. Good(g') /\ g'.nxt_code = n BY <2>2, <2>3, DefineGood
  <2> QED BY <1>1, <2>1, <2>3, <2>4, StraightStep DEF Define
<1>2. ASSUME NEW d \in Var \cup Tmp, NEW u \in Var \cup Tmp, Copy(d, u)
      PROVE  IInv'
  <2>1. idx < MaxLen /\ Promised \subseteq {u} /\ {u, d} \subseteq touched'
    BY <1>2, MentionsType DEF Copy
  <2>2. PICK n \in Annotations({u, d}) : g' = PrintCopy(Annotated(n), d, u)
    BY <1>2 DEF Copy
  <2>3. /\ Good(Annotated(n)) /\ Annotated(n).nxt_code = n
        /\ NextOf(n, {u, d})
    BY <2>1, AnnotationsAhead
  <2>4. Good(g') /\ g'.nxt_code = n BY <2>2, <2>3, CopyGood
  <2> QED BY <1>2, <2>1, <2>3, <2>4, StraightStep DEF Copy
<1>3. ASSUME NEW p \in Tmp, NEW u \in Tmp, Store(p, u) PROVE IInv'
  <2>1. idx < MaxLen /\ Promised \subseteq {p, u} /\ {p, u} \subseteq touched'
    BY <1>3, MentionsType DEF Store
  <2>2. PICK n \in Annotations({p, u}) : g' = PrintStore(Annotated(n), p, u)
    BY <1>3 DEF Store
  <2>3. /\ Good(Annotated(n)) /\ Annotated(n).nxt_code = n
        /\ NextOf(n, {p, u})
    BY <2>1, AnnotationsAhead
  <2>4. Good(g') /\ g'.nxt_code = n BY <2>2, <2>3, StoreGood
  <2> QED BY <1>3, <2>1, <2>3, <2>4, StraightStep DEF Store
<1>4. ASSUME NEW d \in Tmp, NEW u \in Tmp, NEW w \in Tmp, Binary(d, u, w)
      PROVE  IInv'
  <2>1. idx < MaxLen /\ Promised \subseteq {u, w} /\ {d, u, w} \subseteq touched'
    <3>1. Mentions({u, w}, {d}) /\ d \in Operand /\ {u, w} \in SUBSET Operand BY <1>4 DEF Binary
    <3> QED BY <3>1, MentionsType
  <2>2. PICK n \in Annotations({d, u, w}) :
          \/ g' = PrintAdd(Annotated(n), d, u, w)
          \/ g' = PrintMul(Annotated(n), d, u, w)
    BY <1>4 DEF Binary
  <2>3. /\ Good(Annotated(n)) /\ Annotated(n).nxt_code = n
        /\ NextOf(n, {d, u, w})
    BY <2>1, AnnotationsAhead
  <2>4. Good(g') /\ g'.nxt_code = n
    <3>1. CASE g' = PrintAdd(Annotated(n), d, u, w) BY <2>3, <3>1, AddGood
    <3>2. CASE g' = PrintMul(Annotated(n), d, u, w) BY <2>3, <3>2, MulGood
    <3> QED BY <2>2, <3>1, <3>2
  <2> QED BY <1>4, <2>1, <2>3, <2>4, StraightStep DEF Binary
<1>5. ASSUME NEW d \in Tmp, NEW w \in Tmp, NEW c \in Const, Negate(d, c, w)
      PROVE  IInv'
  <2>1. idx < MaxLen /\ Promised \subseteq {c, w} /\ {d, c, w} \subseteq touched'
    <3>1. Mentions({c, w}, {d}) /\ d \in Operand /\ {c, w} \in SUBSET Operand BY <1>5 DEF Negate
    <3> QED BY <3>1, MentionsType
  <2>2. PICK n \in Annotations({d, c, w}) : g' = PrintAdd(Annotated(n), d, c, w)
    BY <1>5 DEF Negate
  <2>3. /\ Good(Annotated(n)) /\ Annotated(n).nxt_code = n
        /\ NextOf(n, {d, c, w})
    BY <2>1, AnnotationsAhead
  <2>4. Good(g') /\ g'.nxt_code = n BY <2>2, <2>3, AddGood
  <2> QED BY <1>5, <2>1, <2>3, <2>4, StraightStep DEF Negate
<1>6. ASSUME NEW t \in Tmp, NEW c \in Const, Scale(t, c) PROVE IInv'
  <2>1. idx < MaxLen /\ Promised \subseteq {t, c} /\ {t, c} \subseteq touched'
    BY <1>6, MentionsType DEF Scale
  <2>2. PICK n \in Annotations({t, c}) : g' = PrintMul(Annotated(n), t, t, c)
    BY <1>6 DEF Scale
  <2>3. /\ Good(Annotated(n)) /\ Annotated(n).nxt_code = n
        /\ NextOf(n, {t, c})
    BY <2>1, AnnotationsAhead
  <2>4. Good(g') /\ g'.nxt_code = n BY <2>2, <2>3, MulGood
  <2> QED BY <1>6, <2>1, <2>3, <2>4, StraightStep DEF Scale
<1>7. ASSUME NEW p \in Tmp, NEW w \in Tmp \cup Const, Displace(p, w) PROVE IInv'
  <2>1. idx < MaxLen /\ Promised \subseteq {p, w} /\ {p, w} \subseteq touched'
    BY <1>7, MentionsType DEF Displace
  <2>2. PICK n \in Annotations({p, w}) : g' = PrintAdd(Annotated(n), p, p, w)
    BY <1>7 DEF Displace
  <2>3. /\ Good(Annotated(n)) /\ Annotated(n).nxt_code = n
        /\ NextOf(n, {p, w})
    BY <2>1, AnnotationsAhead
  <2>4. Good(g') /\ g'.nxt_code = n BY <2>2, <2>3, AddGood
  <2> QED BY <1>7, <2>1, <2>3, <2>4, StraightStep DEF Displace
<1>8. ASSUME NEW u \in Tmp, Write(u) PROVE IInv'
  <2>1. idx < MaxLen /\ Promised \subseteq {u} /\ {u} \subseteq touched'
    BY <1>8, MentionsType DEF Write
  <2>2. PICK n \in Annotations({u}) : g' = PrintWrite(Annotated(n), u)
    BY <1>8 DEF Write
  <2>3. /\ Good(Annotated(n)) /\ Annotated(n).nxt_code = n
        /\ NextOf(n, {u})
    BY <2>1, AnnotationsAhead
  <2>4. Good(g') /\ g'.nxt_code = n BY <2>2, <2>3, WriteGood
  <2> QED BY <1>8, <2>1, <2>3, <2>4, StraightStep DEF Write
<1>9. ASSUME NEW u \in Tmp, Return(u) PROVE IInv'
  <2> DEFINE n == [g.nxt_code EXCEPT ![u] = -1]
  <2>1. idx < MaxLen /\ Promised \subseteq {u} /\ {u} \subseteq touched'
    BY <1>9, MentionsType DEF Return
  <2>2. /\ n \in [Operand -> -1 .. MaxLen - 1]
        /\ \A x \in {u} : n[x] = -1
        /\ {u} \in SUBSET Operand
        /\ \A x \in Operand \ {u} : n[x] = g.nxt_code[x]
    BY LengthBound DEF IInv, Good, State
  <2> HIDE DEF n
  <2>3. /\ Good(Annotated(n)) /\ Annotated(n).nxt_code = n
        /\ NextOf(n, {u})
    BY <2>1, <2>2, LastMention
  <2>4. g' = PrintReturn(Annotated(n), u) BY <1>9 DEF Return, n
  <2>5. Good(g') /\ g'.nxt_code = n BY <2>3, <2>4, ReturnGood
  <2> QED BY <1>9, <2>1, <2>3, <2>5, StraightStep DEF Return
<1> QED BY <1>1, <1>2, <1>3, <1>4, <1>5, <1>6, <1>7, <1>8, <1>9

(* The jump, the parts of a call, and the block boundaries. *)
LEMMA OtherInv ==
  ASSUME IInv,
         \/ \E x \in Tmp, y \in Tmp \cup Const : Branch(x, y)
         \/ \E u \in Tmp : Arg(u)
         \/ \E d \in Tmp : Call(d)
         \/ PassArg \/ Jump \/ EndBlock \/ EnterBlock
  PROVE  IInv'
<1> Tmp \subseteq Operand /\ Const \subseteq Operand
  BY DEF Operand
<1>1. ASSUME NEW x \in Tmp, NEW y \in Tmp \cup Const, Branch(x, y) PROVE IInv'
  <2> DEFINE n == [g.nxt_code EXCEPT ![x] = -1, ![y] = -1]
  <2>1. /\ idx < MaxLen /\ Promised \subseteq {x, y} /\ last' = None
        /\ idx' = idx + 1 /\ idx' \in 0 .. MaxLen /\ touched' \subseteq Operand
        /\ touched \cup {x, y} \subseteq touched'
    <3>1. Mentions({x, y}, {}) BY <1>1 DEF Branch
    <3> QED BY <3>1, MentionsType
  <2>2. /\ n \in [Operand -> -1 .. MaxLen - 1]
        /\ \A z \in {x, y} : n[z] = -1
        /\ {x, y} \in SUBSET Operand
        /\ \A z \in Operand \ {x, y} : n[z] = g.nxt_code[z]
    BY LengthBound DEF IInv, Good, State
  <2> HIDE DEF n
  <2>3. /\ Good(Annotated(n)) /\ Annotated(n).nxt_code = n
        /\ NextOf(n, {x, y})
    BY <2>1, <2>2, LastMention
  <2>4. \/ g' = PrintBranch(Annotated(n), x, y, x, y)
        \/ g' = PrintBranch(Annotated(n), x, y, y, x)
    BY <1>1 DEF Branch, n
  <2>5. x \in Operand /\ y \in Operand
    OBVIOUS
  <2>6. Good(g') /\ g'.nxt_code = n
    <3>1. CASE g' = PrintBranch(Annotated(n), x, y, x, y)
      BY <2>3, <2>5, <3>1, BranchGood
    <3>2. CASE g' = PrintBranch(Annotated(n), x, y, y, x)
      BY <2>3, <2>5, <3>2, BranchGood
    <3> QED BY <2>4, <3>1, <3>2
  <2>7. TypeOK'
    BY <1>1, <2>1, <2>6 DEF IInv, TypeOK, Branch, Good
  <2> QED BY <1>1, <2>1, <2>3, <2>6, <2>7 DEF IInv, NextAhead, NextOf, ExitsEmpty, Branch
<1>2. ASSUME NEW u \in Tmp, Arg(u) PROVE IInv'
  <2> DEFINE n == [g.nxt_code EXCEPT ![u] = -1]
  <2>1. /\ idx < MaxLen /\ Promised \subseteq {u} /\ last' = None /\ at = "block"
        /\ idx' = idx + 1 /\ idx' \in 0 .. MaxLen /\ touched' \subseteq Operand
        /\ touched \cup {u} \subseteq touched'
    <3>1. Mentions({u}, {}) BY <1>2 DEF Arg
    <3> QED BY <3>1, MentionsType
  <2>2. /\ n \in [Operand -> -1 .. MaxLen - 1]
        /\ \A z \in {u} : n[z] = -1
        /\ {u} \in SUBSET Operand
        /\ \A z \in Operand \ {u} : n[z] = g.nxt_code[z]
    BY LengthBound DEF IInv, Good, State
  <2> HIDE DEF n
  <2>3. /\ Good(Annotated(n)) /\ Annotated(n).nxt_code = n
        /\ NextOf(n, {u})
    BY <2>1, <2>2, LastMention
  <2>4. g' = Annotated(n) BY <1>2 DEF Arg, n
  <2>5. TypeOK'
    <3>1. arg_list' \in Seq(Tmp) BY <1>2 DEF IInv, TypeOK, Arg
    <3> QED BY <1>2, <2>1, <2>3, <2>4, <3>1 DEF IInv, TypeOK, Arg, Good
  <2> QED BY <1>2, <2>1, <2>3, <2>4, <2>5 DEF IInv, NextAhead, NextOf, ExitsEmpty, Arg
<1>3. ASSUME NEW d \in Tmp, Call(d) PROVE IInv'
  <2>1. /\ idx < MaxLen /\ Promised \subseteq {}
        /\ idx' = idx + 1 /\ idx' \in 0 .. MaxLen /\ touched' \subseteq Operand
        /\ last' = d /\ touched \cup {d} \subseteq touched'
    <3>1. Mentions({}, {d}) BY <1>3 DEF Call
    <3>2. idx < MaxLen /\ Promised \subseteq {} /\ idx' = idx + 1
      BY <3>1 DEF Mentions
    <3>3. idx' \in 0 .. MaxLen
      BY <3>2, LengthBound DEF IInv, TypeOK
    <3>4. touched' \subseteq Operand /\ last' = d /\ touched \cup {d} \subseteq touched'
      BY <3>1 DEF Mentions, IInv, TypeOK
    <3> QED BY <3>2, <3>3, <3>4
  <2> DEFINE args == {arg_list[i] : i \in DOMAIN arg_list}
  <2>2. PICK n \in Annotations({d}) : g' = CallSave(Annotated(n), args)
    BY <1>3 DEF Call
  <2> HIDE DEF args
  <2>3. /\ Good(Annotated(n)) /\ Annotated(n).nxt_code = n
        /\ NextOf(n, {d})
    BY <2>1, AnnotationsAhead
  <2>4. Good(g') /\ g'.nxt_code = n
    BY <2>2, <2>3, CallSaveGood
  <2>5. TypeOK'
    BY <1>3, <2>1, <2>4 DEF IInv, TypeOK, Call, Good
  <2> QED BY <1>3, <2>1, <2>3, <2>4, <2>5 DEF IInv, NextAhead, NextOf, ExitsEmpty, Call
<1>4. CASE PassArg
  <2>1. Head(arg_list) \in Operand /\ Tail(arg_list) \in Seq(Tmp)
    BY <1>4 DEF PassArg, IInv, TypeOK
  <2>2. Good(g') /\ g'.nxt_code = g.nxt_code
    BY <1>4, <2>1, CallPassGood DEF PassArg, IInv
  <2> QED BY <1>4, <2>1, <2>2
      DEF PassArg, IInv, TypeOK, Good, NextAhead, ExitsEmpty
<1>5. CASE Jump
  <2>1. Good(g') /\ g'.nxt_code = g.nxt_code
    BY <1>5, CallJumpGood DEF Jump, IInv
  <2> QED BY <1>5, <2>1 DEF Jump, IInv, TypeOK, Good, NextAhead, ExitsEmpty
<1>6. CASE EndBlock
  <2> DEFINE X == {g.reg[r] : r \in Reg} \ {None}
             a == Save(g, {x \in X : g.nxt_code[x] <= 0} \cap Global)
  <2>1. X \in SUBSET Operand
    BY Occupants DEF IInv
  <2>2. \A x \in X : g.nxt_code[x] = -1
    <3>1. \A x \in Operand : g.nxt_code[x] \in -1 .. MaxLen - 1 /\ idx \in Nat
      BY DEF IInv, TypeOK, Good, State
    <3> QED BY <1>6, <2>1, <3>1 DEF EndBlock, IInv, NextAhead
  <2>3. g' = Free(g, X)
    BY <1>6 DEF EndBlock
  <2>4. \A r \in Reg : g.reg[r] # None => g.reg[r] \in X /\ g.reg_no[g.reg[r]] = r
    BY DEF IInv, Good, Sound
  <2>5. {x \in X : g.nxt_code[x] <= 0} = X
    BY <2>2
  <2>6. Good(g') /\ g'.nxt_code = g.nxt_code
    <3> HIDE DEF X
    <3> QED BY <2>1, <2>3, FreeGood DEF IInv
  <2>7. g' = Unbind(Save(g, X \cap Global), X)
    <3> HIDE DEF X
    <3> QED BY <2>3, <2>5 DEF Free
  <2>8. \A r \in Reg : g'.reg[r] = None
    <3> DEFINE b == Save(g, X \cap Global)
    <3>1. b.reg = g.reg /\ b.reg_no = g.reg_no /\ Good(b)
      <4> HIDE DEF X
      <4>1. X \cap Global \in SUBSET Operand BY <2>1
      <4> QED BY <4>1, SaveGood DEF IInv
    <3>2. g'.reg = [r \in Reg |-> IF \E x \in X : b.reg_no[x] = r
                                  THEN None ELSE b.reg[r]]
      <4> HIDE DEF X, b
      <4>1. b \in State /\ g' = Unbind(b, X) BY <2>7, <3>1 DEF Good, b
      <4> QED BY <4>1 DEF Unbind, State
    <3> HIDE DEF X, b
    <3> QED BY <2>4, <3>1, <3>2
  <2> HIDE DEF X, a
  <2> QED BY <1>6, <2>6, <2>8
      DEF EndBlock, IInv, TypeOK, Good, NextAhead, ExitsEmpty
<1>7. CASE EnterBlock
  <2>1. g' = Entered(g) /\ \A r \in Reg : g.reg[r] = None
    BY <1>7 DEF EnterBlock, IInv, ExitsEmpty
  <2>2. Global \subseteq Operand
    BY DEF Global, Operand, Tmp
  <2>3. g' \in State
    <3> DEFINE rn == [x \in Operand |-> IF x \in Global THEN g.reg_no[x] ELSE -1]
               nc == [x \in Operand |-> -1]
               hd == [r \in Reg |-> None]
    <3>1. g \in State BY DEF IInv, Good
    <3>2. /\ rn \in [Operand -> Reg \cup {-1}]
          /\ nc \in [Operand -> -1 .. MaxLen - 1]
          /\ hd \in [Reg -> Operand \cup {None}]
      BY <3>1, LengthBound DEF State
    <3>3. g' = [g EXCEPT !.reg_no = rn, !.nxt_code = nc, !.offset = Global,
                         !.home = Global, !.holds = hd, !.dead = FALSE,
                         !.misread = {}, !.homeless = {}, !.edge = Operand]
      BY <2>1 DEF Entered
    <3> HIDE DEF rn, nc, hd
    <3> QED BY <2>2, <3>1, <3>2, <3>3 DEF State
  <2>4. /\ g'.reg = g.reg
        /\ g'.reg_no = [x \in Operand |-> IF x \in Global THEN g.reg_no[x] ELSE -1]
        /\ g'.nxt_code = [x \in Operand |-> -1]
    BY <2>1 DEF Entered, IInv, Good, State
  <2>5. Sound(g') BY <2>1, <2>4 DEF Sound
  <2>7. TypeOK'
    BY <1>7, <2>3, LengthBound DEF EnterBlock, TypeOK
  <2> QED BY <1>7, <2>3, <2>4, <2>5, <2>7
      DEF EnterBlock, IInv, Good, NextAhead, ExitsEmpty
<1> QED BY <1>1, <1>2, <1>3, <1>4, <1>5, <1>6, <1>7

LEMMA StepInv == IInv /\ [Next]_vars => IInv'
<1> SUFFICES ASSUME IInv, [Next]_vars PROVE IInv' OBVIOUS
<1>1. CASE UNCHANGED vars
  BY <1>1 DEF vars, IInv, TypeOK, Good, Sound, NextAhead, ExitsEmpty
<1>2. CASE Next
  BY <1>2, StraightInv, OtherInv DEF Next
<1> QED BY <1>1, <1>2

-----------------------------------------------------------------------------
(* Every component of the allocator keeps its type; reg_no in particular   *)
(* never leaves the range that allocate() hands out.                       *)
THEOREM TypeCorrect == Spec => []TypeOK
<1>1. IInv => TypeOK BY DEF IInv
<1> QED BY InitInv, StepInv, <1>1, PTL DEF Spec

(* However many operands compete for the registers, what reg[r] points to  *)
(* believes that it is in r.                                               *)
THEOREM DescriptorsSound == Spec => []DescriptorSound
<1>1. IInv => DescriptorSound BY DEF IInv, Good, Sound, DescriptorSound
<1> QED BY InitInv, StepInv, <1>1, PTL DEF Spec

(* DividingBlock() leaves no register occupied between two blocks, which   *)
(* prologue() and every label take for granted.                            *)
THEOREM RegistersEmptyBetweenBlocks == Spec => []ExitsEmpty
<1>1. IInv => ExitsEmpty BY DEF IInv
<1> QED BY InitInv, StepInv, <1>1, PTL DEF Spec
=============================================================================
