--------------------------- MODULE RegAllocValues ---------------------------
(***************************************************************************)
(* Proofs about the values that RegAlloc keeps, for every number of        *)
(* registers, operands and instructions: as long as no line of a block     *)
(* needs more registers than there are below $s7, what the printed code    *)
(* reads is what was written last.                                         *)
(***************************************************************************)
EXTENDS RegAllocProofs

(* The value of x can be found: in its register, else at home or in the    *)
(* instruction itself.  Behind a RETURN nothing needs to be.               *)
Found(s, x) ==
    \/ s.dead
    \/ IF s.reg_no[x] >= 0 THEN s.holds[s.reg_no[x]] = x ELSE x \in s.home \cup Const

(* x can be asked for: it is in a register, or ensure() can load it.       *)
Placed(s, x) == s.reg_no[x] >= 0 \/ x \in s.offset \cup Const

(* DescriptorExact of a generator state.                                   *)
Exact(s) == \A x \in Operand : s.reg_no[x] >= 0 => s.reg[s.reg_no[x]] = x

(* Only operands of T have registers, and T is too small to fill them.     *)
Within(T, s) == \A r \in Reg : s.reg[r] \in T \cup {None}
Small(T) == T \subseteq Operand /\ IsFiniteSet(T) /\ Cardinality(T) <= S7

(* $s7 is never reached, as the registers before it suffice; the operands  *)
(* that blocks share have slots, and so has whatever is at home.           *)
Fine(T, s) ==
    /\ Good(s) /\ Exact(s) /\ Within(T, s)
    /\ s.reg[S7] = None
    /\ Global \subseteq s.offset /\ s.home \subseteq s.offset
    /\ s.misread = {} /\ s.homeless = {}

(* What Free() may forget. *)
Gone(s, x) == x \notin Global /\ s.nxt_code[x] <= 0

(* A register is given to operands of M alone, and the others lose nothing. *)
Keeps(s, t, M) ==
    /\ t.nxt_code = s.nxt_code /\ t.dead = s.dead /\ t.st_lk = s.st_lk
    /\ \A x \in Operand \ M : /\ Found(s, x) => Found(t, x)
                              /\ Placed(s, x) => Placed(t, x)
                              /\ t.reg_no[x] >= 0 => s.reg_no[x] >= 0

Unneeded(x) == g.nxt_code[x] = -1 /\ (x \in Temp \/ x \in spent)

Args == {arg_list[i] : i \in DOMAIN arg_list}

(* The inductive invariant beside IInv.                                    *)
InBlock ==
    at = "block" =>
        /\ \A x \in Alive : Found(g, x)
        /\ \A x \in Temp : g.nxt_code[x] >= idx => Placed(g, x)
        /\ last # None => last \in touched
        /\ last # None /\ g.nxt_code[last] >= idx => g.reg_no[last] >= 0
Passing ==
    at = "passing" =>
        /\ \A x \in Alive \ {last} : Found(g, x)
        /\ \A x \in Temp \ {last} : g.nxt_code[x] >= idx => Placed(g, x)
        /\ \A x \in Operand : g.reg_no[x] >= 0 => Unneeded(x)
        /\ last \in touched
Branched ==
    at = "branched" => last = None /\ \A x \in Needed : Found(g, x)

VInv ==
    /\ Fine(Operand, g)
    /\ g.st_lk <=> at = "passing"
    /\ at # "exit" => \A x \in Operand \ touched : g.reg_no[x] < 0
    /\ at \in {"block", "passing"} =>
          /\ \A c \in Const : g.nxt_code[c] = -1
          /\ \A u \in Args : /\ u \in Tmp /\ u \in touched /\ Unneeded(u)
                             /\ Found(g, u) /\ Placed(g, u)
    /\ at \in {"branched", "exit"} => Args = {}
    /\ InBlock /\ Passing /\ Branched
    /\ HomesAtExit /\ HomesAtBranch

-----------------------------------------------------------------------------
(* What changes of a state, component by component.                        *)

LEMMA GlobalOperand == Global \subseteq Operand /\ Global \cap Const = {}
BY OperandKinds DEF Global, Operand, Tmp

LEMMA BindFields ==
  ASSUME NEW s \in State, NEW x \in Operand, NEW r \in Reg
  PROVE  LET t == Bind(s, x, r)
         IN  /\ t.reg = [s.reg EXCEPT ![r] = x] /\ t.reg_no = [s.reg_no EXCEPT ![x] = r]
             /\ t.nxt_code = s.nxt_code /\ t.offset = s.offset /\ t.st_lk = s.st_lk
             /\ t.holds = s.holds /\ t.home = s.home /\ t.dead = s.dead
             /\ t.misread = s.misread /\ t.homeless = s.homeless /\ t.edge = s.edge
BY DEF Bind, State

LEMMA UnbindFields ==
  ASSUME NEW s \in State, NEW X \in SUBSET Operand
  PROVE  LET t == Unbind(s, X)
         IN  /\ t.reg = [r \in Reg |-> IF \E x \in X : s.reg_no[x] = r
                                       THEN None ELSE s.reg[r]]
             /\ t.reg_no = [x \in Operand |-> IF x \in X THEN -1 ELSE s.reg_no[x]]
             /\ t.nxt_code = s.nxt_code /\ t.offset = s.offset /\ t.st_lk = s.st_lk
             /\ t.holds = s.holds /\ t.home = s.home /\ t.dead = s.dead
             /\ t.misread = s.misread /\ t.homeless = s.homeless /\ t.edge = s.edge
BY DEF Unbind, State

LEMMA SaveFields ==
  ASSUME NEW s \in State, NEW X \in SUBSET Operand, ~ s.st_lk
  PROVE  LET t == Save(s, X)
         IN  /\ t.reg = s.reg /\ t.reg_no = s.reg_no
             /\ t.nxt_code = s.nxt_code /\ t.offset = s.offset \cup X /\ t.st_lk = s.st_lk
             /\ t.holds = s.holds /\ t.dead = s.dead
             /\ t.home = (s.home \ X) \cup {x \in X : InRegister(s, x)}
             /\ t.misread = s.misread /\ t.homeless = s.homeless /\ t.edge = s.edge
BY DEF Save, State

-----------------------------------------------------------------------------
(* The registers stay exact and within T.                                  *)

LEMMA BindTight ==
  ASSUME NEW T, NEW s \in State, Exact(s), Within(T, s), NEW x \in Operand, x \in T,
         NEW r \in Reg, \A y \in Operand : s.reg_no[y] # r
  PROVE  Exact(Bind(s, x, r)) /\ Within(T, Bind(s, x, r))
<1> DEFINE b == Bind(s, x, r)
<1>1. b.reg = [s.reg EXCEPT ![r] = x] /\ b.reg_no = [s.reg_no EXCEPT ![x] = r]
  BY BindFields
<1> HIDE DEF b
<1>2. /\ b.reg[r] = x /\ b.reg_no[x] = r
      /\ \A q \in Reg : q # r => b.reg[q] = s.reg[q]
      /\ \A y \in Operand : y # x => b.reg_no[y] = s.reg_no[y]
  BY <1>1 DEF State
<1>3. ASSUME NEW y \in Operand, b.reg_no[y] >= 0 PROVE b.reg[b.reg_no[y]] = y
  <2>1. CASE y = x BY <1>2, <2>1
  <2>2. CASE y # x
    <3>1. b.reg_no[y] = s.reg_no[y] /\ s.reg_no[y] >= 0 /\ s.reg_no[y] # r
      BY <1>2, <1>3, <2>2
    <3>2. s.reg_no[y] \in Reg /\ s.reg[s.reg_no[y]] = y BY <3>1 DEF Exact, State
    <3> QED BY <1>2, <3>1, <3>2
  <2> QED BY <2>1, <2>2
<1>4. Within(T, b) BY <1>2 DEF Within
<1> QED BY <1>3, <1>4 DEF Exact, b

LEMMA UnbindTight ==
  ASSUME NEW T, NEW s \in State, Exact(s), Within(T, s), NEW X \in SUBSET Operand
  PROVE  Exact(Unbind(s, X)) /\ Within(T, Unbind(s, X))
<1> DEFINE b == Unbind(s, X)
<1>1. /\ b.reg = [r \in Reg |-> IF \E x \in X : s.reg_no[x] = r THEN None ELSE s.reg[r]]
      /\ b.reg_no = [x \in Operand |-> IF x \in X THEN -1 ELSE s.reg_no[x]]
  BY UnbindFields
<1> HIDE DEF b
<1>2. ASSUME NEW y \in Operand, b.reg_no[y] >= 0 PROVE b.reg[b.reg_no[y]] = y
  <2>1. y \notin X /\ b.reg_no[y] = s.reg_no[y] /\ s.reg_no[y] >= 0 BY <1>1, <1>2
  <2>2. s.reg_no[y] \in Reg /\ s.reg[s.reg_no[y]] = y BY <2>1 DEF Exact, State
  <2>3. ~ \E x \in X : s.reg_no[x] = s.reg_no[y] BY <2>1, <2>2 DEF Exact
  <2> QED BY <1>1, <2>1, <2>2, <2>3
<1>3. Within(T, b) BY <1>1 DEF Within
<1> QED BY <1>2, <1>3 DEF Exact, b

-----------------------------------------------------------------------------
(* The operators of the allocator, when T has the operands it asks for.    *)

(* Whoever asks for a register gets one below $s7 that nobody believes in. *)
LEMMA FreeBelow ==
  ASSUME NEW T, Small(T), NEW s, Fine(T, s), NEW x \in Operand, x \in T, s.reg_no[x] < 0
  PROVE  \E r \in 0 .. S7 - 1 : s.reg[r] = None
<1> SUFFICES ASSUME \A r \in 0 .. S7 - 1 : s.reg[r] # None PROVE FALSE
  OBVIOUS
<1> DEFINE low == [r \in 0 .. S7 - 1 |-> s.reg[r]]
           others == T \ {x}
<1>1. \A r \in 0 .. S7 - 1 : r \in Reg /\ s.reg[r] \in T /\ s.reg_no[s.reg[r]] = r
  BY RegisterNumbers DEF Fine, Within, Good, Sound, Reg
<1>2. \A r \in 0 .. S7 - 1 : s.reg[r] # x
  BY <1>1
<1>3. low \in Injection(0 .. S7 - 1, others)
  BY <1>1, <1>2 DEF Injection, IsInjective
<1>4. /\ IsFiniteSet(others) /\ Cardinality(others) = Cardinality(T) - 1
  BY FS_RemoveElement DEF Small
<1>5. Cardinality(0 .. S7 - 1) <= Cardinality(others)
  <2> HIDE DEF others, low
  <2> QED BY <1>3, <1>4, FS_Injection
<1>6. Cardinality(0 .. S7 - 1) = S7
  BY FS_Interval, RegisterNumbers
<1>7. Cardinality(T) \in Nat /\ Cardinality(T) <= S7
  BY FS_CardinalityType DEF Small
<1> HIDE DEF others
<1> QED BY <1>4, <1>5, <1>6, <1>7, RegisterNumbers

LEMMA AllocateBinds ==
  ASSUME NEW T, Small(T), NEW s, Fine(T, s), NEW x \in Operand, x \in T, s.reg_no[x] < 0
  PROVE  \E r \in Reg : /\ r < S7 /\ s.reg[r] = None /\ Allocate(s, x) = Bind(s, x, r)
                        /\ \A y \in Operand : s.reg_no[y] # r
<1>1. PICK q \in 0 .. S7 - 1 : s.reg[q] = None BY FreeBelow
<1>2. q \in FreeRegs(s) /\ FreeRegs(s) \in SUBSET Nat /\ q < S7
  BY <1>1, RegisterNumbers DEF FreeRegs, Reg
<1> DEFINE r == Least(FreeRegs(s))
<1>3. r \in FreeRegs(s) /\ r <= q
  BY <1>2, LeastIn
<1>4. r \in Reg /\ s.reg[r] = None BY <1>3 DEF FreeRegs
<1>5. Allocate(s, x) = Bind(s, x, r)
  <2>1. ~ (s.reg_no[x] >= 0) /\ FreeRegs(s) # {}
    <3>1. s.reg_no[x] \in Reg \cup {-1} BY DEF Fine, Good, State
    <3> QED BY <1>2, <3>1 DEF Reg
  <2> QED BY <2>1 DEF Allocate
<1>6. \A y \in Operand : s.reg_no[y] # r
  <2> SUFFICES ASSUME NEW y \in Operand, s.reg_no[y] = r PROVE FALSE OBVIOUS
  <2>1. s.reg[r] = y BY <1>4 DEF Fine, Good, Exact, Reg
  <2> QED BY <1>4, <2>1, OperandKinds DEF Operand, Tmp
<1>7. r < S7 BY <1>2, <1>3, <1>4, RegisterNumbers DEF Reg
<1> HIDE DEF r
<1> QED BY <1>4, <1>5, <1>6, <1>7

LEMMA AllocateKeeps ==
  ASSUME NEW T, Small(T), NEW s, Fine(T, s), NEW x \in Operand, x \in T, NEW t,
         t = Allocate(s, x)
  PROVE  /\ Fine(T, t) /\ Keeps(s, t, {x}) /\ t.reg_no[x] \in Reg
         /\ s.reg_no[x] >= 0 => t = s
         /\ \A y \in Operand \ {x} : t.reg_no[y] = s.reg_no[y]
         /\ \A y \in Operand : t.reg_no[y] \in Reg /\ y # x => t.reg_no[y] # t.reg_no[x]
         /\ t.home = s.home /\ t.offset = s.offset /\ t.holds = s.holds /\ t.edge = s.edge
<1>0. s \in State /\ Exact(s) /\ s.reg_no[x] \in Reg \cup {-1}
  BY DEF Fine, Good, State
<1>1. CASE s.reg_no[x] >= 0
  <2>1. t = s BY <1>0, <1>1 DEF Allocate, Reg
  <2>2. \A y \in Operand : s.reg_no[y] \in Reg /\ y # x => s.reg_no[y] # s.reg_no[x]
    BY <1>0, <1>1 DEF Exact, Reg
  <2> QED BY <1>0, <1>1, <2>1, <2>2 DEF Keeps, Reg
<1>2. CASE s.reg_no[x] < 0
  <2>1. PICK r \in Reg : /\ r < S7 /\ s.reg[r] = None /\ t = Bind(s, x, r)
                         /\ \A y \in Operand : s.reg_no[y] # r
    BY <1>2, AllocateBinds
  <2>2. /\ t.reg = [s.reg EXCEPT ![r] = x] /\ t.reg_no = [s.reg_no EXCEPT ![x] = r]
        /\ t.nxt_code = s.nxt_code /\ t.offset = s.offset /\ t.st_lk = s.st_lk
        /\ t.holds = s.holds /\ t.home = s.home /\ t.dead = s.dead
        /\ t.misread = s.misread /\ t.homeless = s.homeless /\ t.edge = s.edge
    BY <1>0, <2>1, BindFields
  <2>3. Good(t) BY <1>2, <2>1, BindGood DEF Fine
  <2>4. t.reg[S7] = None
    BY <1>0, <2>1, <2>2, RegisterNumbers DEF Fine, State, Reg
  <2>9. Exact(t) /\ Within(T, t) BY <1>0, <2>1, BindTight DEF Fine
  <2>5. Fine(T, t) BY <2>2, <2>3, <2>4, <2>9 DEF Fine
  <2>6. t.reg_no[x] = r /\ \A y \in Operand \ {x} : t.reg_no[y] = s.reg_no[y]
    BY <1>0, <2>2 DEF State
  <2>7. Keeps(s, t, {x}) BY <2>2, <2>6 DEF Keeps, Found, Placed
  <2>8. ~ (s.reg_no[x] >= 0) BY <1>0, <1>2 DEF Reg
  <2> QED BY <2>1, <2>2, <2>5, <2>6, <2>7, <2>8
<1> QED BY <1>0, <1>1, <1>2 DEF Reg

LEMMA EnsureKeeps ==
  ASSUME NEW T, Small(T), NEW s, Fine(T, s), NEW x \in Operand, x \in T, Placed(s, x),
         NEW t, t = Ensure(s, x)
  PROVE  /\ Fine(T, t) /\ Keeps(s, t, {x}) /\ t.reg_no[x] \in Reg
         /\ Found(s, x) => Found(t, x)
         /\ \A y \in Operand \ {x} : t.reg_no[y] = s.reg_no[y]
         /\ t.home = s.home /\ t.offset = s.offset /\ t.edge = s.edge
<1>0. s \in State /\ Exact(s) /\ s.reg_no[x] \in Reg \cup {-1}
  BY DEF Fine, Good, State
<1>1. CASE s.reg_no[x] >= 0
  <2>1. t = s BY <1>1 DEF Ensure
  <2> QED BY <1>0, <1>1, <2>1 DEF Keeps, Reg
<1>2. CASE s.reg_no[x] < 0
  <2> DEFINE a == Allocate(s, x)
  <2>1. /\ Fine(T, a) /\ Keeps(s, a, {x}) /\ a.reg_no[x] \in Reg
        /\ \A y \in Operand \ {x} : a.reg_no[y] = s.reg_no[y]
        /\ \A y \in Operand : a.reg_no[y] \in Reg /\ y # x => a.reg_no[y] # a.reg_no[x]
        /\ a.home = s.home /\ a.offset = s.offset /\ a.holds = s.holds /\ a.edge = s.edge
    BY AllocateKeeps
  <2>2. t = Load(a, x) BY <1>0, <1>2 DEF Ensure, Reg
  <2> HIDE DEF a
  <2>3. a \in State /\ x \in s.offset \cup Const
    <3>1. ~ (s.reg_no[x] >= 0) BY <1>0, <1>2 DEF Reg
    <3> QED BY <2>1, <3>1 DEF Fine, Good, Placed
  <2> DEFINE v == IF x \in a.home \cup Const THEN x ELSE None
  <2>4. /\ t.reg = a.reg /\ t.reg_no = a.reg_no /\ t.nxt_code = a.nxt_code
        /\ t.offset = a.offset /\ t.st_lk = a.st_lk /\ t.home = a.home /\ t.dead = a.dead
        /\ t.holds = [a.holds EXCEPT ![a.reg_no[x]] = v] /\ t.edge = a.edge
        /\ t.misread = a.misread /\ t.homeless = a.homeless \cup ({x} \ (a.offset \cup Const))
    BY <2>2, <2>3 DEF Load, State
  <2>5. Good(t) BY <2>1, <2>2, LoadGood DEF Fine
  <2>6. Fine(T, t) BY <2>1, <2>3, <2>4, <2>5 DEF Fine, Exact, Within
  <2>7. /\ t.holds[a.reg_no[x]] = v
        /\ \A q \in Reg : q # a.reg_no[x] => t.holds[q] = a.holds[q]
    BY <2>1, <2>3, <2>4 DEF State
  <2>8. \A y \in Operand \ {x} : (Found(a, y) => Found(t, y)) /\ (Placed(a, y) => Placed(t, y))
    <3> SUFFICES ASSUME NEW y \in Operand \ {x}
                 PROVE  (Found(a, y) => Found(t, y)) /\ (Placed(a, y) => Placed(t, y))
      OBVIOUS
    <3>1. a.reg_no[y] \in Reg \cup {-1} BY <2>3 DEF State
    <3>2. a.reg_no[y] >= 0 => t.holds[a.reg_no[y]] = a.holds[a.reg_no[y]]
      BY <2>1, <2>7, <3>1
    <3> QED BY <2>4, <3>2 DEF Found, Placed
  <2>9. Keeps(s, t, {x}) BY <2>1, <2>4, <2>8 DEF Keeps
  <2>10. Found(s, x) => Found(t, x)
    <3>1. Found(s, x) => s.dead \/ x \in a.home \cup Const BY <1>0, <1>2, <2>1 DEF Found, Reg
    <3>2. t.dead = s.dead BY <2>9 DEF Keeps
    <3>3. t.reg_no[x] >= 0 BY <2>1, <2>4 DEF Reg
    <3> QED BY <2>4, <2>7, <3>1, <3>2, <3>3 DEF Found
  <2> QED BY <1>2, <2>1, <2>4, <2>6, <2>9, <2>10
<1> QED BY <1>0, <1>1, <1>2 DEF Reg

LEMMA ReadsNothing ==
  ASSUME NEW s, NEW x, Found(s, x), s.reg_no[x] \in Reg
  PROVE  Reads(s, x, s.reg_no[x]) = s
BY DEF Reads, Found, Reg

LEMMA WritesKeeps ==
  ASSUME NEW T, Small(T), NEW s, Fine(T, s), NEW d \in Operand, NEW r,
         s.reg_no[d] \in Reg, r = s.reg_no[d],
         NEW t, t = Writes(s, d, r)
  PROVE  /\ Fine(T, t) /\ Keeps(s, t, {d}) /\ Found(t, d) /\ t.reg_no = s.reg_no
         /\ t.edge = s.edge
<1>1. s \in State /\ Exact(s) BY DEF Fine, Good
<1>2. /\ t.reg = s.reg /\ t.reg_no = s.reg_no /\ t.nxt_code = s.nxt_code
      /\ t.offset = s.offset /\ t.st_lk = s.st_lk /\ t.home = s.home \ {d} /\ t.dead = s.dead
      /\ t.misread = s.misread /\ t.homeless = s.homeless /\ t.edge = s.edge
      /\ t.holds = [q \in Reg |-> IF q = r THEN d
                                  ELSE IF s.holds[q] = d THEN None ELSE s.holds[q]]
  BY <1>1 DEF Writes, State
<1>3. Good(t) BY WritesGood DEF Fine
<1>4. Fine(T, t) BY <1>2, <1>3 DEF Fine, Exact, Within
<1>5. Found(t, d) BY <1>2 DEF Found, Reg
<1>6. \A y \in Operand \ {d} : Found(s, y) => Found(t, y)
  <2> SUFFICES ASSUME NEW y \in Operand \ {d}, Found(s, y) PROVE Found(t, y)
    OBVIOUS
  <2>1. s.reg_no[y] \in Reg \cup {-1} BY <1>1 DEF State
  <2>2. s.reg_no[y] \in Reg => s.reg_no[y] # r BY <1>1 DEF Exact, Reg
  <2> QED BY <1>2, <2>1, <2>2 DEF Found, Reg
<1> QED BY <1>2, <1>4, <1>5, <1>6 DEF Keeps, Placed

LEMMA FreeKeeps ==
  ASSUME NEW T, Small(T), NEW s, Fine(T, s), ~ s.st_lk, NEW X \in SUBSET Operand,
         \A x \in X : s.reg_no[x] >= 0, NEW t, t = Free(s, X)
  PROVE  /\ Fine(T, t) /\ Keeps(s, t, X) /\ t.edge = s.edge
         /\ \A x \in X : ~ Gone(s, x) => (Found(s, x) => Found(t, x)) /\ Placed(t, x)
         /\ \A x \in Operand : x \notin X \/ s.nxt_code[x] > 0 => t.reg_no[x] = s.reg_no[x]
         /\ \A x \in Operand : t.reg_no[x] >= 0 => t.reg_no[x] = s.reg_no[x]
         /\ \A x \in X \cap Global : s.nxt_code[x] <= 0 /\ Found(s, x) /\ ~ s.dead
                                     => x \in t.home
         /\ \A x \in Operand \ X : x \in s.home => x \in t.home
<1> DEFINE done == {x \in X : s.nxt_code[x] <= 0}
           a == Save(s, done \cap Global)
<1>1. s \in State /\ done \in SUBSET Operand /\ done \cap Global \in SUBSET Operand
  BY DEF Fine, Good
<1>2. /\ a.reg = s.reg /\ a.reg_no = s.reg_no
      /\ a.nxt_code = s.nxt_code /\ a.offset = s.offset \cup (done \cap Global)
      /\ a.st_lk = s.st_lk /\ a.holds = s.holds /\ a.dead = s.dead
      /\ a.home = (s.home \ (done \cap Global)) \cup {x \in done \cap Global : InRegister(s, x)}
      /\ a.misread = s.misread /\ a.homeless = s.homeless /\ a.edge = s.edge
  <2> HIDE DEF done
  <2> QED BY <1>1, SaveFields
<1>3. Good(a)
  <2> HIDE DEF done
  <2> QED BY <1>1, SaveGood DEF Fine
<1>4. t = Unbind(a, done) BY DEF Free
<1>5. Good(t)
  <2> HIDE DEF done, a
  <2> QED BY <1>1, <1>3, <1>4, UnbindGood
<1>6. /\ t.reg = [r \in Reg |-> IF \E x \in done : a.reg_no[x] = r THEN None ELSE a.reg[r]]
      /\ t.reg_no = [x \in Operand |-> IF x \in done THEN -1 ELSE a.reg_no[x]]
      /\ t.nxt_code = a.nxt_code /\ t.offset = a.offset /\ t.st_lk = a.st_lk
      /\ t.holds = a.holds /\ t.home = a.home /\ t.dead = a.dead
      /\ t.misread = a.misread /\ t.homeless = a.homeless /\ t.edge = a.edge
  <2> HIDE DEF done, a
  <2>1. a \in State BY <1>3 DEF Good
  <2> QED BY <1>1, <1>4, <2>1, UnbindFields
<1> HIDE DEF a
<1>7. S7 \in Reg BY RegisterNumbers DEF Reg
<1>17. Exact(t) /\ Within(T, t)
  <2>1. a \in State /\ Exact(a) /\ Within(T, a) BY <1>2, <1>3 DEF Good, Fine, Exact, Within
  <2> HIDE DEF done
  <2> QED BY <1>1, <1>4, <2>1, UnbindTight
<1>8. Fine(T, t) BY <1>2, <1>5, <1>6, <1>7, <1>17 DEF Fine
<1>9. \A x \in Operand : t.reg_no[x] = IF x \in done THEN -1 ELSE s.reg_no[x]
  BY <1>2, <1>6
<1>10. \A x \in X \cap Global : s.nxt_code[x] <= 0 /\ Found(s, x) /\ ~ s.dead => x \in t.home
  BY <1>2, <1>6 DEF Found, InRegister
<1>11. \A x \in Operand \ X : x \in s.home => x \in t.home BY <1>2, <1>6
<1>12. Keeps(s, t, X)
  <2>1. \A x \in Operand \ X : t.reg_no[x] = s.reg_no[x] BY <1>9
  <2> HIDE DEF done
  <2> QED BY <1>2, <1>6, <1>11, <2>1 DEF Keeps, Found, Placed
<1>13. ASSUME NEW x \in X, ~ Gone(s, x)
       PROVE  (Found(s, x) => Found(t, x)) /\ Placed(t, x)
  <2>1. s.reg_no[x] >= 0 /\ x \in Operand OBVIOUS
  <2>2. s.nxt_code[x] \in Int BY <1>1, <2>1 DEF State
  <2>3. CASE x \in done
    <3>1. x \in Global BY <1>13, <2>3 DEF Gone
    <3>2. t.reg_no[x] = -1 BY <1>9, <2>1, <2>3
    <3>3. x \in t.offset BY <1>8, <3>1 DEF Fine
    <3>4. Found(s, x) => s.dead \/ x \in t.home BY <1>10, <2>3, <3>1
    <3> QED BY <1>2, <1>6, <3>2, <3>3, <3>4 DEF Found, Placed
  <2>4. CASE x \notin done
    <3>1. t.reg_no[x] = s.reg_no[x] BY <1>9, <2>1, <2>4
    <3> QED BY <1>2, <1>6, <2>1, <3>1 DEF Found, Placed
  <2> QED BY <2>3, <2>4
<1>14. t.edge = s.edge BY <1>2, <1>6
<1>15. \A x \in Operand : x \notin X \/ s.nxt_code[x] > 0 => t.reg_no[x] = s.reg_no[x]
  <2>1. \A x \in Operand : s.nxt_code[x] \in Int BY <1>1 DEF State
  <2> QED BY <1>9, <2>1
<1>16. \A x \in Operand : t.reg_no[x] >= 0 => t.reg_no[x] = s.reg_no[x] BY <1>9
<1> HIDE DEF done
<1> QED BY <1>8, <1>10, <1>11, <1>12, <1>13, <1>14, <1>15, <1>16

-----------------------------------------------------------------------------
(* The printers.                                                           *)

(* Of what the instruction mentions, only a temporary of the block that is *)
(* not mentioned again may be lost.                                        *)
Prints(T, s, t, M) ==
    /\ Fine(T, t) /\ Keeps(s, t, M)
    /\ \A x \in M : ~ Gone(s, x) => /\ Found(t, x) /\ Placed(t, x)
                                    /\ s.nxt_code[x] > 0 => t.reg_no[x] >= 0

(* What can be read is found, and can be asked for.                        *)
Ready(s, x) == Found(s, x) /\ Placed(s, x)

LEMMA KeepsTrans ==
  ASSUME NEW s, NEW t, NEW u, NEW M, NEW N, Keeps(s, t, M), Keeps(t, u, N)
  PROVE  Keeps(s, u, M \cup N)
BY DEF Keeps

LEMMA DefineKeeps ==
  ASSUME NEW T, Small(T), NEW s, Fine(T, s), NEW d \in Operand, d \in T,
         NEW t, t = PrintDefine(s, d)
  PROVE  Prints(T, s, t, {d}) /\ Found(t, d) /\ t.reg_no[d] \in Reg
<1> DEFINE a == Allocate(s, d)
<1>1. Fine(T, a) /\ Keeps(s, a, {d}) /\ a.reg_no[d] \in Reg BY AllocateKeeps
<1>2. t = Writes(a, d, a.reg_no[d]) BY DEF PrintDefine
<1> HIDE DEF a
<1>3. Fine(T, t) /\ Keeps(a, t, {d}) /\ Found(t, d) /\ t.reg_no = a.reg_no
  BY <1>1, <1>2, WritesKeeps
<1>4. Keeps(s, t, {d} \cup {d}) BY <1>1, <1>3, KeepsTrans
<1>5. Keeps(s, t, {d}) BY <1>4 DEF Keeps
<1>6. Placed(t, d) /\ t.reg_no[d] >= 0 BY <1>1, <1>3 DEF Placed, Reg
<1> QED BY <1>1, <1>3, <1>5, <1>6 DEF Prints

LEMMA CopyKeeps ==
  ASSUME NEW T, Small(T), NEW s, Fine(T, s), ~ s.st_lk, NEW d \in Operand,
         NEW u \in Operand,
         d \in T, u \in T, d # u,
         Ready(s, u), NEW t, t = PrintCopy(s, d, u)
  PROVE  Prints(T, s, t, {d, u})
<1> DEFINE a == Allocate(s, d)
           b == Ensure(a, u)
           e == Writes(b, d, a.reg_no[d])
<1>1. Fine(T, a) /\ Keeps(s, a, {d}) /\ a.reg_no[d] \in Reg BY AllocateKeeps
<1>2. Ready(a, u) BY <1>1 DEF Ready, Keeps
<1>3. /\ Fine(T, b) /\ Keeps(a, b, {u}) /\ b.reg_no[u] \in Reg /\ Found(b, u)
      /\ b.reg_no[d] = a.reg_no[d]
  <2> HIDE DEF a
  <2> QED BY <1>1, <1>2, EnsureKeeps DEF Ready
<1>4. Reads(b, u, b.reg_no[u]) = b
  <2> HIDE DEF b
  <2> QED BY <1>3, ReadsNothing
<1>5. t = Free(e, {u}) BY <1>4 DEF PrintCopy
<1>6. Fine(T, e) /\ Keeps(b, e, {d}) /\ Found(e, d) /\ e.reg_no = b.reg_no
  <2> HIDE DEF a, b
  <2> QED BY <1>1, <1>3, WritesKeeps
<1> HIDE DEF a, b, e
<1>7. ~ e.st_lk /\ e.nxt_code = s.nxt_code /\ Found(e, u) /\ e.reg_no[u] >= 0
      /\ e.reg_no[d] >= 0
  BY <1>1, <1>3, <1>6 DEF Keeps, Reg
<1>8. /\ Fine(T, t) /\ Keeps(e, t, {u})
      /\ ~ Gone(e, u) => Found(t, u) /\ Placed(t, u)
      /\ e.nxt_code[u] > 0 => t.reg_no[u] = e.reg_no[u]
      /\ t.reg_no[d] = e.reg_no[d]
  BY <1>5, <1>6, <1>7, FreeKeeps
<1>9. Keeps(s, t, ({d} \cup {u}) \cup ({d} \cup {u}))
  <2>1. Keeps(s, b, {d} \cup {u}) BY <1>1, <1>3, KeepsTrans
  <2>2. Keeps(b, t, {d} \cup {u}) BY <1>6, <1>8, KeepsTrans
  <2> QED BY <2>1, <2>2, KeepsTrans
<1>10. Keeps(s, t, {d, u}) BY <1>9 DEF Keeps
<1>11. Found(t, d) /\ Placed(t, d) /\ t.reg_no[d] >= 0
  BY <1>6, <1>7, <1>8 DEF Keeps, Placed
<1> QED BY <1>7, <1>8, <1>10, <1>11 DEF Prints, Gone

LEMMA StoreKeeps ==
  ASSUME NEW T, Small(T), NEW s, Fine(T, s), ~ s.st_lk, NEW p \in Operand,
         NEW u \in Operand,
         p \in T, u \in T, p # u,
         s.reg_no[p] >= 0, Ready(s, p), Ready(s, u), NEW t, t = PrintStore(s, p, u)
  PROVE  Prints(T, s, t, {p, u})
<1> DEFINE b == Ensure(s, u)
<1>2. s.reg_no[p] \in Reg BY DEF Fine, Good, State
<1>1. Allocate(s, p) = s BY <1>2 DEF Allocate, Reg
<1>3. /\ Fine(T, b) /\ Keeps(s, b, {u}) /\ b.reg_no[u] \in Reg /\ Found(b, u)
      /\ b.reg_no[p] = s.reg_no[p]
  BY EnsureKeeps DEF Ready
<1>4. Found(b, p) BY <1>3 DEF Keeps, Ready
<1>5. Reads(b, p, s.reg_no[p]) = b
  <2> HIDE DEF b
  <2> QED BY <1>2, <1>3, <1>4, ReadsNothing
<1>6. Reads(b, u, b.reg_no[u]) = b
  <2> HIDE DEF b
  <2> QED BY <1>3, ReadsNothing
<1>7. t = Free(b, {u}) BY <1>1, <1>5, <1>6 DEF PrintStore
<1> HIDE DEF b
<1>8. ~ b.st_lk /\ b.nxt_code = s.nxt_code /\ b.reg_no[u] >= 0 BY <1>3 DEF Keeps, Reg
<1>9. /\ Fine(T, t) /\ Keeps(b, t, {u})
      /\ ~ Gone(b, u) => Found(t, u) /\ Placed(t, u)
      /\ b.nxt_code[u] > 0 => t.reg_no[u] = b.reg_no[u]
      /\ t.reg_no[p] = b.reg_no[p]
  BY <1>3, <1>7, <1>8, FreeKeeps
<1>10. Keeps(s, t, {u} \cup {u}) BY <1>3, <1>9, KeepsTrans
<1>11. Keeps(s, t, {p, u}) BY <1>10 DEF Keeps
<1>12. Found(t, p) /\ Placed(t, p) /\ t.reg_no[p] >= 0
  BY <1>3, <1>4, <1>9 DEF Keeps, Placed
<1> QED BY <1>8, <1>9, <1>11, <1>12 DEF Prints, Gone

(* The registers of u and d, where d may be u, while w waits.              *)
LEMMA Readied ==
  ASSUME NEW T, Small(T), NEW s, Fine(T, s), NEW d \in Operand, NEW u \in Operand,
         NEW w \in Operand,
         d \in T, u \in T, w \in T, w # u, w # d, Ready(s, u), Ready(s, w),
         NEW a, a = Ensure(s, u), NEW b, b = Allocate(a, d)
  PROVE  /\ Fine(T, b) /\ Keeps(s, b, {d, u}) /\ Found(b, u) /\ Ready(b, w)
         /\ b.reg_no[u] = a.reg_no[u] /\ b.reg_no[u] \in Reg /\ b.reg_no[d] \in Reg
<1>1. /\ Fine(T, a) /\ Keeps(s, a, {u}) /\ a.reg_no[u] \in Reg /\ Found(a, u)
  BY EnsureKeeps DEF Ready
<1>2. /\ Fine(T, b) /\ Keeps(a, b, {d}) /\ b.reg_no[d] \in Reg
      /\ a.reg_no[d] >= 0 => b = a
      /\ \A y \in Operand \ {d} : b.reg_no[y] = a.reg_no[y]
  BY <1>1, AllocateKeeps
<1>3. Keeps(s, b, {u} \cup {d}) BY <1>1, <1>2, KeepsTrans
<1>4. Keeps(s, b, {d, u}) BY <1>3 DEF Keeps
<1>5. Ready(b, w) BY <1>4 DEF Keeps, Ready
<1>6. CASE d = u
  <2>1. b = a BY <1>1, <1>2, <1>6 DEF Reg
  <2> QED BY <1>1, <1>2, <1>4, <1>5, <2>1
<1>7. CASE d # u
  <2>1. b.reg_no[u] = a.reg_no[u] /\ Found(b, u) BY <1>1, <1>2, <1>7 DEF Keeps
  <2> QED BY <1>1, <1>2, <1>4, <1>5, <2>1
<1> QED BY <1>6, <1>7

(* One operand handed back, or two, one after the other.                   *)
Unlocked(s) == ~ s.st_lk
Held(s, x) == s.reg_no[x] >= 0
FreesOne(s, u, t) == t = Free(s, {u})
FreedOne(T, s, u, t) ==
    /\ Fine(T, t) /\ Keeps(s, t, {u}) /\ t.edge = s.edge
    /\ ~ Gone(s, u) => (Found(s, u) => Found(t, u)) /\ Placed(t, u)
    /\ s.nxt_code[u] > 0 => Held(t, u)
    /\ \A x \in Operand \ {u} : t.reg_no[x] = s.reg_no[x]

LEMMA FreeOne ==
  ASSUME NEW T, Small(T), NEW s, Fine(T, s), Unlocked(s), NEW u \in Operand, Held(s, u),
         NEW t, FreesOne(s, u, t)
  PROVE  FreedOne(T, s, u, t)
<1>1. {u} \in SUBSET Operand /\ \A x \in {u} : s.reg_no[x] >= 0 BY DEF Held
<1>2. ~ s.st_lk /\ t = Free(s, {u}) BY DEF Unlocked, FreesOne
<1>3. /\ Fine(T, t) /\ Keeps(s, t, {u}) /\ t.edge = s.edge
      /\ \A x \in {u} : ~ Gone(s, x) => (Found(s, x) => Found(t, x)) /\ Placed(t, x)
      /\ \A x \in Operand : x \notin {u} \/ s.nxt_code[x] > 0 => t.reg_no[x] = s.reg_no[x]
  BY <1>1, <1>2, FreeKeeps
<1> QED BY <1>3 DEF FreedOne, Held

(* What they keep of each other. *)
LEMMA FreedKeeps ==
  ASSUME NEW T, NEW s, NEW u \in Operand, NEW t, FreedOne(T, s, u, t)
  PROVE  /\ Fine(T, t) /\ Keeps(s, t, {u})
         /\ Unlocked(s) => Unlocked(t)
         /\ \A x \in Operand \ {u} : /\ Held(s, x) => Held(t, x)
                                     /\ Found(s, x) => Found(t, x)
BY DEF FreedOne, Keeps, Unlocked, Held

LEMMA FreeTwice ==
  ASSUME NEW T, Small(T), NEW s, Fine(T, s), Unlocked(s), NEW u \in Operand,
         NEW w \in Operand, w # u,
         Held(s, u), Held(s, w), Found(s, u), Found(s, w),
         NEW h, FreesOne(s, w, h), NEW t, FreesOne(h, u, t)
  PROVE  /\ Prints(T, s, t, {u, w}) /\ t.edge = s.edge
         /\ \A x \in Operand \ {u, w} : t.reg_no[x] = s.reg_no[x]
<1>1. FreedOne(T, s, w, h) BY FreeOne
<1>2. Fine(T, h) /\ Unlocked(h) /\ Held(h, u) /\ Found(h, u) BY <1>1, FreedKeeps
<1>3. FreedOne(T, h, u, t) BY <1>2, FreeOne
<1>4. Keeps(s, h, {w}) /\ Keeps(h, t, {u}) BY <1>1, <1>3 DEF FreedOne
<1>5. Keeps(s, t, {w} \cup {u}) BY <1>4, KeepsTrans
<1>6. Keeps(s, t, {u, w}) BY <1>5 DEF Keeps
<1>7. h.nxt_code = s.nxt_code BY <1>4 DEF Keeps
<1>8. ~ Gone(s, w) => Found(t, w) /\ Placed(t, w) BY <1>1, <1>4 DEF Keeps, FreedOne
<1>9. s.nxt_code[w] > 0 => t.reg_no[w] >= 0 BY <1>1, <1>3 DEF FreedOne, Held
<1>10. s.nxt_code[u] > 0 => t.reg_no[u] >= 0 BY <1>3, <1>7 DEF FreedOne, Held
<1>11. ~ Gone(s, u) => Found(t, u) /\ Placed(t, u)
  BY <1>2, <1>3, <1>7 DEF FreedOne, Gone
<1> QED BY <1>1, <1>3, <1>6, <1>8, <1>9, <1>10, <1>11 DEF Prints, FreedOne

(* An instruction of two operands up to its print: c has them ready, f the *)
(* result written.                                                         *)
Computes(s, d, u, w, a, b, c, f) ==
    /\ a = Ensure(s, u) /\ b = Allocate(a, d)
    /\ c = Ensure(b, w) \/ c = b
    /\ f = Writes(c, d, b.reg_no[d])
Computed(T, s, d, u, w, a, c, f) ==
    /\ Fine(T, f) /\ Keeps(s, f, {d, u, w}) /\ Found(f, u) /\ Found(f, d)
    /\ Held(f, u) /\ Held(f, d) /\ Reads(c, u, a.reg_no[u]) = c
ComputedBoth(c, w, f) ==
    Reads(c, w, c.reg_no[w]) = c /\ Found(f, w) /\ Held(f, w)

LEMMA Computing ==
  ASSUME NEW T, Small(T), NEW s, Fine(T, s), NEW d \in Operand, NEW u \in Operand,
         NEW w \in Operand,
         d \in T, u \in T, w \in T, w # u, w # d, Ready(s, u), Ready(s, w),
         NEW a, NEW b, NEW c, NEW f, Computes(s, d, u, w, a, b, c, f)
  PROVE  /\ Computed(T, s, d, u, w, a, c, f)
         /\ c = Ensure(b, w) => ComputedBoth(c, w, f)
<1>0. /\ a = Ensure(s, u) /\ b = Allocate(a, d) /\ f = Writes(c, d, b.reg_no[d])
      /\ c = Ensure(b, w) \/ c = b
  BY DEF Computes
<1>1. /\ Fine(T, b) /\ Keeps(s, b, {d, u}) /\ Found(b, u) /\ Ready(b, w)
      /\ b.reg_no[u] = a.reg_no[u] /\ b.reg_no[u] \in Reg /\ b.reg_no[d] \in Reg
  BY <1>0, Readied
<1>2. c = Ensure(b, w) => c.reg_no[w] \in Reg /\ Found(c, w)
  <2> SUFFICES ASSUME c = Ensure(b, w) PROVE c.reg_no[w] \in Reg /\ Found(c, w)
    OBVIOUS
  <2>1. Fine(T, b) /\ Placed(b, w) /\ Found(b, w) BY <1>1 DEF Ready
  <2> QED BY <2>1, EnsureKeeps
<1>3. Fine(T, c) /\ Keeps(b, c, {w}) /\ c.reg_no[d] = b.reg_no[d] /\ c.reg_no[u] = b.reg_no[u]
  <2>1. CASE c = Ensure(b, w) BY <1>1, <2>1, EnsureKeeps DEF Ready
  <2>2. CASE c = b BY <1>1, <2>2 DEF Keeps
  <2> QED BY <1>0, <2>1, <2>2
<1>4. Found(c, u) BY <1>1, <1>3 DEF Keeps
<1>5. Reads(c, u, a.reg_no[u]) = c BY <1>1, <1>3, <1>4, ReadsNothing
<1>6. Fine(T, f) /\ Keeps(c, f, {d}) /\ Found(f, d) /\ f.reg_no = c.reg_no
  BY <1>0, <1>1, <1>3, WritesKeeps
<1>7. Keeps(s, f, ({d, u} \cup {w}) \cup {d})
  <2>1. Keeps(s, c, {d, u} \cup {w}) BY <1>1, <1>3, KeepsTrans
  <2> QED BY <1>6, <2>1, KeepsTrans
<1>8. Keeps(s, f, {d, u, w}) BY <1>7 DEF Keeps
<1>9. Found(f, u) BY <1>4, <1>6 DEF Keeps
<1>10. \A r \in Reg : r >= 0 BY DEF Reg
<1>11. Held(f, u) /\ Held(f, d) BY <1>1, <1>3, <1>6, <1>10 DEF Held
<1>12. c = Ensure(b, w) => ComputedBoth(c, w, f)
  <2> SUFFICES ASSUME c = Ensure(b, w) PROVE ComputedBoth(c, w, f)
    OBVIOUS
  <2>1. c.reg_no[w] \in Reg /\ Found(c, w) BY <1>2
  <2>2. Reads(c, w, c.reg_no[w]) = c BY <2>1, ReadsNothing
  <2>3. Found(f, w) BY <1>6, <2>1 DEF Keeps
  <2>4. Held(f, w) BY <1>6, <1>10, <2>1 DEF Held
  <2> QED BY <2>2, <2>3, <2>4 DEF ComputedBoth
<1> QED BY <1>5, <1>6, <1>8, <1>9, <1>11, <1>12 DEF Computed

LEMMA ComputedUnlocked ==
  ASSUME NEW T, NEW s, NEW d, NEW u, NEW w, NEW a, NEW c, NEW f,
         Computed(T, s, d, u, w, a, c, f), Unlocked(s)
  PROVE  Unlocked(f)
BY DEF Computed, Keeps, Unlocked

(* Handing back both operands ...                                          *)
LEMMA Returned ==
  ASSUME NEW T, Small(T), NEW s, Unlocked(s), NEW d \in Operand, NEW u \in Operand,
         NEW w \in Operand,
         w # u, w # d, NEW a, NEW c, NEW f,
         Computed(T, s, d, u, w, a, c, f), ComputedBoth(c, w, f),
         NEW h, NEW t, \/ FreesOne(f, w, h) /\ FreesOne(h, u, t)
                       \/ FreesOne(f, u, h) /\ FreesOne(h, w, t)
  PROVE  Prints(T, s, t, {d, u, w})
<1>0. /\ Fine(T, f) /\ Keeps(s, f, {d, u, w}) /\ Found(f, u) /\ Found(f, d) /\ Found(f, w)
      /\ Held(f, u) /\ Held(f, d) /\ Held(f, w) /\ Unlocked(f)
  BY ComputedUnlocked DEF Computed, ComputedBoth
<1>1. /\ Fine(T, t) /\ Keeps(f, t, {u, w})
      /\ \A x \in {u, w} : ~ Gone(f, x) => /\ Found(t, x) /\ Placed(t, x)
                                           /\ f.nxt_code[x] > 0 => t.reg_no[x] >= 0
      /\ \A x \in Operand \ {u, w} : t.reg_no[x] = f.reg_no[x]
  <2>1. CASE FreesOne(f, w, h) /\ FreesOne(h, u, t)
    <3>1. /\ Prints(T, f, t, {u, w}) /\ \A x \in Operand \ {u, w} : t.reg_no[x] = f.reg_no[x]
      BY <1>0, <2>1, FreeTwice
    <3> QED BY <3>1 DEF Prints
  <2>2. CASE FreesOne(f, u, h) /\ FreesOne(h, w, t)
    <3>1. /\ Prints(T, f, t, {w, u}) /\ \A x \in Operand \ {w, u} : t.reg_no[x] = f.reg_no[x]
      BY <1>0, <2>2, FreeTwice
    <3>2. {w, u} = {u, w} OBVIOUS
    <3> QED BY <3>1, <3>2 DEF Prints
  <2> QED BY <2>1, <2>2
<1>2. Keeps(s, t, {d, u, w} \cup {u, w}) BY <1>0, <1>1, KeepsTrans
<1>3. Keeps(s, t, {d, u, w}) BY <1>2 DEF Keeps
<1>4. d # u => Found(t, d) /\ Placed(t, d) /\ t.reg_no[d] >= 0
  BY <1>0, <1>1 DEF Keeps, Placed, Held
<1>5. f.nxt_code = s.nxt_code BY <1>0 DEF Keeps
<1> QED BY <1>1, <1>3, <1>4, <1>5 DEF Prints, Gone

(* ... or the first alone, as the second is an immediate. *)
LEMMA ReturnedOne ==
  ASSUME NEW T, Small(T), NEW s, Unlocked(s), NEW d \in Operand, NEW u \in Operand,
         NEW w \in Operand,
         w # u, w # d, NEW a, NEW c, NEW f,
         Computed(T, s, d, u, w, a, c, f), Gone(s, w), NEW t, FreesOne(f, u, t)
  PROVE  Prints(T, s, t, {d, u, w})
<1>0. /\ Fine(T, f) /\ Keeps(s, f, {d, u, w}) /\ Found(f, u) /\ Found(f, d)
      /\ Held(f, u) /\ Held(f, d) /\ Unlocked(f)
  BY ComputedUnlocked DEF Computed
<1>1. FreedOne(T, f, u, t) BY <1>0, FreeOne
<1>2. Keeps(s, t, {d, u, w} \cup {u}) BY <1>0, <1>1, KeepsTrans DEF FreedOne
<1>3. Keeps(s, t, {d, u, w}) BY <1>2 DEF Keeps
<1>4. d # u => Found(t, d) /\ Placed(t, d) /\ t.reg_no[d] >= 0
  BY <1>0, <1>1, FreedKeeps DEF Placed, Held
<1>5. f.nxt_code = s.nxt_code BY <1>0 DEF Keeps
<1>6. ~ Gone(s, u) => /\ Found(t, u) /\ Placed(t, u)
                      /\ s.nxt_code[u] > 0 => t.reg_no[u] >= 0
  BY <1>0, <1>1, <1>5 DEF FreedOne, Gone, Held
<1>7. Fine(T, t) BY <1>1 DEF FreedOne
<1> QED BY <1>3, <1>4, <1>6, <1>7 DEF Prints

(* ADD and SUB of a constant, of what is in a register, and MUL and DIV.   *)
LEMMA AddConstKeeps ==
  ASSUME NEW T, Small(T), NEW s, Fine(T, s), Unlocked(s),
         NEW d \in Operand, NEW u \in Operand, NEW w \in Operand, w \in Const,
         d \in T, u \in T, w \in T, w # u, w # d,
         Ready(s, u), Ready(s, w), s.nxt_code[w] <= 0,
         NEW t, t = PrintAdd(s, d, u, w)
  PROVE  Prints(T, s, t, {d, u, w})
<1> DEFINE a == Ensure(s, u)
           b == Allocate(a, d)
           f == Writes(b, d, b.reg_no[d])
<1>1. Computes(s, d, u, w, a, b, b, f) BY DEF Computes
<1>2. Computed(T, s, d, u, w, a, b, f)
  <2> HIDE DEF a, b, f
  <2> QED BY <1>1, Computing
<1>3. FreesOne(f, u, t) BY <1>2 DEF Computed, PrintAdd, FreesOne
<1>4. Gone(s, w) BY GlobalOperand DEF Gone
<1> HIDE DEF a, b, f
<1> QED BY <1>2, <1>3, <1>4, ReturnedOne

LEMMA AddKeeps ==
  ASSUME NEW T, Small(T), NEW s, Fine(T, s), Unlocked(s),
         NEW d \in Operand, NEW u \in Operand, NEW w \in Operand, w \notin Const,
         d \in T, u \in T, w \in T, w # u, w # d,
         Ready(s, u), Ready(s, w), NEW t, t = PrintAdd(s, d, u, w)
  PROVE  Prints(T, s, t, {d, u, w})
<1> DEFINE a == Ensure(s, u)
           b == Allocate(a, d)
           c == Ensure(b, w)
           f == Writes(c, d, b.reg_no[d])
           h == Free(f, {w})
<1>1. Computes(s, d, u, w, a, b, c, f) /\ c = Ensure(b, w) BY DEF Computes
<1>2. Computed(T, s, d, u, w, a, c, f) /\ ComputedBoth(c, w, f)
  <2> HIDE DEF a, b, c, f
  <2> QED BY <1>1, Computing
<1>3. t = Free(h, {u}) BY <1>2 DEF PrintAdd, Computed, ComputedBoth
<1>4. FreesOne(f, w, h) /\ FreesOne(h, u, t) BY <1>3 DEF FreesOne
<1> HIDE DEF a, b, c, f, h
<1> QED BY <1>2, <1>4, Returned

LEMMA MulKeeps ==
  ASSUME NEW T, Small(T), NEW s, Fine(T, s), Unlocked(s),
         NEW d \in Operand, NEW u \in Operand, NEW w \in Operand,
         d \in T, u \in T, w \in T, w # u, w # d,
         Ready(s, u), Ready(s, w), NEW t, t = PrintMul(s, d, u, w)
  PROVE  Prints(T, s, t, {d, u, w})
<1> DEFINE a == Ensure(s, u)
           b == Allocate(a, d)
           c == Ensure(b, w)
           f == Writes(c, d, b.reg_no[d])
           h == Free(f, {u})
<1>1. Computes(s, d, u, w, a, b, c, f) /\ c = Ensure(b, w) BY DEF Computes
<1>2. Computed(T, s, d, u, w, a, c, f) /\ ComputedBoth(c, w, f)
  <2> HIDE DEF a, b, c, f
  <2> QED BY <1>1, Computing
<1>3. t = Free(h, {w}) BY <1>2 DEF PrintMul, Computed, ComputedBoth
<1>4. FreesOne(f, u, h) /\ FreesOne(h, w, t) BY <1>3 DEF FreesOne
<1> HIDE DEF a, b, c, f, h
<1> QED BY <1>2, <1>4, Returned

LEMMA WriteKeeps ==
  ASSUME NEW T, Small(T), NEW s, Fine(T, s), Unlocked(s), NEW u \in Operand, u \in T,
         Ready(s, u),
         NEW t, t = PrintWrite(s, u)
  PROVE  Prints(T, s, t, {u})
<1> DEFINE a == Ensure(s, u)
<1>1. Fine(T, a) /\ Keeps(s, a, {u}) /\ a.reg_no[u] \in Reg /\ Found(a, u)
  BY EnsureKeeps DEF Ready
<1>2. Reads(a, u, a.reg_no[u]) = a
  <2> HIDE DEF a
  <2> QED BY <1>1, ReadsNothing
<1>3. FreesOne(a, u, t) BY <1>2 DEF PrintWrite, FreesOne
<1> HIDE DEF a
<1>4. Unlocked(a) /\ a.nxt_code = s.nxt_code /\ Held(a, u)
  BY <1>1 DEF Keeps, Reg, Unlocked, Held
<1>5. FreedOne(T, a, u, t) BY <1>1, <1>3, <1>4, FreeOne
<1>6. Keeps(s, t, {u} \cup {u}) BY <1>1, <1>5, KeepsTrans DEF FreedOne
<1>7. Keeps(s, t, {u}) BY <1>6 DEF Keeps
<1> QED BY <1>1, <1>4, <1>5, <1>7 DEF Prints, Gone, FreedOne, Held


(* RETURN: nothing runs after it, so nothing has to be found. *)
LEMMA ReturnKeeps ==
  ASSUME NEW T, Small(T), NEW s, Fine(T, s), Unlocked(s), NEW u \in Operand, u \in T,
         Ready(s, u),
         NEW t, t = PrintReturn(s, u)
  PROVE  /\ Fine(T, t) /\ t.dead /\ t.nxt_code = s.nxt_code /\ Unlocked(t)
         /\ \A x \in Operand \ {u} : Held(t, x) => Held(s, x)
<1> DEFINE a == PrintWrite(s, u)
           X == {a.reg[r] : r \in 0 .. S7 - 1} \ {None}
           b == Unbind(a, X)
<1>1. Prints(T, s, a, {u}) BY WriteKeeps
<1>2. t = [b EXCEPT !.dead = TRUE] BY DEF PrintReturn
<1> HIDE DEF a
<1>3. Fine(T, a) /\ Good(a) /\ a \in State BY <1>1 DEF Prints, Fine, Good
<1>4. X \in SUBSET Operand BY <1>3, LowRegisters DEF State
<1> HIDE DEF X
<1>5. /\ b.reg = [r \in Reg |-> IF \E x \in X : a.reg_no[x] = r THEN None ELSE a.reg[r]]
      /\ b.reg_no = [x \in Operand |-> IF x \in X THEN -1 ELSE a.reg_no[x]]
      /\ b.nxt_code = a.nxt_code /\ b.offset = a.offset /\ b.st_lk = a.st_lk
      /\ b.holds = a.holds /\ b.home = a.home /\ b.dead = a.dead
      /\ b.misread = a.misread /\ b.homeless = a.homeless /\ b.edge = a.edge
  BY <1>3, <1>4, UnbindFields
<1>6. Good(b) BY <1>3, <1>4, UnbindGood
<1> HIDE DEF b
<1>7. /\ Good(t) /\ t.reg = b.reg /\ t.reg_no = b.reg_no /\ t.nxt_code = b.nxt_code
      /\ t.offset = b.offset /\ t.st_lk = b.st_lk /\ t.home = b.home /\ t.dead
      /\ t.misread = b.misread /\ t.homeless = b.homeless
  BY <1>2, <1>6 DEF Good, State, Sound
<1>8. t.reg[S7] = None
  <2>1. S7 \in Reg /\ a.reg[S7] = None BY <1>3, RegisterNumbers DEF Fine, Reg
  <2> QED BY <1>5, <1>7, <2>1
<1>12. Exact(b) /\ Within(T, b) BY <1>3, <1>4, UnbindTight DEF Fine, b
<1>9. Fine(T, t) BY <1>3, <1>5, <1>7, <1>8, <1>12 DEF Fine, Exact, Within
<1>10. t.nxt_code = s.nxt_code /\ Unlocked(t)
  BY <1>1, <1>5, <1>7 DEF Prints, Keeps, Unlocked
<1>11. ASSUME NEW x \in Operand \ {u}, Held(t, x) PROVE Held(s, x)
  <2>1. a.reg_no[x] >= 0 BY <1>5, <1>7, <1>11 DEF Held
  <2> QED BY <1>1, <2>1 DEF Prints, Keeps, Held
<1> QED BY <1>7, <1>9, <1>10, <1>11

(* An operand in a register is in one of those that the loops visit.       *)
LEMMA Visited ==
  ASSUME NEW T, Small(T), NEW s, Fine(T, s), NEW x \in Operand, Held(s, x)
  PROVE  x \in {s.reg[r] : r \in 0 .. S7 - 1} \ {None}
<1>1. s.reg_no[x] \in Reg /\ s.reg[s.reg_no[x]] = x
  BY DEF Fine, Good, Exact, State, Held, Reg
<1>2. x # None BY OperandKinds DEF Operand, Tmp
<1>3. s.reg_no[x] # S7 BY <1>1, <1>2 DEF Fine
<1>4. s.reg_no[x] \in 0 .. S7 - 1 BY <1>1, <1>3, RegisterNumbers DEF Reg
<1> QED BY <1>1, <1>2, <1>4

LEMMA VisitedHeld ==
  ASSUME NEW T, NEW s, Fine(T, s), NEW x \in {s.reg[r] : r \in Reg} \ {None}
  PROVE  x \in Operand /\ Held(s, x)
<1>1. PICK r \in Reg : x = s.reg[r] OBVIOUS
<1>2. s.reg_no[x] = r /\ x \in Operand BY <1>1 DEF Fine, Good, Sound, State
<1>3. r >= 0 BY DEF Reg
<1> QED BY <1>2, <1>3 DEF Held

(* CALL stores whatever the callee could overwrite ... *)
LEMMA CallSaveKeeps ==
  ASSUME NEW T, Small(T), NEW s, Fine(T, s), Unlocked(s), NEW args, NEW t,
         t = CallSave(s, args)
  PROVE  /\ Fine(T, t) /\ t.nxt_code = s.nxt_code /\ t.st_lk
         /\ \A x \in Operand : /\ Found(s, x) => Found(t, x)
                               /\ Placed(s, x) => Placed(t, x)
                               /\ Held(t, x) => Held(s, x) /\ x \in args
<1> DEFINE X == {x \in {s.reg[r] : r \in 0 .. S7 - 1} \ {None} :
                    x \in args => s.nxt_code[x] > 0}
           a == Save(s, X)
           b == Unbind(a, X)
<1>1. s \in State /\ Good(s) /\ ~ s.st_lk BY DEF Fine, Good, Unlocked
<1>2. X \in SUBSET Operand /\ \A x \in X : s.reg_no[x] >= 0
  <2>1. \A x \in X : x \in {s.reg[r] : r \in Reg} \ {None} BY LowRegisters
  <2> HIDE DEF X
  <2> QED BY <2>1, VisitedHeld DEF Held
<1>3. \A x \in Operand : Held(s, x) /\ x \notin X => x \in args BY Visited
<1>4. t = [b EXCEPT !.st_lk = TRUE] BY DEF CallSave
<1> HIDE DEF X
<1>5. /\ a.reg = s.reg /\ a.reg_no = s.reg_no
      /\ a.nxt_code = s.nxt_code /\ a.offset = s.offset \cup X /\ a.st_lk = s.st_lk
      /\ a.holds = s.holds /\ a.dead = s.dead
      /\ a.home = (s.home \ X) \cup {x \in X : InRegister(s, x)}
      /\ a.misread = s.misread /\ a.homeless = s.homeless /\ a.edge = s.edge
  BY <1>1, <1>2, SaveFields
<1>6. Good(a) /\ a \in State BY <1>1, <1>2, SaveGood DEF Good
<1> HIDE DEF a
<1>7. /\ b.reg = [r \in Reg |-> IF \E x \in X : a.reg_no[x] = r THEN None ELSE a.reg[r]]
      /\ b.reg_no = [x \in Operand |-> IF x \in X THEN -1 ELSE a.reg_no[x]]
      /\ b.nxt_code = a.nxt_code /\ b.offset = a.offset /\ b.st_lk = a.st_lk
      /\ b.holds = a.holds /\ b.home = a.home /\ b.dead = a.dead
      /\ b.misread = a.misread /\ b.homeless = a.homeless /\ b.edge = a.edge
  BY <1>2, <1>6, UnbindFields
<1>8. Good(b) BY <1>2, <1>6, UnbindGood
<1> HIDE DEF b
<1>9. /\ Good(t) /\ t.reg = b.reg /\ t.reg_no = b.reg_no /\ t.nxt_code = b.nxt_code
      /\ t.offset = b.offset /\ t.st_lk /\ t.home = b.home /\ t.dead = b.dead
      /\ t.holds = b.holds /\ t.misread = b.misread /\ t.homeless = b.homeless
  BY <1>4, <1>8 DEF Good, State, Sound
<1>10. t.reg[S7] = None
  <2>1. S7 \in Reg /\ s.reg[S7] = None BY RegisterNumbers DEF Fine, Reg
  <2> QED BY <1>5, <1>7, <1>9, <2>1
<1>11. Fine(T, t)
  <2>1. t.offset = s.offset \cup X /\ t.misread = {} /\ t.homeless = {}
    BY <1>5, <1>7, <1>9 DEF Fine
  <2>2. t.home \subseteq s.home \cup X BY <1>5, <1>7, <1>9
  <2>3. Exact(b) /\ Within(T, b)
    <3>1. Exact(a) /\ Within(T, a) BY <1>5 DEF Fine, Exact, Within
    <3> QED BY <1>2, <1>6, <3>1, UnbindTight DEF b
  <2>4. Exact(t) /\ Within(T, t) BY <1>9, <2>3 DEF Exact, Within
  <2> QED BY <1>9, <1>10, <2>1, <2>2, <2>4 DEF Fine
<1>12. \A x \in Operand : t.reg_no[x] = IF x \in X THEN -1 ELSE s.reg_no[x]
  BY <1>5, <1>7, <1>9
<1>13. ASSUME NEW x \in Operand, Found(s, x) PROVE Found(t, x)
  <2>1. t.dead = s.dead /\ t.holds = s.holds BY <1>5, <1>7, <1>9
  <2>2. CASE x \in X
    <3>1. s.dead \/ InRegister(s, x) BY <1>2, <1>13, <2>2 DEF Found, InRegister
    <3>2. InRegister(s, x) => x \in t.home BY <1>5, <1>7, <1>9, <2>2
    <3> QED BY <1>12, <2>1, <2>2, <3>1, <3>2 DEF Found
  <2>3. CASE x \notin X
    <3>1. x \in s.home => x \in t.home BY <1>5, <1>7, <1>9, <2>3
    <3> QED BY <1>12, <1>13, <2>1, <2>3, <3>1 DEF Found
  <2> QED BY <2>2, <2>3
<1>14. \A x \in Operand : Placed(s, x) => Placed(t, x)
  <2>1. t.offset = s.offset \cup X BY <1>5, <1>7, <1>9
  <2> QED BY <1>12, <2>1 DEF Placed
<1>15. \A x \in Operand : Held(t, x) => Held(s, x) /\ x \in args
  <2> SUFFICES ASSUME NEW x \in Operand, Held(t, x) PROVE Held(s, x) /\ x \in args
    OBVIOUS
  <2>1. x \notin X /\ Held(s, x) BY <1>12 DEF Held
  <2> QED BY <1>3, <2>1
<1> QED BY <1>5, <1>7, <1>9, <1>11, <1>13, <1>14, <1>15


(* ... loads the arguments, ... *)
LEMMA CallPassKeeps ==
  ASSUME NEW T, Small(T), NEW s, Fine(T, s), NEW u \in Operand, u \in T, Ready(s, u),
         NEW t, t = CallPass(s, u)
  PROVE  Fine(T, t) /\ Keeps(s, t, {u}) /\ Ready(t, u)
<1> DEFINE a == Ensure(s, u)
<1>1. Fine(T, a) /\ Keeps(s, a, {u}) /\ a.reg_no[u] \in Reg /\ Found(a, u)
  BY EnsureKeeps DEF Ready
<1>2. Reads(a, u, a.reg_no[u]) = a
  <2> HIDE DEF a
  <2> QED BY <1>1, ReadsNothing
<1>3. t = a BY <1>2 DEF CallPass
<1> HIDE DEF a
<1>4. \A r \in Reg : r >= 0 BY DEF Reg
<1>5. Placed(a, u) BY <1>1, <1>4 DEF Placed
<1> QED BY <1>1, <1>3, <1>5 DEF Ready

(* ... and gives up the registers: what was in none can still be found.    *)
LEMMA CallJumpKeeps ==
  ASSUME NEW T, Small(T), NEW s, Fine(T, s), NEW d \in Operand, d \in T, NEW t,
         t = CallJump(s, d)
  PROVE  /\ Fine(T, t) /\ t.nxt_code = s.nxt_code /\ Unlocked(t) /\ Ready(t, d) /\ Held(t, d)
         /\ t.dead = s.dead
         /\ \A x \in Operand \ {d} :
               /\ Held(t, x) => Held(s, x)
               /\ ~ Held(s, x) => /\ Found(s, x) => Found(t, x)
                                  /\ Placed(s, x) => Placed(t, x)
<1> DEFINE X == {s.reg[r] : r \in 0 .. T9 - 1} \ {None}
           b == Unbind(s, X)
           a == [b EXCEPT !.st_lk = FALSE, !.holds = [r \in Reg |-> None]]
<1>1. s \in State /\ Good(s) BY DEF Fine, Good
<1>2. X \in SUBSET Operand BY <1>1, LowRegisters DEF State
<1>3. t = PrintDefine(a, d) BY DEF CallJump
<1> HIDE DEF X
<1>4. /\ b.reg = [r \in Reg |-> IF \E x \in X : s.reg_no[x] = r THEN None ELSE s.reg[r]]
      /\ b.reg_no = [x \in Operand |-> IF x \in X THEN -1 ELSE s.reg_no[x]]
      /\ b.nxt_code = s.nxt_code /\ b.offset = s.offset /\ b.st_lk = s.st_lk
      /\ b.holds = s.holds /\ b.home = s.home /\ b.dead = s.dead
      /\ b.misread = s.misread /\ b.homeless = s.homeless /\ b.edge = s.edge
  BY <1>1, <1>2, UnbindFields
<1>5. Good(b) BY <1>1, <1>2, UnbindGood
<1>6. a = [b EXCEPT !.st_lk = FALSE, !.holds = [r \in Reg |-> None]] OBVIOUS
<1> HIDE DEF a, b
<1>7. /\ Good(a) /\ a.reg = b.reg /\ a.reg_no = b.reg_no /\ a.nxt_code = b.nxt_code
      /\ a.offset = b.offset /\ ~ a.st_lk /\ a.home = b.home /\ a.dead = b.dead
      /\ a.misread = b.misread /\ a.homeless = b.homeless
  BY <1>5, <1>6 DEF Good, State, Sound
<1>8. a.reg[S7] = None
  <2>1. S7 \in Reg /\ s.reg[S7] = None BY RegisterNumbers DEF Fine, Reg
  <2> QED BY <1>4, <1>7, <2>1
<1>19. Exact(b) /\ Within(T, b) BY <1>1, <1>2, UnbindTight DEF Fine, b
<1>9. Fine(T, a) BY <1>4, <1>7, <1>8, <1>19 DEF Fine, Exact, Within
<1>10. \A x \in Operand : a.reg_no[x] = IF x \in X THEN -1 ELSE s.reg_no[x]
  BY <1>4, <1>7
<1>11. ASSUME NEW x \in Operand, ~ Held(s, x)
       PROVE  /\ Found(s, x) => Found(a, x)
              /\ Placed(s, x) => Placed(a, x)
  <2>1. ~ Held(a, x) BY <1>10, <1>11 DEF Held
  <2>2. a.dead = s.dead /\ a.home = s.home /\ a.offset = s.offset BY <1>4, <1>7
  <2> QED BY <1>11, <2>1, <2>2 DEF Held, Found, Placed
<1>12. \A x \in Operand : Held(a, x) => Held(s, x) BY <1>10 DEF Held
<1>13. Prints(T, a, t, {d}) /\ Found(t, d) /\ t.reg_no[d] \in Reg
  BY <1>3, <1>9, DefineKeeps
<1>14. Held(t, d)
  <2>1. \A r \in Reg : r >= 0 BY DEF Reg
  <2> QED BY <1>13, <2>1 DEF Held
<1>15. Ready(t, d) BY <1>13, <1>14 DEF Ready, Placed, Held
<1>16. Fine(T, t) /\ t.nxt_code = s.nxt_code /\ Unlocked(t) /\ t.dead = s.dead
  BY <1>4, <1>7, <1>13 DEF Prints, Keeps, Unlocked
<1>17. ASSUME NEW x \in Operand \ {d}
       PROVE  /\ Held(t, x) => Held(a, x)
              /\ Found(a, x) => Found(t, x)
              /\ Placed(a, x) => Placed(t, x)
  BY <1>13 DEF Prints, Keeps, Held
<1>18. ASSUME NEW x \in Operand \ {d}
       PROVE  /\ Held(t, x) => Held(s, x)
              /\ ~ Held(s, x) => /\ Found(s, x) => Found(t, x)
                                 /\ Placed(s, x) => Placed(t, x)
  BY <1>11, <1>12, <1>17
<1> QED BY <1>14, <1>15, <1>16, <1>18

(* The end of a block: whatever is not mentioned again goes home.          *)
LEMMA BlockFreed ==
  ASSUME NEW T, Small(T), NEW s, Fine(T, s), Unlocked(s),
         \A x \in Operand : s.nxt_code[x] = -1,
         NEW X \in SUBSET Operand, \A x \in X : Held(s, x),
         NEW t, t = Free(s, X)
  PROVE  /\ Fine(T, t) /\ Keeps(s, t, X) /\ t.dead = s.dead /\ Unlocked(t)
         /\ \A z \in Global : (z \in X \/ ~ Held(s, z)) /\ Found(s, z)
                              => Found(t, z) /\ (t.dead \/ z \in t.home)
<1>0. \A x \in X : s.reg_no[x] >= 0 BY DEF Held
<1>1. /\ Fine(T, t) /\ Keeps(s, t, X)
      /\ \A x \in X : ~ Gone(s, x) => (Found(s, x) => Found(t, x)) /\ Placed(t, x)
      /\ \A x \in X \cap Global : s.nxt_code[x] <= 0 /\ Found(s, x) /\ ~ s.dead
                                  => x \in t.home
      /\ \A x \in Operand \ X : x \in s.home => x \in t.home
  BY <1>0, FreeKeeps DEF Unlocked
<1>2. t.dead = s.dead /\ Unlocked(t) BY <1>1 DEF Keeps, Unlocked
<1>3. ASSUME NEW z \in Global, z \in X \/ ~ Held(s, z), Found(s, z)
      PROVE  Found(t, z) /\ (t.dead \/ z \in t.home)
  <2>1. z \in Operand /\ z \notin Const BY GlobalOperand
  <2>2. CASE z \in X
    <3>1. ~ Gone(s, z) BY DEF Gone
    <3>2. s.nxt_code[z] <= 0 BY <2>1
    <3>3. Found(t, z) BY <1>1, <1>3, <2>2, <3>1
    <3>4. ~ s.dead => z \in t.home BY <1>1, <1>3, <2>2, <3>2
    <3> QED BY <1>2, <3>3, <3>4
  <2>3. CASE z \notin X
    <3>1. s.dead \/ z \in s.home BY <1>3, <2>1, <2>3 DEF Found, Held
    <3>2. Found(t, z) BY <1>1, <1>3, <2>1, <2>3 DEF Keeps
    <3> QED BY <1>1, <1>2, <2>1, <2>3, <3>1, <3>2
  <2> QED BY <2>2, <2>3
<1> QED BY <1>1, <1>2, <1>3


(* CJP: the operands that the blocks share are home before it is taken.    *)
LEMMA BranchKeeps ==
  ASSUME NEW T, Small(T), NEW s, Fine(T, s), Unlocked(s),
         \A z \in Operand : s.nxt_code[z] = -1,
         NEW x \in Operand, NEW y \in Operand,
         x \in T, y \in T, x # y, Ready(s, x), Ready(s, y),
         NEW first \in {x, y}, NEW second \in {x, y} \ {first},
         NEW t, t = PrintBranch(s, x, y, first, second)
  PROVE  /\ Fine(T, t) /\ Unlocked(t)
         /\ \A z \in Operand \ {x, y} : Held(t, z) => Held(s, z)
         /\ \A z \in Global \ {x, y} : Found(s, z) => Found(t, z) /\ (t.dead \/ z \in t.edge)
<1> DEFINE others == {s.reg[r] : r \in 0 .. S7 - 1} \ {None, x, y}
           f == Free(s, others)
           a == Ensure(f, first)
           b == Ensure(a, second)
           e == [b EXCEPT !.edge = b.home]
           h == Free(e, {x})
<1>0. /\ first \in Operand /\ second \in Operand /\ first # second
      /\ first \in T /\ second \in T
  OBVIOUS
<1>1. \A z \in Operand \ {x, y} : z \in others \/ ~ Held(s, z) BY Visited
<1>2. others \in SUBSET Operand /\ \A z \in others : Held(s, z)
  <2>1. \A z \in others : z \in {s.reg[r] : r \in Reg} \ {None} BY LowRegisters
  <2> HIDE DEF others
  <2> QED BY <2>1, VisitedHeld
<1>3. x \notin others /\ y \notin others OBVIOUS
<1>4. /\ Fine(T, f) /\ Keeps(s, f, others) /\ f.dead = s.dead /\ Unlocked(f)
      /\ \A z \in Global \ {x, y} : Found(s, z) => Found(f, z) /\ (f.dead \/ z \in f.home)
  <2> HIDE DEF others
  <2>1. f = Free(s, others) OBVIOUS
  <2> HIDE DEF f
  <2>2. /\ Fine(T, f) /\ Keeps(s, f, others) /\ f.dead = s.dead /\ Unlocked(f)
        /\ \A z \in Global : (z \in others \/ ~ Held(s, z)) /\ Found(s, z)
                              => Found(f, z) /\ (f.dead \/ z \in f.home)
    BY <1>2, <2>1, BlockFreed
  <2> QED BY <1>1, <2>2, GlobalOperand
<1>5. Ready(f, first) /\ Ready(f, second)
  <2> HIDE DEF others, f
  <2> QED BY <1>3, <1>4 DEF Keeps, Ready
<1>6. /\ Fine(T, a) /\ Keeps(f, a, {first}) /\ a.reg_no[first] \in Reg /\ Found(a, first)
      /\ a.home = f.home
  <2>1. /\ a = Ensure(f, first) /\ Fine(T, f) /\ first \in Operand /\ first \in T
        /\ Found(f, first) /\ Placed(f, first)
    BY <1>0, <1>4, <1>5 DEF Ready
  <2> HIDE DEF others, f, a
  <2> QED BY <2>1, EnsureKeeps
<1>7. Ready(a, second)
  <2> HIDE DEF others, f, a
  <2> QED BY <1>0, <1>5, <1>6 DEF Keeps, Ready
<1>8. /\ Fine(T, b) /\ Keeps(a, b, {second}) /\ b.reg_no[second] \in Reg /\ Found(b, second)
      /\ b.home = a.home /\ b.reg_no[first] = a.reg_no[first]
  <2>1. /\ b = Ensure(a, second) /\ Fine(T, a) /\ second \in Operand /\ second \in T
        /\ Found(a, second) /\ Placed(a, second) /\ first \in Operand \ {second}
    BY <1>0, <1>6, <1>7 DEF Ready
  <2> HIDE DEF others, f, a, b
  <2>2. /\ Fine(T, b) /\ Keeps(a, b, {second}) /\ b.reg_no[second] \in Reg
        /\ Found(b, second) /\ b.home = a.home
        /\ \A z \in Operand \ {second} : b.reg_no[z] = a.reg_no[z]
    BY <2>1, EnsureKeeps
  <2> QED BY <2>1, <2>2
<1>9. Found(b, first)
  <2> HIDE DEF others, f, a, b
  <2> QED BY <1>0, <1>6, <1>8 DEF Keeps
<1>10. Reads(b, first, a.reg_no[first]) = b /\ Reads(b, second, b.reg_no[second]) = b
  <2> HIDE DEF others, f, a, b
  <2> QED BY <1>6, <1>8, <1>9, ReadsNothing
<1>25. \A z \in Operand \ {x, y} : b.reg_no[z] >= 0 => Held(s, z)
  <2>1. \A z \in Operand \ {x, y} : b.reg_no[z] >= 0 => f.reg_no[z] >= 0
    <3> HIDE DEF others, f, a, b
    <3> QED BY <1>6, <1>8 DEF Keeps
  <2>2. \A z \in Operand \ others : f.reg_no[z] >= 0 => Held(s, z)
    <3> HIDE DEF others, f
    <3> QED BY <1>4 DEF Keeps, Held
  <2> QED BY <1>2, <2>1, <2>2
<1>11. t = Free(h, {y}) BY <1>10 DEF PrintBranch
<1>12. e = [b EXCEPT !.edge = b.home] /\ b \in State BY <1>8 DEF Fine, Good
<1>13. FreesOne(e, x, h) /\ FreesOne(h, y, t) BY <1>11 DEF FreesOne
<1> HIDE DEF others, f, a, b, e, h
<1>14. /\ e.reg = b.reg /\ e.reg_no = b.reg_no /\ e.nxt_code = b.nxt_code
       /\ e.offset = b.offset /\ e.st_lk = b.st_lk /\ e.home = b.home /\ e.dead = b.dead
       /\ e.holds = b.holds /\ e.misread = b.misread /\ e.homeless = b.homeless
       /\ e.edge = b.home
  BY <1>12 DEF State
<1>15. Good(e) BY <1>8, <1>12, <1>14 DEF Fine, Good, State, Sound
<1>16. Fine(T, e) BY <1>8, <1>14, <1>15 DEF Fine, Exact, Within
<1>17. \A z : Found(b, z) => Found(e, z) BY <1>14 DEF Found
<1>18. \A r \in Reg : r >= 0 BY DEF Reg
<1>19. Held(e, first) /\ Held(e, second) BY <1>6, <1>8, <1>14, <1>18 DEF Held
<1>20. /\ Held(e, x) /\ Held(e, y) /\ Found(e, x) /\ Found(e, y)
  BY <1>8, <1>9, <1>17, <1>19
<1>21. Unlocked(e) BY <1>4, <1>6, <1>8, <1>14 DEF Keeps, Unlocked
<1>22. Prints(T, e, t, {y, x}) /\ t.edge = e.edge
  <2>1. x \in Operand /\ y \in Operand /\ x # y OBVIOUS
  <2> QED BY <1>13, <1>16, <1>20, <1>21, <2>1, FreeTwice, SMTT(30)
<1>23. Fine(T, t) /\ Unlocked(t) BY <1>21, <1>22 DEF Prints, Keeps, Unlocked
<1>24. ASSUME NEW z \in Global \ {x, y}, Found(s, z)
       PROVE  Found(t, z) /\ (t.dead \/ z \in t.edge)
  <2>1. Found(f, z) /\ (f.dead \/ z \in f.home) BY <1>4, <1>24
  <2>2. z \in Operand /\ z # first /\ z # second BY GlobalOperand
  <2>3. Found(b, z) BY <1>6, <1>8, <2>1, <2>2 DEF Keeps
  <2>4. Found(t, z) BY <1>17, <1>22, <2>2, <2>3 DEF Prints, Keeps
  <2>5. t.dead = f.dead BY <1>6, <1>8, <1>14, <1>22 DEF Prints, Keeps
  <2>6. t.edge = f.home BY <1>6, <1>8, <1>14, <1>22
  <2> QED BY <2>1, <2>4, <2>5, <2>6
<1>26. \A z \in Operand \ {x, y} : Held(t, z) => Held(s, z)
  BY <1>14, <1>22, <1>25 DEF Prints, Keeps, Held
<1> QED BY <1>23, <1>24, <1>26


-----------------------------------------------------------------------------
(* The steps.                                                              *)

(* T has the operands that this line needs registers for.                  *)
Enough(T) == Small(T) /\ Demand \subseteq T

LEMMA Narrow ==
  ASSUME Fine(Operand, g), NEW T, Enough(T)
  PROVE  Small(T) /\ Fine(T, g)
<1>1. \A r \in Reg : g.reg[r] \in T \cup {None} BY DEF Enough, Demand
<1> QED BY <1>1 DEF Fine, Within, Enough

LEMMA Widen ==
  ASSUME NEW T, Small(T), NEW s, Fine(T, s)
  PROVE  Fine(Operand, s)
BY DEF Fine, Within, Small

(* What the line mentions is among them.                                   *)
LEMMA Wanted ==
  ASSUME IInv, NEW T, Enough(T), NEW uses \in SUBSET Operand, NEW d,
         \/ d \in Operand /\ Mentions(uses, {d})
         \/ d = None /\ Mentions(uses, {})
  PROVE  uses \subseteq T /\ (d \in Operand => d \in T)
<1>1. None \notin Operand BY OperandKinds DEF Operand, Tmp
<1>2. last' = d BY MentionsType
<1>3. uses \subseteq Promised \cup (touched' \ touched) BY DEF Mentions
<1> QED BY <1>1, <1>2, <1>3 DEF Enough, Demand

(* Only the annotations change before an instruction is printed.           *)
LEMMA AnnotatedSame ==
  ASSUME NEW T, Fine(T, g), Unlocked(g), NEW n, Good(Annotated(n)), NEW s,
         s = Annotated(n)
  PROVE  /\ Fine(T, s) /\ Unlocked(s) /\ s.nxt_code = n /\ s.reg_no = g.reg_no
         /\ \A x : /\ Found(g, x) => Found(s, x)
                   /\ Placed(g, x) => Placed(s, x)
                   /\ Held(s, x) <=> Held(g, x)
<1>1. g \in State BY DEF Fine, Good
<1>2. /\ s.reg = g.reg /\ s.reg_no = g.reg_no /\ s.nxt_code = n
      /\ s.offset = g.offset /\ s.st_lk = g.st_lk /\ s.home = g.home /\ s.dead = g.dead
      /\ s.holds = g.holds /\ s.misread = g.misread /\ s.homeless = g.homeless
  BY <1>1 DEF Annotated, State
<1> QED BY <1>2 DEF Fine, Exact, Within, Unlocked, Found, Placed, Held

(* What the instruction does not mention keeps its annotation, and a       *)
(* constant has no next mention.                                           *)
LEMMA AnnotationsOf ==
  ASSUME NEW M \in SUBSET Operand, NEW n \in Annotations(M)
  PROVE  /\ \A x \in Operand \ M : n[x] = g.nxt_code[x]
         /\ \A c \in M \cap Const : n[c] = -1
BY DEF Annotations

(* The invariant, as far as it speaks of a block that is going on.         *)
LEMMA Going ==
  ASSUME IInv, VInv, at = "block"
  PROVE  /\ Fine(Operand, g) /\ Unlocked(g) /\ idx \in Nat
         /\ \A x \in Operand \ touched : ~ Held(g, x)
         /\ \A c \in Const : g.nxt_code[c] = -1
         /\ \A u \in Args : /\ u \in Tmp /\ u \in touched /\ Unneeded(u) /\ Ready(g, u)
         /\ \A x \in Alive : Found(g, x)
         /\ \A x \in Temp : g.nxt_code[x] >= idx => Placed(g, x)
         /\ last # None => last \in touched
         /\ last # None /\ g.nxt_code[last] >= idx => Held(g, last)
<1>1. \A x \in Operand : g.reg_no[x] \in Reg \cup {-1} BY DEF IInv, Good, State
<1>2. \A x \in Operand : g.reg_no[x] < 0 => ~ Held(g, x) BY <1>1 DEF Reg, Held
<1>3. idx \in Nat BY DEF IInv, TypeOK
<1> QED BY <1>2, <1>3 DEF VInv, InBlock, Unlocked, Ready, Held

(* An instruction asks for operands that can be found.                     *)
LEMMA UsesReady ==
  ASSUME IInv, VInv, NEW uses \in SUBSET Operand, NEW defs, Mentions(uses, defs)
  PROVE  \A u \in uses : /\ Ready(g, u)
                         /\ u \in touched => g.nxt_code[u] = idx
<1>1. /\ at = "block" /\ uses \subseteq Promised \cup ((Global \cup Const) \ touched)
      /\ uses \cap spent = {}
  BY DEF Mentions
<1> SUFFICES ASSUME NEW u \in uses
             PROVE  Ready(g, u) /\ (u \in touched => g.nxt_code[u] = idx)
  OBVIOUS
<1>2. u \in touched => g.nxt_code[u] = idx BY <1>1 DEF Promised
<1>3. idx \in Nat BY <1>1, Going
<1>4. CASE u \in Global
  <2>1. u \in Alive BY <1>1, <1>4 DEF Alive, Needed
  <2>2. u \in g.offset BY <1>1, <1>4, Going DEF Fine
  <2> QED BY <1>1, <1>2, <2>1, <2>2, Going DEF Ready, Placed
<1>5. CASE u \in Const
  <2>1. g.nxt_code[u] = -1 BY <1>1, <1>5, Going
  <2>2. u \notin touched BY <1>2, <1>3, <2>1
  <2>3. ~ Held(g, u) BY <1>1, <2>2, Going
  <2> QED BY <1>5, <2>2, <2>3 DEF Ready, Found, Placed, Held
<1>6. CASE u \in Temp
  <2>1. g.nxt_code[u] = idx
    BY <1>1, <1>6, OperandKinds DEF Promised, Global
  <2>2. u \in Alive BY <1>3, <1>6, <2>1 DEF Alive
  <2>3. Placed(g, u) BY <1>1, <1>3, <1>6, <2>1, Going
  <2> QED BY <1>1, <2>1, <2>2, <2>3, Going DEF Ready
<1> QED BY <1>4, <1>5, <1>6 DEF Operand, Global, Tmp

(* An instruction that only mentions its operands keeps the invariant.     *)
LEMMA StraightValues ==
  ASSUME IInv, VInv, NEW T, Enough(T), NEW uses \in SUBSET Operand, NEW d,
         \/ d \in Operand /\ Mentions(uses, {d})
         \/ d = None /\ Mentions(uses, {}),
         Straight, NEW M \in SUBSET Operand, uses \subseteq M, M \subseteq uses \cup {d},
         d # None => d \in M,
         NEW n \in Annotations(M), Prints(T, Annotated(n), g', M)
  PROVE  VInv'
<1> DEFINE s == Annotated(n)
<1>1. /\ idx < MaxLen /\ Promised \subseteq uses /\ at = "block" /\ idx' = idx + 1
      /\ last' = d
  BY MentionsType
<1>2. touched' = touched \cup M
  <2>1. \/ d \in Operand /\ touched' = touched \cup uses \cup {d}
        \/ d = None /\ touched' = touched \cup uses
    BY DEF Mentions
  <2>2. None \notin Operand BY OperandKinds DEF Operand, Tmp
  <2> QED BY <2>1, <2>2
<1>3. at' = "block" /\ spent' = spent /\ arg_list' = <<>> BY <1>1 DEF Straight
<1>4. /\ Good(s) /\ s.nxt_code = n /\ \A x \in Operand : n[x] = -1 \/ n[x] >= idx + 1
  BY <1>1, AnnotationsAhead DEF NextOf
<1>5. /\ Small(T) /\ Fine(T, g) /\ Unlocked(g) /\ idx \in Nat
  BY <1>1, Going, Narrow
<1>6. s = Annotated(n) OBVIOUS
<1> HIDE DEF s
<1>7. /\ Fine(T, s) /\ Unlocked(s)
      /\ \A x : /\ Found(g, x) => Found(s, x)
                /\ Placed(g, x) => Placed(s, x)
                /\ Held(s, x) <=> Held(g, x)
  BY <1>4, <1>5, <1>6, AnnotatedSame
<1>8. Prints(T, s, g', M) BY <1>6
<1>9. /\ Fine(Operand, g') /\ g'.nxt_code = n /\ Unlocked(g')
      /\ \A x \in M : ~ Gone(s, x) => /\ Found(g', x) /\ Placed(g', x)
                                      /\ n[x] > 0 => Held(g', x)
      /\ \A x \in Operand \ M : /\ Found(s, x) => Found(g', x)
                                /\ Placed(s, x) => Placed(g', x)
                                /\ Held(g', x) => Held(s, x)
  <2>1. Fine(Operand, g') BY <1>5, <1>8, Widen DEF Prints
  <2> QED BY <1>4, <1>7, <1>8, <2>1 DEF Prints, Keeps, Unlocked, Held
<1>10. \A x \in Operand \ M : n[x] = g.nxt_code[x] BY AnnotationsOf
<1>13. \A x \in Operand : n[x] >= idx + 1 => /\ n[x] >= idx /\ n[x] > 0
                                             /\ ~ (n[x] <= 0)
  <2>1. \A x \in Operand : n[x] \in Int BY <1>4 DEF Good, State
  <2> QED BY <1>5, <2>1
<1>11. ASSUME NEW x \in Operand, x \in Global \ spent \/ (x \in Temp /\ n[x] >= idx + 1)
       PROVE  Found(g', x)
  <2>1. CASE x \in M
    <3>1. ~ Gone(s, x) BY <1>4, <1>11, <1>13 DEF Gone
    <3> QED BY <1>9, <2>1, <3>1
  <2>2. CASE x \notin M
    <3>1. x \in Global \ spent \/ (x \in Temp /\ g.nxt_code[x] >= idx)
      BY <1>10, <1>11, <1>13, <2>2
    <3>2. Found(g, x) BY <1>1, <3>1, Going DEF Alive, Needed
    <3> QED BY <1>7, <1>9, <2>2, <3>2
  <2> QED BY <2>1, <2>2
<1>12. ASSUME NEW x \in Temp, n[x] >= idx + 1 PROVE Placed(g', x)
  <2>0. x \in Operand BY DEF Operand, Tmp
  <2>1. CASE x \in M
    <3>1. ~ Gone(s, x) BY <1>4, <1>12, <1>13, <2>0 DEF Gone, Global
    <3> QED BY <1>9, <2>1, <3>1
  <2>2. CASE x \notin M
    <3>1. g.nxt_code[x] >= idx BY <1>10, <1>12, <1>13, <2>0, <2>2
    <3>2. Placed(g, x) BY <1>1, <3>1, Going
    <3> QED BY <1>7, <1>9, <2>0, <2>2, <3>2
  <2> QED BY <2>1, <2>2
<1>14. \A x \in Operand \ touched' : g'.reg_no[x] < 0
  <2> SUFFICES ASSUME NEW x \in Operand, x \notin touched \cup M PROVE g'.reg_no[x] < 0
    BY <1>2
  <2>1. ~ Held(g', x) BY <1>1, <1>7, <1>9, Going
  <2>2. g'.reg_no[x] \in Reg \cup {-1} BY <1>9 DEF Fine, Good, State
  <2>3. \A r \in Reg : r >= 0 BY DEF Reg
  <2> QED BY <2>1, <2>2, <2>3 DEF Held
<1>15. \A c \in Const : n[c] = -1
  <2>1. Const \subseteq Operand BY DEF Operand
  <2>2. \A c \in Const : c \in M => n[c] = -1 BY AnnotationsOf
  <2>3. \A c \in Const : g.nxt_code[c] = -1 BY <1>1, Going
  <2> QED BY <1>10, <2>1, <2>2, <2>3
<1>16. Args' = {} BY <1>3 DEF Args
<1>17. \A x \in Alive' : Found(g', x)
  <2>1. Alive' = (Global \ spent) \cup {x \in Temp : n[x] >= idx + 1}
    BY <1>1, <1>3, <1>9 DEF Alive, Needed
  <2>2. Temp \subseteq Operand /\ Global \subseteq Operand
    BY GlobalOperand DEF Operand, Tmp
  <2> QED BY <1>11, <2>1, <2>2
<1>18. last' # None => last' \in touched' BY <1>1, <1>2
<1>19. last' # None /\ n[last'] >= idx + 1 => g'.reg_no[last'] >= 0
  <2> SUFFICES ASSUME d # None, n[d] >= idx + 1 PROVE g'.reg_no[d] >= 0
    BY <1>1
  <2>1. d \in M /\ d \in Operand OBVIOUS
  <2>2. ~ Gone(s, d) /\ n[d] > 0 BY <1>4, <1>13, <2>1 DEF Gone
  <2> QED BY <1>9, <2>1, <2>2 DEF Held
<1>20. InBlock' BY <1>1, <1>3, <1>9, <1>12, <1>17, <1>18, <1>19 DEF InBlock
<1>21. (at = "block")' /\ (at # "exit")' /\ (at # "branched")' /\ (at # "passing")'
  BY <1>3
<1>22. Passing' /\ Branched' /\ HomesAtExit' /\ HomesAtBranch'
  BY <1>21 DEF Passing, Branched, HomesAtExit, HomesAtBranch
<1> QED BY <1>9, <1>14, <1>15, <1>16, <1>20, <1>21, <1>22 DEF VInv, Unlocked


(* Before an instruction is printed, its operands are ready.               *)
Prepared(T, uses, M, s) ==
    /\ Small(T) /\ Fine(T, s) /\ Unlocked(s)
    /\ uses \subseteq T /\ \A u \in uses : Ready(s, u)
    /\ \A c \in M \cap Const : s.nxt_code[c] = -1
    /\ last # None /\ last \in uses => Held(s, last)

LEMMA AnnotatedReady ==
  ASSUME IInv, VInv, NEW T, Enough(T), NEW uses \in SUBSET Operand, NEW d,
         \/ d \in Operand /\ Mentions(uses, {d})
         \/ d = None /\ Mentions(uses, {}),
         NEW M \in SUBSET Operand, uses \subseteq M, NEW n \in Annotations(M),
         NEW s, s = Annotated(n)
  PROVE  Prepared(T, uses, M, s) /\ (d \in Operand => d \in T)
<1>1. idx < MaxLen /\ Promised \subseteq uses /\ at = "block" BY MentionsType
<1>2. Good(s) /\ s.nxt_code = n BY <1>1, AnnotationsAhead
<1>3. Small(T) /\ Fine(T, g) /\ Unlocked(g) /\ idx \in Nat BY <1>1, Going, Narrow
<1>4. Good(Annotated(n)) BY <1>2
<1>5. /\ Fine(T, s) /\ Unlocked(s)
      /\ \A x : /\ Found(g, x) => Found(s, x)
                /\ Placed(g, x) => Placed(s, x)
                /\ Held(s, x) <=> Held(g, x)
  BY <1>3, <1>4, AnnotatedSame
<1>6. \A u \in uses : Ready(g, u) /\ (u \in touched => g.nxt_code[u] = idx)
  BY UsesReady
<1>7. \A c \in M \cap Const : n[c] = -1 BY AnnotationsOf
<1>8. ASSUME last # None, last \in uses PROVE Held(s, last)
  <2>1. last \in touched BY <1>1, <1>8, Going
  <2>2. g.nxt_code[last] >= idx BY <1>3, <1>6, <1>8, <2>1
  <2> QED BY <1>1, <1>5, <1>8, <2>2, Going
<1>9. uses \subseteq T /\ (d \in Operand => d \in T) BY Wanted
<1> QED BY <1>2, <1>3, <1>5, <1>6, <1>7, <1>8, <1>9 DEF Prepared, Ready

LEMMA DefiningReady ==
  ASSUME IInv, VInv, NEW T, Enough(T), NEW uses \in SUBSET Operand,
         NEW d \in Operand, Mentions(uses, {d}),
         NEW M \in SUBSET Operand, uses \subseteq M, NEW n \in Annotations(M)
  PROVE  Prepared(T, uses, M, Annotated(n)) /\ d \in T
BY AnnotatedReady

LEMMA UsingReady ==
  ASSUME IInv, VInv, NEW T, Enough(T), NEW uses \in SUBSET Operand, Mentions(uses, {}),
         NEW M \in SUBSET Operand, uses \subseteq M, NEW n \in Annotations(M)
  PROVE  Prepared(T, uses, M, Annotated(n))
BY AnnotatedReady

LEMMA StraightVInv ==
  ASSUME IInv, VInv, NEW T, Enough(T),
         \/ \E d \in Var \cup Tmp : Define(d)
         \/ \E d, u \in Var \cup Tmp : Copy(d, u)
         \/ \E p, u \in Tmp : Store(p, u)
         \/ \E d, u, w \in Tmp : Binary(d, u, w)
         \/ \E d, w \in Tmp, c \in Const : Negate(d, c, w)
         \/ \E t \in Tmp, c \in Const : Scale(t, c)
         \/ \E p \in Tmp, w \in Tmp \cup Const : Displace(p, w)
         \/ \E u \in Tmp : Write(u)
  PROVE  VInv'
<1> Var \cup Tmp \subseteq Operand /\ Tmp \subseteq Operand /\ Const \subseteq Operand
  BY DEF Operand
<1>0. Tmp \cap Const = {} /\ None \notin Operand BY OperandKinds DEF Operand, Tmp
<1>1. ASSUME NEW d \in Var \cup Tmp, Define(d) PROVE VInv'
  <2>1. Straight /\ Mentions({}, {d}) BY <1>1 DEF Define
  <2>2. PICK n \in Annotations({d}) : g' = PrintDefine(Annotated(n), d)
    BY <1>1 DEF Define
  <2>3. /\ d \in Operand /\ {} \in SUBSET Operand /\ {d} \in SUBSET Operand
        /\ {} \subseteq {d} /\ {d} \subseteq {} \cup {d} /\ d \in {d}
    OBVIOUS
  <2>4. Prepared(T, {}, {d}, Annotated(n)) /\ d \in T BY <2>1, <2>3, DefiningReady
  <2>5. Prints(T, Annotated(n), g', {d}) BY <2>2, <2>3, <2>4, DefineKeeps DEF Prepared
  <2> QED BY <2>1, <2>3, <2>5, StraightValues
<1>2. ASSUME NEW d \in Var \cup Tmp, NEW u \in Var \cup Tmp, Copy(d, u)
      PROVE  VInv'
  <2>1. Straight /\ Mentions({u}, {d}) /\ d # u BY <1>2 DEF Copy
  <2>2. PICK n \in Annotations({u, d}) : g' = PrintCopy(Annotated(n), d, u)
    BY <1>2 DEF Copy
  <2>3. /\ d \in Operand /\ {u} \in SUBSET Operand /\ {u, d} \in SUBSET Operand
        /\ {u} \subseteq {u, d} /\ {u, d} \subseteq {u} \cup {d} /\ d \in {u, d}
    OBVIOUS
  <2>4. Prepared(T, {u}, {u, d}, Annotated(n)) /\ d \in T BY <2>1, <2>3, DefiningReady
  <2>5. Prints(T, Annotated(n), g', {d, u})
    BY <2>1, <2>2, <2>4, CopyKeeps DEF Prepared, Unlocked
  <2>6. {d, u} = {u, d} OBVIOUS
  <2>7. Prints(T, Annotated(n), g', {u, d}) BY <2>5, <2>6
  <2> QED BY <2>1, <2>3, <2>7, StraightValues
<1>3. ASSUME NEW p \in Tmp, NEW u \in Tmp, Store(p, u) PROVE VInv'
  <2>1. Straight /\ Mentions({p, u}, {}) /\ p = last /\ p # u BY <1>3 DEF Store
  <2>2. PICK n \in Annotations({p, u}) : g' = PrintStore(Annotated(n), p, u)
    BY <1>3 DEF Store
  <2>3. {p, u} \in SUBSET Operand /\ {p, u} \subseteq {p, u} OBVIOUS
  <2>4. Prepared(T, {p, u}, {p, u}, Annotated(n)) BY <2>1, <2>3, UsingReady
  <2>5. Held(Annotated(n), p) BY <1>0, <2>1, <2>4 DEF Prepared
  <2>6. Prints(T, Annotated(n), g', {p, u})
    BY <2>1, <2>2, <2>4, <2>5, StoreKeeps DEF Prepared, Unlocked, Held
  <2> QED BY <2>1, <2>3, <2>6, StraightValues
<1>4. ASSUME NEW d \in Tmp, NEW u \in Tmp, NEW w \in Tmp, Binary(d, u, w)
      PROVE  VInv'
  <2>1. Straight /\ Mentions({u, w}, {d}) BY <1>4 DEF Binary
  <2>2. w # u /\ w # d
    <3>1. Cardinality({d, u, w}) = 3 BY <1>4 DEF Binary
    <3>2. \A a, b : Cardinality({a, b}) <= 2
      <4> SUFFICES ASSUME NEW a, NEW b PROVE Cardinality({a, b}) <= 2 OBVIOUS
      <4>1. IsFiniteSet({a}) /\ Cardinality({a}) = 1 BY FS_Singleton
      <4>2. {a, b} = {a} \cup {b} OBVIOUS
      <4> QED BY <4>1, <4>2, FS_AddElement
    <3>3. w = u => {d, u, w} = {d, u} OBVIOUS
    <3>4. w = d => {d, u, w} = {d, u} OBVIOUS
    <3>5. Cardinality({d, u}) <= 2 BY <3>2
    <3> QED BY <3>1, <3>3, <3>4, <3>5
  <2>3. PICK n \in Annotations({d, u, w}) :
          \/ g' = PrintAdd(Annotated(n), d, u, w)
          \/ g' = PrintMul(Annotated(n), d, u, w)
    BY <1>4 DEF Binary
  <2>4. /\ d \in Operand /\ {u, w} \in SUBSET Operand /\ {d, u, w} \in SUBSET Operand
        /\ {u, w} \subseteq {d, u, w} /\ {d, u, w} \subseteq {u, w} \cup {d}
        /\ d \in {d, u, w}
    OBVIOUS
  <2>5. Prepared(T, {u, w}, {d, u, w}, Annotated(n)) /\ d \in T
    BY <2>1, <2>4, DefiningReady
  <2>6. /\ Small(T) /\ Fine(T, Annotated(n)) /\ Unlocked(Annotated(n)) /\ u \in T /\ w \in T
        /\ Ready(Annotated(n), u) /\ Ready(Annotated(n), w) /\ w \notin Const
    BY <1>0, <2>5 DEF Prepared
  <2>7. Prints(T, Annotated(n), g', {d, u, w})
    <3>1. CASE g' = PrintAdd(Annotated(n), d, u, w)
      BY <2>2, <2>5, <2>6, <3>1, AddKeeps
    <3>2. CASE g' = PrintMul(Annotated(n), d, u, w)
      BY <2>2, <2>5, <2>6, <3>2, MulKeeps
    <3> QED BY <2>3, <3>1, <3>2
  <2> QED BY <2>1, <2>4, <2>7, StraightValues
<1>5. ASSUME NEW d \in Tmp, NEW w \in Tmp, NEW c \in Const, Negate(d, c, w)
      PROVE  VInv'
  <2>1. Straight /\ Mentions({c, w}, {d}) /\ d # w BY <1>5 DEF Negate
  <2>2. PICK n \in Annotations({d, c, w}) : g' = PrintAdd(Annotated(n), d, c, w)
    BY <1>5 DEF Negate
  <2>3. /\ d \in Operand /\ {c, w} \in SUBSET Operand /\ {d, c, w} \in SUBSET Operand
        /\ {c, w} \subseteq {d, c, w} /\ {d, c, w} \subseteq {c, w} \cup {d}
        /\ d \in {d, c, w}
    OBVIOUS
  <2>4. Prepared(T, {c, w}, {d, c, w}, Annotated(n)) /\ d \in T
    BY <2>1, <2>3, DefiningReady
  <2>5. w \notin Const /\ w # c /\ w # d BY <1>0, <2>1
  <2>6. Prints(T, Annotated(n), g', {d, c, w})
    BY <2>2, <2>4, <2>5, AddKeeps DEF Prepared
  <2> QED BY <2>1, <2>3, <2>6, StraightValues
<1>6. ASSUME NEW t \in Tmp, NEW c \in Const, Scale(t, c) PROVE VInv'
  <2>1. Straight /\ Mentions({t, c}, {t}) BY <1>6 DEF Scale
  <2>2. PICK n \in Annotations({t, c}) : g' = PrintMul(Annotated(n), t, t, c)
    BY <1>6 DEF Scale
  <2>3. /\ t \in Operand /\ {t, c} \in SUBSET Operand /\ {t, c} \subseteq {t, c}
        /\ {t, c} \subseteq {t, c} \cup {t} /\ t \in {t, c}
    OBVIOUS
  <2>4. Prepared(T, {t, c}, {t, c}, Annotated(n)) BY <2>1, <2>3, DefiningReady
  <2>5. c # t BY <1>0
  <2>6. Prints(T, Annotated(n), g', {t, t, c}) BY <2>2, <2>4, <2>5, MulKeeps DEF Prepared
  <2>7. {t, t, c} = {t, c} OBVIOUS
  <2>8. Prints(T, Annotated(n), g', {t, c}) BY <2>6, <2>7
  <2> QED BY <2>1, <2>3, <2>8, StraightValues
<1>7. ASSUME NEW p \in Tmp, NEW w \in Tmp \cup Const, Displace(p, w) PROVE VInv'
  <2>1. Straight /\ Mentions({p, w}, {p}) /\ p # w BY <1>7 DEF Displace
  <2>2. PICK n \in Annotations({p, w}) : g' = PrintAdd(Annotated(n), p, p, w)
    BY <1>7 DEF Displace
  <2>3. /\ p \in Operand /\ {p, w} \in SUBSET Operand /\ {p, w} \subseteq {p, w}
        /\ {p, w} \subseteq {p, w} \cup {p} /\ p \in {p, w}
    OBVIOUS
  <2>4. Prepared(T, {p, w}, {p, w}, Annotated(n)) BY <2>1, <2>3, DefiningReady
  <2>5. /\ Small(T) /\ Fine(T, Annotated(n)) /\ Unlocked(Annotated(n)) /\ p \in T /\ w \in T
        /\ Ready(Annotated(n), p) /\ Ready(Annotated(n), w)
        /\ w \in Const => Annotated(n).nxt_code[w] = -1
    BY <2>4 DEF Prepared
  <2>6. Prints(T, Annotated(n), g', {p, p, w})
    <3>1. CASE w \in Const
      <4>1. Annotated(n).nxt_code[w] <= 0 BY <2>5, <3>1
      <4> QED BY <2>1, <2>2, <2>5, <3>1, <4>1, AddConstKeeps
    <3>2. CASE w \notin Const BY <2>1, <2>2, <2>5, <3>2, AddKeeps
    <3> QED BY <3>1, <3>2
  <2>7. {p, p, w} = {p, w} OBVIOUS
  <2>8. Prints(T, Annotated(n), g', {p, w}) BY <2>6, <2>7
  <2> QED BY <2>1, <2>3, <2>8, StraightValues
<1>8. ASSUME NEW u \in Tmp, Write(u) PROVE VInv'
  <2>1. Straight /\ Mentions({u}, {}) BY <1>8 DEF Write
  <2>2. PICK n \in Annotations({u}) : g' = PrintWrite(Annotated(n), u)
    BY <1>8 DEF Write
  <2>3. {u} \in SUBSET Operand /\ {u} \subseteq {u} OBVIOUS
  <2>4. Prepared(T, {u}, {u}, Annotated(n)) BY <2>1, <2>3, UsingReady
  <2>5. Prints(T, Annotated(n), g', {u}) BY <2>2, <2>4, WriteKeeps DEF Prepared
  <2> QED BY <2>1, <2>3, <2>5, StraightValues
<1> QED BY <1>1, <1>2, <1>3, <1>4, <1>5, <1>6, <1>7, <1>8


(* What has to be shown of a step inside a block.                          *)
LEMMA ToBlock ==
  ASSUME at' = "block", Fine(Operand, g'), Unlocked(g'),
         \A x \in Operand \ touched' : ~ Held(g', x),
         \A c \in Const : g'.nxt_code[c] = -1,
         \A u \in Args' : /\ u \in Tmp /\ u \in touched' /\ Unneeded(u)'
                          /\ Ready(g', u),
         \A x \in Alive' : Found(g', x),
         \A x \in Temp : g'.nxt_code[x] >= idx' => Placed(g', x),
         last' # None => last' \in touched',
         last' # None /\ g'.nxt_code[last'] >= idx' => Held(g', last')
  PROVE  VInv'
<1>1. \A x \in Operand \ touched' : g'.reg_no[x] < 0
  <2> SUFFICES ASSUME NEW x \in Operand \ touched' PROVE g'.reg_no[x] < 0 OBVIOUS
  <2>1. g'.reg_no[x] \in Reg \cup {-1} BY DEF Fine, Good, State
  <2>2. \A r \in Reg : r >= 0 BY DEF Reg
  <2> QED BY <2>1, <2>2 DEF Held
<1>2. InBlock' BY DEF InBlock, Held
<1>3. /\ (at # "exit")' /\ (at # "branched")' /\ (at # "passing")'
      /\ (at \in {"block", "passing"})'
  OBVIOUS
<1>4. Passing' /\ Branched' /\ HomesAtExit' /\ HomesAtBranch'
  BY <1>3 DEF Passing, Branched, HomesAtExit, HomesAtBranch
<1> QED BY <1>1, <1>2, <1>3, <1>4 DEF VInv, Unlocked, Ready

(* The same facts for operands that are not mentioned again.               *)
LEMMA LastReady ==
  ASSUME IInv, VInv, NEW T, Enough(T), NEW uses \in SUBSET Operand, Mentions(uses, {}),
         NEW n \in [Operand -> -1 .. MaxLen - 1],
         \A x \in uses : n[x] = -1,
         \A x \in Operand \ uses : n[x] = g.nxt_code[x],
         NEW s, s = Annotated(n)
  PROVE  /\ at = "block" /\ idx' = idx + 1 /\ last' = None /\ touched' = touched \cup uses
         /\ Small(T) /\ Fine(T, s) /\ Unlocked(s) /\ s.nxt_code = n /\ uses \subseteq T
         /\ \A u \in uses : Ready(s, u)
         /\ \A x : /\ Found(g, x) => Found(s, x)
                   /\ Placed(g, x) => Placed(s, x)
                   /\ Held(s, x) <=> Held(g, x)
         /\ \A x \in Operand : n[x] = -1 \/ n[x] >= idx + 1
         /\ \A c \in Const : n[c] = -1
<1>1. idx < MaxLen /\ Promised \subseteq uses /\ at = "block" /\ idx' = idx + 1 /\ last' = None
  BY MentionsType
<1>2. Good(s) /\ s.nxt_code = n /\ \A x \in Operand : n[x] = -1 \/ n[x] >= idx + 1
  BY <1>1, LastMention DEF NextOf
<1>3. Small(T) /\ Fine(T, g) /\ Unlocked(g) BY <1>1, Going, Narrow
<1>4. Good(Annotated(n)) BY <1>2
<1>5. /\ Fine(T, s) /\ Unlocked(s)
      /\ \A x : /\ Found(g, x) => Found(s, x)
                /\ Placed(g, x) => Placed(s, x)
                /\ Held(s, x) <=> Held(g, x)
  BY <1>3, <1>4, AnnotatedSame
<1>6. \A u \in uses : Ready(g, u) BY UsesReady
<1>7. \A c \in Const : n[c] = -1
  <2>1. Const \subseteq Operand BY DEF Operand
  <2>2. \A c \in Const : g.nxt_code[c] = -1 BY <1>1, Going
  <2> QED BY <2>1, <2>2
<1>8. touched' = touched \cup uses BY DEF Mentions
<1>9. uses \subseteq T BY Wanted
<1> QED BY <1>1, <1>2, <1>3, <1>9, <1>5, <1>6, <1>7, <1>8 DEF Ready

LEMMA ReturnVInv ==
  ASSUME IInv, VInv, NEW T, Enough(T), NEW u \in Tmp, Return(u) PROVE VInv'
<1> DEFINE n == [g.nxt_code EXCEPT ![u] = -1]
           s == Annotated(n)
<1>1. /\ Mentions({u}, {}) /\ arg_list' = <<>> /\ spent' = spent /\ at' = at
      /\ \A x \in Tmp : g.nxt_code[x] <= idx
      /\ g' = PrintReturn(s, u)
  BY DEF Return, Straight
<1>2. /\ n \in [Operand -> -1 .. MaxLen - 1] /\ {u} \in SUBSET Operand
      /\ \A x \in {u} : n[x] = -1
      /\ \A x \in Operand \ {u} : n[x] = g.nxt_code[x]
  BY LengthBound DEF IInv, Good, State, Operand
<1>3. s = Annotated(n) OBVIOUS
<1> HIDE DEF n, s
<1>4. /\ at = "block" /\ idx' = idx + 1 /\ last' = None /\ touched' = touched \cup {u}
      /\ Small(T) /\ Fine(T, s) /\ Unlocked(s) /\ s.nxt_code = n /\ u \in T
      /\ \A v \in {u} : Ready(s, v)
      /\ \A x : Held(s, x) <=> Held(g, x)
      /\ \A x \in Operand : n[x] = -1 \/ n[x] >= idx + 1
      /\ \A c \in Const : n[c] = -1
  BY <1>1, <1>2, <1>3, LastReady
<1>5. /\ Fine(Operand, g') /\ g'.dead /\ g'.nxt_code = n /\ Unlocked(g')
      /\ \A x \in Operand \ {u} : Held(g', x) => Held(s, x)
  <2>1. u \in Operand /\ Ready(s, u) BY <1>2, <1>4
  <2>2. /\ Fine(T, g') /\ g'.dead /\ g'.nxt_code = s.nxt_code /\ Unlocked(g')
        /\ \A x \in Operand \ {u} : Held(g', x) => Held(s, x)
    BY <1>1, <1>4, <2>1, ReturnKeeps
  <2> QED BY <1>4, <2>2, Widen
<1>6. \A x \in Operand \ touched' : ~ Held(g', x) BY <1>4, <1>5, Going
<1>7. \A x : Found(g', x) BY <1>5 DEF Found
<1>8. \A x \in Temp : ~ (n[x] >= idx')
  <2> SUFFICES ASSUME NEW x \in Temp, n[x] >= idx + 1 PROVE FALSE BY <1>4
  <2>1. x \in Tmp /\ x \in Operand BY DEF Tmp, Operand
  <2>2. n[x] \in Int /\ idx \in Nat BY <1>2, <2>1 DEF IInv, TypeOK
  <2>3. n[x] = -1 \/ n[x] = g.nxt_code[x] BY <1>2, <2>1
  <2>4. g.nxt_code[x] <= idx BY <1>1, <2>1
  <2> QED BY <2>2, <2>3, <2>4
<1>9. Args' = {} BY <1>1 DEF Args
<1>10. at' = "block" BY <1>1, <1>4
<1> QED BY <1>4, <1>5, <1>6, <1>7, <1>8, <1>9, <1>10, ToBlock

LEMMA ArgVInv ==
  ASSUME IInv, VInv, NEW T, Enough(T), NEW u \in Tmp, Arg(u) PROVE VInv'
<1> DEFINE n == [g.nxt_code EXCEPT ![u] = -1]
           s == Annotated(n)
<1>1. /\ Mentions({u}, {}) /\ arg_list' = <<u>> \o arg_list
      /\ spent' = spent \cup ({u} \cap Cross) /\ at' = at
      /\ g' = s
  BY DEF Arg
<1>2. /\ n \in [Operand -> -1 .. MaxLen - 1] /\ {u} \in SUBSET Operand
      /\ \A x \in {u} : n[x] = -1
      /\ \A x \in Operand \ {u} : n[x] = g.nxt_code[x]
  BY LengthBound DEF IInv, Good, State, Operand
<1>3. s = Annotated(n) OBVIOUS
<1> HIDE DEF n, s
<1>4. /\ at = "block" /\ idx' = idx + 1 /\ last' = None /\ touched' = touched \cup {u}
      /\ Fine(Operand, s) /\ Unlocked(s) /\ s.nxt_code = n
      /\ \A v \in {u} : Ready(s, v)
      /\ \A x : /\ Found(g, x) => Found(s, x)
                /\ Placed(g, x) => Placed(s, x)
                /\ Held(s, x) <=> Held(g, x)
      /\ \A x \in Operand : n[x] = -1 \/ n[x] >= idx + 1
      /\ \A c \in Const : n[c] = -1
  BY <1>1, <1>2, <1>3, LastReady, Widen
<1>5. idx \in Nat /\ \A x \in Operand : n[x] \in Int
  BY <1>2 DEF IInv, TypeOK
<1>6. \A x \in Temp : n[x] >= idx' => g.nxt_code[x] >= idx
  <2> SUFFICES ASSUME NEW x \in Temp, n[x] >= idx + 1 PROVE g.nxt_code[x] >= idx
    BY <1>4
  <2>1. x \in Operand BY DEF Operand, Tmp
  <2>2. n[x] # -1 BY <1>5, <2>1
  <2>3. n[x] = g.nxt_code[x] BY <1>2, <2>1, <2>2
  <2> QED BY <1>5, <2>1, <2>3
<1>7. \A x \in Alive' : Found(g', x)
  <2>1. Alive' = (Global \ spent') \cup {x \in Temp : n[x] >= idx'}
    BY <1>1, <1>4 DEF Alive, Needed
  <2>2. Alive' \subseteq Alive BY <1>1, <1>6, <2>1 DEF Alive, Needed
  <2> QED BY <1>1, <1>4, <2>2, Going
<1>8. \A x \in Temp : n[x] >= idx' => Placed(g', x) BY <1>1, <1>4, <1>6, Going
<1>9. \A x \in Operand \ touched' : ~ Held(g', x) BY <1>1, <1>4, Going
<1>10. Args' \subseteq Args \cup {u}
  <2>1. arg_list \in Seq(Tmp) BY DEF IInv, TypeOK
  <2>2. \A i \in DOMAIN (<<u>> \o arg_list) :
           (<<u>> \o arg_list)[i] = u \/ \E j \in DOMAIN arg_list :
                                              (<<u>> \o arg_list)[i] = arg_list[j]
    BY <2>1
  <2> QED BY <1>1, <2>2 DEF Args
<1>11. ASSUME NEW v \in Args'
       PROVE  v \in Tmp /\ v \in touched' /\ Unneeded(v)' /\ Ready(g', v)
  <2>1. CASE v = u
    <3>1. n[u] = -1 /\ (u \in Temp \/ u \in spent') BY <1>1, <1>2 DEF Tmp
    <3> QED BY <1>1, <1>4, <2>1, <3>1 DEF Unneeded
  <2>2. CASE v \in Args
    <3>1. v \in Tmp /\ v \in touched /\ Unneeded(v) /\ Ready(g, v) BY <1>4, <2>2, Going
    <3>2. v \in Operand BY <3>1 DEF Operand
    <3>3. n[v] = -1 BY <1>2, <3>1, <3>2 DEF Unneeded
    <3> QED BY <1>1, <1>4, <3>1, <3>3 DEF Unneeded, Ready
  <2> QED BY <1>10, <2>1, <2>2
<1>12. at' = "block" /\ Fine(Operand, g') /\ Unlocked(g') /\ g'.nxt_code = n
  BY <1>1, <1>4
<1> QED BY <1>4, <1>7, <1>8, <1>9, <1>11, <1>12, ToBlock


(* What has to be shown of a step inside a call, and what is known there.  *)
LEMMA ToPassing ==
  ASSUME at' = "passing", Fine(Operand, g'), g'.st_lk,
         \A x \in Operand \ touched' : ~ Held(g', x),
         \A c \in Const : g'.nxt_code[c] = -1,
         \A u \in Args' : /\ u \in Tmp /\ u \in touched' /\ Unneeded(u)'
                          /\ Ready(g', u),
         \A x \in Alive' \ {last'} : Found(g', x),
         \A x \in Temp \ {last'} : g'.nxt_code[x] >= idx' => Placed(g', x),
         \A x \in Operand : Held(g', x) => Unneeded(x)',
         last' \in touched'
  PROVE  VInv'
<1>1. \A x \in Operand \ touched' : g'.reg_no[x] < 0
  <2> SUFFICES ASSUME NEW x \in Operand \ touched' PROVE g'.reg_no[x] < 0 OBVIOUS
  <2>1. g'.reg_no[x] \in Reg \cup {-1} BY DEF Fine, Good, State
  <2>2. \A r \in Reg : r >= 0 BY DEF Reg
  <2> QED BY <2>1, <2>2 DEF Held
<1>2. Passing' BY DEF Passing, Held
<1>3. /\ (at # "exit")' /\ (at # "branched")' /\ (at # "block")'
      /\ (at \in {"block", "passing"})'
  OBVIOUS
<1>4. InBlock' /\ Branched' /\ HomesAtExit' /\ HomesAtBranch'
  BY <1>3 DEF InBlock, Branched, HomesAtExit, HomesAtBranch
<1> QED BY <1>1, <1>2, <1>3, <1>4 DEF VInv, Unlocked, Ready

LEMMA InCall ==
  ASSUME IInv, VInv, at = "passing"
  PROVE  /\ Fine(Operand, g) /\ g.st_lk /\ idx \in Nat /\ last \in Tmp
         /\ \A x \in Operand \ touched : ~ Held(g, x)
         /\ \A c \in Const : g.nxt_code[c] = -1
         /\ \A u \in Args : /\ u \in Tmp /\ u \in touched /\ Unneeded(u) /\ Ready(g, u)
         /\ \A x \in Alive \ {last} : Found(g, x)
         /\ \A x \in Temp \ {last} : g.nxt_code[x] >= idx => Placed(g, x)
         /\ \A x \in Operand : Held(g, x) => Unneeded(x)
         /\ last \in touched
<1>1. \A x \in Operand : g.reg_no[x] \in Reg \cup {-1} BY DEF IInv, Good, State
<1>2. \A x \in Operand : g.reg_no[x] < 0 => ~ Held(g, x) BY <1>1 DEF Reg, Held
<1>3. idx \in Nat /\ last \in Tmp BY DEF IInv, TypeOK
<1> QED BY <1>2, <1>3 DEF VInv, Passing, Ready, Held

LEMMA CallVInv ==
  ASSUME IInv, VInv, NEW T, Enough(T), NEW d \in Tmp, Call(d) PROVE VInv'
<1>0. d \in Operand /\ {d} \in SUBSET Operand /\ {} \in SUBSET Operand /\ {} \subseteq {d}
  BY DEF Operand
<1>1. /\ Mentions({}, {d}) /\ at' = "passing" /\ arg_list' = arg_list /\ spent' = spent
  BY DEF Call
<1>2. PICK n \in Annotations({d}) : g' = CallSave(Annotated(n), Args)
  BY DEF Call, Args
<1> DEFINE s == Annotated(n)
<1>3. s = Annotated(n) /\ g' = CallSave(s, Args) BY <1>2
<1> HIDE DEF s
<1>4. /\ idx < MaxLen /\ Promised \subseteq {} /\ at = "block" /\ idx' = idx + 1 /\ last' = d
  BY <1>0, <1>1, MentionsType
<1>5. touched' = touched \cup {d} /\ (d \in touched => d \in Var)
  BY <1>1 DEF Mentions
<1>6. d \notin touched BY <1>5, OperandKinds DEF Tmp
<1>7. Good(s) /\ s.nxt_code = n
  BY <1>0, <1>3, <1>4, AnnotationsAhead
<1>8. /\ Small(T) /\ Fine(T, s) /\ Unlocked(s)
      /\ \A x : /\ Found(g, x) => Found(s, x)
                /\ Placed(g, x) => Placed(s, x)
                /\ Held(s, x) <=> Held(g, x)
  <2>1. Small(T) /\ Fine(T, g) /\ Unlocked(g) BY <1>4, Going, Narrow
  <2>2. Good(Annotated(n)) BY <1>3, <1>7
  <2> QED BY <1>3, <2>1, <2>2, AnnotatedSame
<1>9. /\ Fine(Operand, g') /\ g'.nxt_code = n /\ g'.st_lk
      /\ \A x \in Operand : /\ Found(s, x) => Found(g', x)
                            /\ Placed(s, x) => Placed(g', x)
                            /\ Held(g', x) => Held(s, x) /\ x \in Args
  <2>1. /\ Fine(T, g') /\ g'.nxt_code = s.nxt_code /\ g'.st_lk
        /\ \A x \in Operand : /\ Found(s, x) => Found(g', x)
                              /\ Placed(s, x) => Placed(g', x)
                              /\ Held(g', x) => Held(s, x) /\ x \in Args
    BY <1>3, <1>8, CallSaveKeeps
  <2> QED BY <1>7, <1>8, <2>1, Widen
<1>10. \A x \in Operand \ {d} : n[x] = g.nxt_code[x] BY <1>0, AnnotationsOf
<1>11. idx \in Nat /\ \A x \in Operand : n[x] \in Int
  BY <1>7 DEF IInv, TypeOK, Good, State
<1>12. \A x \in Temp \ {d} : n[x] >= idx' => g.nxt_code[x] >= idx
  <2> SUFFICES ASSUME NEW x \in Temp \ {d}, n[x] >= idx + 1 PROVE g.nxt_code[x] >= idx
    BY <1>4
  <2>1. x \in Operand BY DEF Operand, Tmp
  <2> QED BY <1>10, <1>11, <2>1
<1>13. ASSUME NEW x \in Alive' \ {d} PROVE Found(g', x)
  <2>1. Alive' = (Global \ spent) \cup {z \in Temp : n[z] >= idx'}
    BY <1>1, <1>9 DEF Alive, Needed
  <2>2. x \in Alive BY <1>12, <2>1 DEF Alive, Needed
  <2>3. x \in Operand BY <2>2, GlobalOperand DEF Alive, Needed, Operand, Tmp
  <2>4. Found(g, x) BY <1>4, <2>2, Going
  <2> QED BY <1>8, <1>9, <2>3, <2>4
<1>14. ASSUME NEW x \in Temp \ {d}, n[x] >= idx' PROVE Placed(g', x)
  <2>1. x \in Operand BY DEF Operand, Tmp
  <2>2. Placed(g, x) BY <1>4, <1>12, <1>14, Going
  <2> QED BY <1>8, <1>9, <2>1, <2>2
<1>15. \A x \in Operand \ touched' : ~ Held(g', x) BY <1>4, <1>5, <1>8, <1>9, Going
<1>16. \A c \in Const : n[c] = -1
  <2>1. Const \subseteq Operand /\ d \notin Const BY OperandKinds DEF Operand, Tmp
  <2>2. \A c \in Const : g.nxt_code[c] = -1 BY <1>4, Going
  <2> QED BY <1>10, <2>1, <2>2
<1>17. Args' = Args BY <1>1 DEF Args
<1>18. ASSUME NEW u \in Args
       PROVE  u \in Tmp /\ u \in touched' /\ Unneeded(u)' /\ Ready(g', u)
  <2>1. u \in Tmp /\ u \in touched /\ Unneeded(u) /\ Ready(g, u) BY <1>4, Going
  <2>2. u \in Operand \ {d} BY <1>6, <2>1 DEF Operand
  <2>3. n[u] = -1 BY <1>10, <2>1, <2>2 DEF Unneeded
  <2> QED BY <1>1, <1>5, <1>8, <1>9, <2>1, <2>2, <2>3 DEF Unneeded, Ready
<1>19. \A x \in Operand : Held(g', x) => Unneeded(x)' BY <1>9, <1>18
<1>20. last' \in touched' /\ last' = d BY <1>4, <1>5
<1>21. Fine(Operand, g') /\ g'.st_lk /\ g'.nxt_code = n BY <1>9
<1> QED BY <1>1, <1>13, <1>14, <1>15, <1>16, <1>17, <1>18, <1>19, <1>20, <1>21, ToPassing

LEMMA PassArgVInv ==
  ASSUME IInv, VInv, NEW T, Enough(T), PassArg PROVE VInv'
<1> DEFINE u == Head(arg_list)
<1>1. /\ at = "passing" /\ at' = "passing" /\ arg_list # <<>> /\ arg_list' = Tail(arg_list)
      /\ g' = CallPass(g, u)
      /\ idx' = idx /\ touched' = touched /\ spent' = spent /\ last' = last
  BY DEF PassArg
<1>2. u \in Args /\ Args' \subseteq Args
  <2>1. arg_list \in Seq(Tmp) BY DEF IInv, TypeOK
  <2>2. 1 \in DOMAIN arg_list /\ u = arg_list[1] BY <1>1, <2>1
  <2>3. \A i \in DOMAIN Tail(arg_list) : /\ i + 1 \in DOMAIN arg_list
                                         /\ Tail(arg_list)[i] = arg_list[i + 1]
    BY <1>1, <2>1
  <2> QED BY <1>1, <2>2, <2>3 DEF Args
<1>16. u \in T
  <2>1. u \in Operand BY <1>1, <1>2, InCall DEF Operand
  <2> QED BY <1>2, <2>1, OperandKinds DEF Enough, Demand, Args, Operand, Tmp
<1> HIDE DEF u
<1>3. /\ Small(T) /\ Fine(T, g) /\ u \in Operand /\ u \in touched
      /\ Unneeded(u) /\ Ready(g, u) /\ g.st_lk
  BY <1>1, <1>2, InCall, Narrow DEF Operand
<1>17. Fine(T, g') /\ Keeps(g, g', {u}) /\ Ready(g', u) BY <1>1, <1>3, <1>16, CallPassKeeps
<1>4. Fine(Operand, g') /\ Keeps(g, g', {u}) /\ Ready(g', u) BY <1>3, <1>17, Widen
<1>5. g'.nxt_code = g.nxt_code /\ g'.st_lk BY <1>3, <1>4 DEF Keeps
<1>6. \A x \in Operand : Unneeded(x)' <=> Unneeded(x) BY <1>1, <1>5 DEF Unneeded
<1>7. \A x \in Operand : /\ Found(g, x) => Found(g', x)
                         /\ Placed(g, x) => Placed(g', x)
                         /\ Held(g', x) => Held(g, x) \/ x = u
  BY <1>4 DEF Keeps, Ready, Held
<1>8. Alive' = Alive /\ Alive \subseteq Operand
  BY <1>1, <1>5, GlobalOperand DEF Alive, Needed, Operand, Tmp
<1>9. \A x \in Operand \ touched' : ~ Held(g', x) BY <1>1, <1>3, <1>7, InCall
<1>10. \A c \in Const : g'.nxt_code[c] = -1 BY <1>1, <1>5, InCall
<1>11. ASSUME NEW v \in Args'
       PROVE  v \in Tmp /\ v \in touched' /\ Unneeded(v)' /\ Ready(g', v)
  <2>1. v \in Tmp /\ v \in touched /\ Unneeded(v) /\ Ready(g, v) BY <1>1, <1>2, InCall
  <2>2. v \in Operand BY <2>1 DEF Operand
  <2> QED BY <1>1, <1>6, <1>7, <2>1, <2>2 DEF Ready
<1>12. \A x \in Alive' \ {last'} : Found(g', x) BY <1>1, <1>7, <1>8, InCall
<1>13. ASSUME NEW x \in Temp \ {last'}, g'.nxt_code[x] >= idx' PROVE Placed(g', x)
  <2>1. x \in Operand BY DEF Operand, Tmp
  <2>2. Placed(g, x) BY <1>1, <1>5, <1>13, InCall
  <2> QED BY <1>7, <2>1, <2>2
<1>14. \A x \in Operand : Held(g', x) => Unneeded(x)' BY <1>1, <1>3, <1>6, <1>7, InCall
<1>15. last' \in touched' BY <1>1, InCall
<1> QED BY <1>1, <1>4, <1>5, <1>9, <1>10, <1>11, <1>12, <1>13, <1>14, <1>15, ToPassing


LEMMA JumpVInv ==
  ASSUME IInv, VInv, NEW T, Enough(T), Jump
  PROVE  /\ VInv'
         /\ g'.dead = g.dead
         /\ \A x \in Alive \ {last} : ~ Held(g, x) /\ Found(g', x) /\ ~ Held(g', x)
<1>1. /\ at = "passing" /\ at' = "block" /\ arg_list' = <<>>
      /\ g' = CallJump(g, last)
      /\ idx' = idx /\ touched' = touched /\ spent' = spent /\ last' = last
  BY DEF Jump
<1>2. Small(T) /\ Fine(T, g) /\ last \in Operand /\ idx \in Nat
  BY <1>1, InCall, Narrow DEF Operand
<1>15. last \in T BY <1>1, <1>2, OperandKinds DEF Enough, Demand, Operand, Tmp
<1>3. /\ Fine(Operand, g') /\ g'.nxt_code = g.nxt_code /\ Unlocked(g') /\ Ready(g', last)
      /\ Held(g', last) /\ g'.dead = g.dead
      /\ \A x \in Operand \ {last} :
            /\ Held(g', x) => Held(g, x)
            /\ ~ Held(g, x) => /\ Found(g, x) => Found(g', x)
                               /\ Placed(g, x) => Placed(g', x)
  <2>1. /\ Fine(T, g') /\ g'.nxt_code = g.nxt_code /\ Unlocked(g') /\ Ready(g', last)
        /\ Held(g', last) /\ g'.dead = g.dead
        /\ \A x \in Operand \ {last} :
              /\ Held(g', x) => Held(g, x)
              /\ ~ Held(g, x) => /\ Found(g, x) => Found(g', x)
                                 /\ Placed(g, x) => Placed(g', x)
    BY <1>1, <1>2, <1>15, CallJumpKeeps
  <2> QED BY <1>2, <2>1, Widen
<1>4. Alive' = Alive /\ Alive \subseteq Operand
  BY <1>1, <1>3, GlobalOperand DEF Alive, Needed, Operand, Tmp
<1>5. \A x \in Alive : ~ Unneeded(x)
  <2> SUFFICES ASSUME NEW x \in Alive PROVE ~ Unneeded(x) OBVIOUS
  <2>1. x \in Global \ spent \/ (x \in Temp /\ g.nxt_code[x] >= idx)
    BY DEF Alive, Needed
  <2>2. CASE x \in Global \ spent
    BY <2>2, OperandKinds DEF Unneeded, Global
  <2>3. CASE g.nxt_code[x] >= idx BY <1>2, <2>3 DEF Unneeded
  <2> QED BY <2>1, <2>2, <2>3
<1>6. \A x \in Alive : ~ Held(g, x) BY <1>1, <1>4, <1>5, InCall
<1>7. ASSUME NEW x \in Alive \ {last}
      PROVE  ~ Held(g, x) /\ Found(g', x) /\ ~ Held(g', x)
  <2>1. Found(g, x) BY <1>1, InCall
  <2> QED BY <1>3, <1>4, <1>6, <2>1
<1>8. \A x \in Alive' : Found(g', x) BY <1>3, <1>4, <1>7 DEF Ready
<1>9. ASSUME NEW x \in Temp, g'.nxt_code[x] >= idx' PROVE Placed(g', x)
  <2>1. CASE x = last BY <1>3, <2>1 DEF Ready
  <2>2. CASE x # last
    <3>1. x \in Alive /\ x \in Operand BY <1>1, <1>3, <1>9 DEF Alive, Operand, Tmp
    <3>2. Placed(g, x) BY <1>1, <1>3, <1>9, <2>2, InCall
    <3> QED BY <1>3, <1>6, <2>2, <3>1, <3>2
  <2> QED BY <2>1, <2>2
<1>10. \A x \in Operand \ touched' : ~ Held(g', x)
  <2>1. last \in touched BY <1>1, InCall
  <2> QED BY <1>1, <1>3, <2>1, InCall
<1>11. \A c \in Const : g'.nxt_code[c] = -1 BY <1>1, <1>3, InCall
<1>12. Args' = {} BY <1>1 DEF Args
<1>13. last' \in touched' /\ Held(g', last') BY <1>1, <1>3, InCall
<1>14. VInv'
  BY <1>1, <1>3, <1>8, <1>9, <1>10, <1>11, <1>12, <1>13, ToBlock
<1> QED BY <1>3, <1>7, <1>14

LEMMA BranchVInv ==
  ASSUME IInv, VInv, NEW T, Enough(T), NEW x \in Tmp, NEW y \in Tmp \cup Const,
         Branch(x, y)
  PROVE  VInv'
<1> DEFINE n == [g.nxt_code EXCEPT ![x] = -1, ![y] = -1]
           s == Annotated(n)
<1>1. /\ Mentions({x, y}, {}) /\ arg_list = <<>> /\ arg_list' = arg_list
      /\ spent' = spent \cup ({x, y} \cap Cross) /\ at' = "branched" /\ x # y
      /\ \A z \in Operand : g.nxt_code[z] <= idx
  BY DEF Branch
<1>2. PICK first \in {x, y} : \E second \in {x, y} \ {first} :
         g' = PrintBranch(s, x, y, first, second)
  BY DEF Branch
<1>3. PICK second \in {x, y} \ {first} : g' = PrintBranch(s, x, y, first, second)
  BY <1>2
<1>4. /\ n \in [Operand -> -1 .. MaxLen - 1] /\ {x, y} \in SUBSET Operand
      /\ \A z \in {x, y} : n[z] = -1
      /\ \A z \in Operand \ {x, y} : n[z] = g.nxt_code[z]
  BY LengthBound DEF IInv, Good, State, Operand
<1>5. s = Annotated(n) OBVIOUS
<1> HIDE DEF n, s
<1>6. /\ at = "block" /\ last' = None /\ touched' = touched \cup {x, y}
      /\ Small(T) /\ Fine(T, s) /\ Unlocked(s) /\ s.nxt_code = n /\ {x, y} \subseteq T
      /\ \A v \in {x, y} : Ready(s, v)
      /\ \A z : Found(g, z) => Found(s, z)
      /\ \A z : Held(s, z) <=> Held(g, z)
      /\ \A z \in Operand : n[z] = -1 \/ n[z] >= idx + 1
  BY <1>1, <1>4, <1>5, LastReady
<1>7. \A z \in Operand : s.nxt_code[z] = -1
  <2> SUFFICES ASSUME NEW z \in Operand PROVE n[z] = -1 BY <1>6
  <2>1. idx \in Nat /\ n[z] \in Int BY <1>4 DEF IInv, TypeOK
  <2>2. n[z] = -1 \/ n[z] = g.nxt_code[z] BY <1>4
  <2> QED BY <1>1, <1>6, <2>1, <2>2
<1>8. /\ Fine(Operand, g') /\ Unlocked(g')
      /\ \A z \in Operand \ {x, y} : Held(g', z) => Held(s, z)
      /\ \A z \in Global \ {x, y} :
            Found(s, z) => Found(g', z) /\ (g'.dead \/ z \in g'.edge)
  <2>1. x \in Operand /\ y \in Operand /\ Ready(s, x) /\ Ready(s, y) BY <1>4, <1>6
  <2>2. /\ Fine(T, g') /\ Unlocked(g')
        /\ \A z \in Operand \ {x, y} : Held(g', z) => Held(s, z)
        /\ \A z \in Global \ {x, y} :
              Found(s, z) => Found(g', z) /\ (g'.dead \/ z \in g'.edge)
    BY <1>1, <1>3, <1>6, <1>7, <2>1, BranchKeeps
  <2> QED BY <1>6, <2>2, Widen
<1>9. ASSUME NEW z \in Needed' PROVE Found(g', z) /\ (g'.dead \/ z \in g'.edge)
  <2>1. z \in Global \ spent /\ z \notin {x, y}
    BY <1>1, OperandKinds DEF Needed, Global, Tmp
  <2>2. Found(g, z) BY <1>6, <2>1, Going DEF Alive, Needed
  <2> QED BY <1>6, <1>8, <2>1, <2>2
<1>10. Args' = {} BY <1>1 DEF Args
<1>11. Branched' BY <1>6, <1>9 DEF Branched
<1>12. HomesAtBranch' BY <1>9 DEF HomesAtBranch
<1>13. /\ (at # "exit")' /\ (at # "passing")' /\ (at # "block")'
       /\ (at \notin {"block", "passing"})'
  BY <1>1
<1>14. InBlock' /\ Passing' /\ HomesAtExit' BY <1>13 DEF InBlock, Passing, HomesAtExit
<1>15. \A z \in Operand \ touched' : g'.reg_no[z] < 0
  <2> SUFFICES ASSUME NEW z \in Operand \ touched' PROVE g'.reg_no[z] < 0 OBVIOUS
  <2>1. ~ Held(g', z) BY <1>6, <1>8, Going
  <2>2. g'.reg_no[z] \in Reg \cup {-1} BY <1>8 DEF Fine, Good, State
  <2>3. \A r \in Reg : r >= 0 BY DEF Reg
  <2> QED BY <2>1, <2>2, <2>3 DEF Held
<1> QED BY <1>8, <1>10, <1>11, <1>12, <1>13, <1>14, <1>15 DEF VInv, Unlocked

LEMMA EndVInv ==
  ASSUME IInv, VInv, NEW T, Enough(T), EndBlock PROVE VInv'
<1> DEFINE X == {g.reg[r] : r \in Reg} \ {None}
<1>1. /\ at \in {"block", "branched"} /\ at' = "exit" /\ arg_list' = <<>> /\ spent' = spent
      /\ \A x \in Operand : g.nxt_code[x] < idx
      /\ g' = Free(g, X)
  BY DEF EndBlock
<1>2. Small(T) /\ Fine(T, g) /\ Unlocked(g) BY <1>1, Narrow DEF VInv, Unlocked
<1>3. \A x \in Operand : g.nxt_code[x] = -1
  <2> SUFFICES ASSUME NEW x \in Operand PROVE g.nxt_code[x] = -1 OBVIOUS
  <2>1. g.nxt_code[x] \in Int /\ idx \in Nat BY <1>2 DEF Fine, Good, State, IInv, TypeOK
  <2>2. g.nxt_code[x] = -1 \/ g.nxt_code[x] >= idx BY DEF IInv, NextAhead
  <2> QED BY <1>1, <2>1, <2>2
<1>4. X \in SUBSET Operand /\ \A x \in X : Held(g, x)
  <2>1. \A x \in X : x \in {g.reg[r] : r \in Reg} \ {None} OBVIOUS
  <2> HIDE DEF X
  <2> QED BY <1>2, <2>1, VisitedHeld
<1>5. \A x \in Operand : x \in X \/ ~ Held(g, x) BY <1>2, LowRegisters, Visited
<1> HIDE DEF X
<1>6. /\ Fine(Operand, g') /\ Unlocked(g') /\ g'.dead = g.dead
      /\ \A z \in Global : (z \in X \/ ~ Held(g, z)) /\ Found(g, z)
                           => Found(g', z) /\ (g'.dead \/ z \in g'.home)
  <2>1. /\ Fine(T, g') /\ Unlocked(g') /\ g'.dead = g.dead
        /\ \A z \in Global : (z \in X \/ ~ Held(g, z)) /\ Found(g, z)
                             => Found(g', z) /\ (g'.dead \/ z \in g'.home)
    BY <1>1, <1>2, <1>3, <1>4, BlockFreed
  <2> QED BY <1>2, <2>1, Widen
<1>7. ASSUME NEW z \in Needed PROVE g'.dead \/ z \in g'.home
  <2>1. z \in Global /\ z \in Operand BY GlobalOperand DEF Needed
  <2>2. Found(g, z)
    <3>1. CASE at = "block" BY <3>1, Going DEF Alive
    <3>2. CASE at = "branched" BY <3>2 DEF VInv, Branched
    <3> QED BY <1>1, <3>1, <3>2
  <2> QED BY <1>5, <1>6, <2>1, <2>2
<1>8. HomesAtExit' BY <1>1, <1>7 DEF HomesAtExit, Needed
<1>9. Args' = {} BY <1>1 DEF Args
<1>10. /\ (at # "branched")' /\ (at # "passing")' /\ (at # "block")'
       /\ (at \notin {"block", "passing"})'
  BY <1>1
<1>11. InBlock' /\ Passing' /\ Branched' /\ HomesAtBranch'
  BY <1>10 DEF InBlock, Passing, Branched, HomesAtBranch
<1>12. g'.misread = {} /\ g'.homeless = {} BY <1>6 DEF Fine
<1> QED BY <1>1, <1>6, <1>8, <1>9, <1>10, <1>11, <1>12 DEF VInv, Unlocked


(* A block is entered with the shared operands at home, and nothing else.  *)
LEMMA FreshBlock ==
  ASSUME Good(g'), at' = "block", arg_list' = <<>>, last' = None, idx' = 0,
         \A r \in Reg : g'.reg[r] = None, \A x \in Operand : g'.reg_no[x] = -1,
         \A x \in Operand : g'.nxt_code[x] = -1, ~ g'.st_lk,
         g'.offset = Global, g'.home = Global, g'.misread = {}, g'.homeless = {}
  PROVE  VInv'
<1>1. S7 \in Reg BY RegisterNumbers DEF Reg
<1>2. Fine(Operand, g') /\ Unlocked(g') BY <1>1 DEF Fine, Exact, Within, Unlocked
<1>3. \A x \in Operand : ~ Held(g', x) BY DEF Held
<1>4. \A x \in Temp : ~ (g'.nxt_code[x] >= idx')
  <2>1. Temp \subseteq Operand BY DEF Operand, Tmp
  <2> QED BY <2>1
<1>5. \A x \in Alive' : Found(g', x)
  <2>1. Alive' \subseteq Global BY <1>4 DEF Alive, Needed
  <2> QED BY <1>3, <2>1, GlobalOperand DEF Found, Held
<1>6. \A c \in Const : g'.nxt_code[c] = -1
  <2>1. Const \subseteq Operand BY DEF Operand
  <2> QED BY <2>1
<1>7. Args' = {} BY DEF Args
<1> QED BY <1>2, <1>3, <1>4, <1>5, <1>6, <1>7, ToBlock

LEMMA EnterVInv ==
  ASSUME IInv, VInv, EnterBlock PROVE VInv'
<1>1. /\ at = "exit" /\ g' = Entered(g) /\ at' = "block" /\ arg_list' = <<>> /\ last' = None
      /\ idx' = 0
  BY DEF EnterBlock
<1>2. g \in State /\ Exact(g) /\ \A r \in Reg : g.reg[r] = None
  BY <1>1 DEF IInv, Good, ExitsEmpty, VInv, Fine
<1>3. \A x \in Operand : g.reg_no[x] = -1
  <2> SUFFICES ASSUME NEW x \in Operand, g.reg_no[x] # -1 PROVE FALSE OBVIOUS
  <2>1. g.reg_no[x] \in Reg BY <1>2 DEF State
  <2>2. g.reg_no[x] >= 0 BY <2>1 DEF Reg
  <2>3. g.reg[g.reg_no[x]] = x BY <1>2, <2>2 DEF Exact
  <2> QED BY <1>2, <2>1, <2>3, OperandKinds DEF Operand, Tmp
<1>4. /\ g'.reg = g.reg /\ g'.st_lk = g.st_lk
      /\ g'.reg_no = [x \in Operand |-> IF x \in Global THEN g.reg_no[x] ELSE -1]
      /\ g'.nxt_code = [x \in Operand |-> -1]
      /\ g'.offset = Global /\ g'.home = Global /\ g'.misread = {} /\ g'.homeless = {}
  BY <1>1, <1>2 DEF Entered, State
<1>5. Good(g')
  <2>1. [Next]_vars BY DEF Next
  <2> QED BY <2>1, StepInv DEF IInv
<1>6. ~ g.st_lk BY <1>1 DEF VInv
<1>7. /\ \A r \in Reg : g'.reg[r] = None
      /\ \A x \in Operand : g'.reg_no[x] = -1 /\ g'.nxt_code[x] = -1
  BY <1>2, <1>3, <1>4
<1> QED BY <1>1, <1>4, <1>5, <1>6, <1>7, FreshBlock

LEMMA InitVInv == ASSUME Init PROVE VInv
<1>1. /\ \A r \in Reg : g.reg[r] = None
      /\ \A x \in Operand : g.reg_no[x] = -1 /\ g.nxt_code[x] = -1
      /\ ~ g.st_lk /\ g.offset = Global /\ g.home = Global
      /\ g.misread = {} /\ g.homeless = {}
      /\ at = "block" /\ arg_list = <<>> /\ last = None /\ idx = 0
  BY DEF Init
<1>2. Fine(Operand, g)
  <2>1. Good(g) BY InitInv DEF IInv
  <2>2. S7 \in Reg BY RegisterNumbers DEF Reg
  <2> QED BY <1>1, <2>1, <2>2 DEF Fine, Exact, Within
<1>3. Temp \subseteq Operand /\ Const \subseteq Operand BY DEF Operand, Tmp
<1>4. InBlock
  <2>1. Alive \subseteq Global BY <1>1, <1>3 DEF Alive, Needed
  <2>2. \A x \in Alive : Found(g, x) BY <1>1, <2>1, GlobalOperand DEF Found
  <2> QED BY <1>1, <1>3, <2>2 DEF InBlock
<1>5. Passing /\ Branched /\ HomesAtExit /\ HomesAtBranch
  BY <1>1 DEF Passing, Branched, HomesAtExit, HomesAtBranch
<1>6. Args = {} BY <1>1 DEF Args
<1> QED BY <1>1, <1>2, <1>3, <1>4, <1>5, <1>6 DEF VInv

LEMMA SameVInv == ASSUME VInv, UNCHANGED vars PROVE VInv'
BY DEF vars, VInv, Fine, Found, Placed, Unneeded, Args, InBlock, Passing, Branched,
   Alive, Needed, HomesAtExit, HomesAtBranch, Good, Sound, Exact, Within

(* Whatever a line mentions is an operand. *)
LEMMA DemandOperands ==
  ASSUME IInv, Next PROVE Demand \subseteq Operand
<1>1. IInv' BY StepInv
<1>2. \A r \in Reg : g.reg[r] \in Operand \cup {None} BY DEF IInv, Good, State
<1>3. \A i \in DOMAIN arg_list : arg_list[i] \in Operand
  <2>1. arg_list \in Seq(Tmp) BY DEF IInv, TypeOK
  <2> QED BY <2>1 DEF Operand
<1>4. touched' \subseteq Operand /\ last' \in Operand \cup {None} BY <1>1 DEF IInv, TypeOK
<1> QED BY <1>2, <1>3, <1>4 DEF Demand, Promised

LEMMA StepVInv == ASSUME IInv, VInv, [Next]_vars, [Fits]_vars PROVE VInv'
<1>1. CASE UNCHANGED vars BY <1>1, SameVInv
<1>2. CASE Next /\ Fits
  <2>1. PICK T : T = Demand OBVIOUS
  <2>2. Enough(T) BY <1>2, <2>1, DemandOperands DEF Enough, Small, Fits
  <2> QED BY <1>2, <2>2, StraightVInv, ReturnVInv, ArgVInv, BranchVInv, CallVInv,
         PassArgVInv, JumpVInv, EndVInv, EnterVInv DEF Next
<1> QED BY <1>1, <1>2

LEMMA Inductive == Spec /\ [][Fits]_vars => [](IInv /\ VInv)
<1>1. Init => IInv /\ VInv BY InitInv, InitVInv
<1>2. IInv /\ VInv /\ [Next]_vars /\ [Fits]_vars => IInv' /\ VInv' BY StepInv, StepVInv
<1> QED BY <1>1, <1>2, PTL DEF Spec

-----------------------------------------------------------------------------
(* As long as no line needs more operands than there are registers below   *)
(* $s7 ...                                                                 *)

(* ... an operand with a reg_no is in that register: allocate() and        *)
(* ensure() may return reg_no unasked.                                     *)
THEOREM DescriptorsExact == Spec /\ [][Fits]_vars => []DescriptorExact
<1>1. VInv => DescriptorExact BY DEF VInv, Fine, Exact, DescriptorExact
<1> QED BY Inductive, <1>1, PTL

(* ... every printed instruction reads its operands from registers that    *)
(* hold their current values: no free(), no call and no update in place    *)
(* leaves allocate() or ensure() with a register it wrongly trusts.        *)
THEOREM ReadsAreFresh == Spec /\ [][Fits]_vars => []OperandsFresh
<1>1. VInv => OperandsFresh BY DEF VInv, Fine, OperandsFresh
<1> QED BY Inductive, <1>1, PTL

(* ... the assertion of ensure() holds: a value is loaded only from a slot *)
(* of the stack that has been assigned.                                    *)
THEOREM LoadsHaveSlots == Spec /\ [][Fits]_vars => []LoadsHaveHome
<1>1. VInv => LoadsHaveHome BY DEF VInv, Fine, LoadsHaveHome
<1> QED BY Inductive, <1>1, PTL

(* ... what other blocks may read is in its slot when control leaves a     *)
(* block through its last line: the frees of the last mentions stored it.  *)
THEOREM ValuesGoHome == Spec /\ [][Fits]_vars => []HomesAtExit
<1>1. VInv => HomesAtExit BY DEF VInv
<1> QED BY Inductive, <1>1, PTL

(* ... and when control leaves it through its jump: CJP printed the stores *)
(* of both its operands before the branch.                                 *)
THEOREM BranchesGoHome == Spec /\ [][Fits]_vars => []HomesAtBranch
<1>1. VInv => HomesAtBranch BY DEF VInv
<1> QED BY Inductive, <1>1, PTL

(* ... what may still be read is in the register it is looked for in, or   *)
(* at home.                                                                *)
THEOREM ValuesStay == Spec /\ [][Fits]_vars => []ValuesKept
<1>1. IInv /\ VInv => ValuesKept
  <2> SUFFICES ASSUME IInv, VInv, at = "block", ~ g.dead, NEW x \in Alive PROVE Kept(x)
    BY DEF ValuesKept
  <2>1. Found(g, x) BY Going
  <2>2. x \notin Const BY OperandKinds DEF Alive, Needed, Global
  <2> QED BY <2>1, <2>2 DEF Found, Kept
<1> QED BY Inductive, <1>1, PTL

(* ... and a call destroys no value that is read after it: CALL stored all *)
(* that the callee can overwrite, and forgets the registers.               *)
THEOREM CallsKeepValues == Spec /\ [][Fits]_vars => CallKeepsValues
<1>1. ASSUME IInv, VInv, [Next]_vars, [Fits]_vars, at = "passing", at' = "block", ~ g.dead
      PROVE  \A x \in Alive \ {last} : Kept(x) => Kept(x)'
  <2>1. Jump /\ Fits
    BY <1>1 DEF vars, Next, Define, Copy, Store, Binary, Negate, Scale, Displace, Write,
       Return, Branch, Arg, Call, PassArg, EndBlock, EnterBlock, Mentions
  <2>2. PICK T : T = Demand OBVIOUS
  <2>3. Next BY <2>1 DEF Next
  <2>4. Enough(T) BY <1>1, <2>1, <2>2, <2>3, DemandOperands DEF Enough, Small, Fits
  <2>5. /\ g'.dead = g.dead
        /\ \A x \in Alive \ {last} : ~ Held(g, x) /\ Found(g', x) /\ ~ Held(g', x)
    BY <1>1, <2>1, <2>4, JumpVInv
  <2>6. \A x \in Alive : x \notin Const BY OperandKinds DEF Alive, Needed, Global
  <2> QED BY <1>1, <2>5, <2>6 DEF Found, Kept, Held
<1>2. IInv /\ VInv /\ [Next]_vars /\ [Fits]_vars =>
        (at = "passing" /\ at' = "block" /\ ~ g.dead
            => \A x \in Alive \ {last} : Kept(x) => Kept(x)')
  BY <1>1
<1> QED BY Inductive, <1>2, PTL DEF CallKeepsValues, Spec
-----------------------------------------------------------------------------
(* A bound that can be seen in the program: no block mentions more         *)
(* operands than there are registers below $s7.                            *)
BlockFits == IsFiniteSet(touched) /\ Cardinality(touched) <= S7

LEMMA MentionsGrow ==
  ASSUME NEW uses, NEW defs, Mentions(uses, defs)
  PROVE  touched \subseteq touched' /\ (last' = None \/ last' \in touched')
<1>1. CASE defs = {} BY <1>1 DEF Mentions
<1>2. CASE defs # {}
  <2>1. (CHOOSE d \in defs : TRUE) \in defs BY <1>2
  <2>2. last' = CHOOSE d \in defs : TRUE BY <1>2 DEF Mentions
  <2> QED BY <2>1, <2>2 DEF Mentions
<1> QED BY <1>1, <1>2

(* A line needs registers for operands of its block alone.                 *)
LEMMA DemandInBlock ==
  ASSUME IInv, VInv, Next
  PROVE  Demand \subseteq touched \/ Demand \subseteq touched'
<1>1. \A x \in Promised : x \in touched
  <2>1. idx \in Nat BY DEF IInv, TypeOK
  <2> QED BY <2>1 DEF IInv, NextAhead, Promised
<1>2. ASSUME at # "exit"
      PROVE  {g.reg[r] : r \in Reg} \subseteq touched \cup {None}
  <2> SUFFICES ASSUME NEW r \in Reg, g.reg[r] # None PROVE g.reg[r] \in touched
    OBVIOUS
  <2>1. g.reg_no[g.reg[r]] = r /\ g.reg[r] \in Operand BY DEF IInv, Good, Sound, State
  <2>2. r >= 0 /\ r \in Int BY RegisterNumbers DEF Reg
  <2>3. ~ (g.reg_no[g.reg[r]] < 0) BY <2>1, <2>2
  <2> QED BY <1>2, <2>1, <2>3 DEF VInv
<1>3. Args \subseteq touched
  <2>1. at \in {"block", "passing", "branched", "exit"} BY DEF IInv, TypeOK
  <2> QED BY <2>1 DEF VInv
<1>4. CASE EnterBlock
  <2>1. at = "exit" /\ touched' = {} /\ last' = None BY <1>4 DEF EnterBlock
  <2>2. \A r \in Reg : g.reg[r] = None BY <2>1 DEF IInv, ExitsEmpty
  <2> QED BY <1>1, <1>3, <2>1, <2>2 DEF Demand, Args
<1>5. ASSUME at # "exit", touched \subseteq touched', last' = None \/ last' \in touched'
      PROVE  Demand \subseteq touched'
  BY <1>1, <1>2, <1>3, <1>5 DEF Demand, Args
<1>6. CASE \E uses, defs : Mentions(uses, defs)
  <2>1. at # "exit" BY <1>6 DEF Mentions
  <2> QED BY <1>5, <1>6, <2>1, MentionsGrow
<1>7. CASE PassArg \/ Jump
  <2>1. at = "passing" /\ touched' = touched /\ last' = last BY <1>7 DEF PassArg, Jump
  <2>2. last \in touched BY <2>1, InCall
  <2> QED BY <1>5, <2>1, <2>2
<1>8. CASE EndBlock
  <2>1. at \in {"block", "branched"} /\ touched' = touched /\ last' = last
    BY <1>8 DEF EndBlock
  <2>2. last = None \/ last \in touched BY <2>1 DEF VInv, InBlock, Branched
  <2> QED BY <1>5, <2>1, <2>2
<1> QED
  BY <1>4, <1>6, <1>7, <1>8 DEF Next, Define, Copy, Store, Binary, Negate, Scale, Displace,
     Write, Return, Branch, Arg, Call

LEMMA SmallBlockFits ==
  ASSUME IInv, VInv, [Next]_vars, BlockFits, BlockFits' PROVE [Fits]_vars
<1> SUFFICES ASSUME Next PROVE Fits BY DEF vars
<1>1. PICK B : Demand \subseteq B /\ IsFiniteSet(B) /\ Cardinality(B) <= S7
  BY DemandInBlock DEF BlockFits
<1>2. IsFiniteSet(Demand) /\ Cardinality(Demand) <= Cardinality(B)
  BY <1>1, FS_Subset
<1>3. Cardinality(B) \in Nat /\ Cardinality(Demand) \in Nat
  BY <1>1, <1>2, FS_CardinalityType
<1> QED BY <1>1, <1>2, <1>3, RegisterNumbers DEF Fits

(* So what is said above of lines that fit holds of every program whose    *)
(* blocks are that small.                                                  *)
THEOREM SmallBlocksFit == Spec /\ []BlockFits => [][Fits]_vars
<1>1. Init => IInv /\ VInv BY InitInv, InitVInv
<1>2. IInv /\ VInv /\ [Next]_vars /\ BlockFits /\ BlockFits'
        => [Fits]_vars /\ IInv' /\ VInv'
  BY SmallBlockFits, StepInv, StepVInv
<1> QED BY <1>1, <1>2, PTL DEF Spec

(* The specification that the run of this configuration checks is the one  *)
(* that these theorems speak of.                                           *)
THEOREM FittingSpecFits == FittingSpec => Spec /\ [][Fits]_vars
<1>1. [Next /\ Fits]_vars => [Next]_vars /\ [Fits]_vars OBVIOUS
<1> QED BY <1>1, PTL DEF FittingSpec, Spec
=============================================================================
