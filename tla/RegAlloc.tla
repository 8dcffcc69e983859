------------------------------ MODULE RegAlloc ------------------------------
(***************************************************************************)
(* The local register allocator and the instruction printers of            *)
(* Code/generate.c.  One basic block of intermediate code is translated at *)
(* a time: every instruction asks allocate() or ensure() for registers,    *)
(* prints the target instruction, and hands back with Free() the registers *)
(* of operands that the block does not mention again.                      *)
(*                                                                         *)
(* The allocator's own state (reg, reg_no, nxt_code, offset, st_lk) is     *)
(* kept beside what the printed code would do when it runs: holds[r] is    *)
(* the operand whose current value register r contains, home the operands  *)
(* whose current value is in their stack slot.  The properties compare the *)
(* two.                                                                    *)
(*                                                                         *)
(* The block itself is not fixed: each step picks an instruction, and for  *)
(* each operand it mentions the index of its next mention, which is what   *)
(* scan_mark() (module NextUse) has written down by then.  Only blocks     *)
(* that TransExp and its callees can emit are produced.                    *)
(***************************************************************************)
EXTENDS Integers, Sequences, FiniteSets

CONSTANTS
    Var,     \* named variables (kind VARIABLE_O)
    Temp,    \* temporaries of this block alone
    Cross,   \* temporaries that other blocks mention as well (multi_block)
    Const,   \* constants (CONSTANT_O): an operand is made for each occurrence
    None,    \* the NULL of reg[]
    T9,      \* number of $t9 in the enumeration of registers
    S7,      \* number of $s7, the last register allocate() hands out
    MaxLen   \* bound: instructions in a block

ASSUME RegisterNumbers == T9 \in Nat /\ S7 \in Nat /\ T9 < S7
ASSUME OperandKinds ==
    /\ Var \cap Temp = {} /\ Var \cap Cross = {} /\ Temp \cap Cross = {}
    /\ Const \cap (Var \cup Temp \cup Cross) = {}
    /\ None \notin Var \cup Temp \cup Cross \cup Const
ASSUME LengthBound == MaxLen \in Nat

Tmp     == Temp \cup Cross
Operand == Var \cup Tmp \cup Const
Global  == Var \cup Cross        \* what Free() saves: VARIABLE_O or multi_block
Reg     == 0 .. S7

VARIABLES
    g,         \* the generator: a record, see State
    idx,       \* index of the next instruction of the block
    touched,   \* operands the block has mentioned so far
    spent,     \* temporaries that nothing reads any more, in any block
    last,      \* operand the previous instruction defined
    arg_list,  \* func_status.arg_list, last ARG first
    at         \* what DividingBlock() does next

vars == <<g, idx, touched, spent, last, arg_list, at>>

State == [ reg      : [Reg -> Operand \cup {None}],
           reg_no   : [Operand -> Reg \cup {-1}],
           nxt_code : [Operand -> -1 .. MaxLen - 1],
           offset   : SUBSET Operand,        \* operands with offset >= 0
           st_lk    : BOOLEAN,
           holds    : [Reg -> Operand \cup {None}],
           home     : SUBSET Operand,
           dead     : BOOLEAN,               \* behind a RETURN: never runs
           misread  : SUBSET Operand,        \* read from a register without it
           homeless : SUBSET Operand,        \* loaded although offset < 0
           edge     : SUBSET Operand ]       \* home when the branch is taken

-----------------------------------------------------------------------------
(* The registers and stack slots: lines 46-124.                            *)

Least(R) == CHOOSE r \in R : \A q \in R : r <= q

(* _allocate() *)
Bind(s, x, r) == [s EXCEPT !.reg[r] = x, !.reg_no[x] = r]

(* Mutants of Unbind: only one of the two descriptors is cleared. *)
UnbindKeepsReg(s, X) ==
    [s EXCEPT !.reg_no = [x \in Operand |-> IF x \in X THEN -1 ELSE @[x]]]
UnbindKeepsRegNo(s, X) ==
    [s EXCEPT !.reg = [r \in Reg |-> IF @[r] \in X THEN None ELSE @[r]]]

(* _free() of every operand of X.  With reg_no = -1 the code writes reg[-1], *)
(* outside the array: no register changes.                                   *)
Unbind(s, X) ==
    [s EXCEPT
        !.reg    = [r \in Reg |-> IF \E x \in X : s.reg_no[x] = r
                                  THEN None ELSE s.reg[r]],
        !.reg_no = [x \in Operand |-> IF x \in X THEN -1 ELSE s.reg_no[x]]]

InRegister(s, x) == s.reg_no[x] >= 0 /\ s.holds[s.reg_no[x]] = x

(* Mutant of Save: what has a slot is taken to be in it already. *)
SaveOnce(s, X) ==
    LET stored == IF s.st_lk THEN {} ELSE X \ s.offset
    IN  [s EXCEPT !.offset = @ \cup stored,
                  !.home = @ \cup {x \in stored : InRegister(s, x)}]

(* Save() of every operand of X: a slot is pushed for one that has none,   *)
(* unless the stack is locked; the store copies what the register holds.   *)
Save(s, X) ==
    LET stored == IF s.st_lk THEN X \cap s.offset ELSE X
    IN  [s EXCEPT !.offset = @ \cup stored,
                  !.home = (@ \ stored) \cup {x \in stored : InRegister(s, x)}]

(* Mutant of Free: nothing is saved. *)
FreeUnsaved(s, X) == Unbind(s, {x \in X : s.nxt_code[x] <= 0})

(* Free() of every operand of X *)
Free(s, X) ==
    LET done == {x \in X : s.nxt_code[x] <= 0}
    IN  Unbind(Save(s, done \cap Global), done)

FreeRegs(s) == {r \in Reg : s.reg[r] = None}
DeadRegs(s) == {r \in Reg : s.nxt_code[s.reg[r]] < 0}
Farthest(s) ==
    {r \in Reg : \A q \in Reg : s.nxt_code[s.reg[q]] <= s.nxt_code[s.reg[r]]}

(* allocate(): a free register; else that of an operand the block does not *)
(* mention again; else that of the operand mentioned farthest ahead, which *)
(* is saved but keeps its reg_no.                                          *)
Allocate(s, x) ==
    CASE s.reg_no[x] >= 0 -> s
      [] s.reg_no[x] < 0 /\ FreeRegs(s) # {} -> Bind(s, x, Least(FreeRegs(s)))
      [] s.reg_no[x] < 0 /\ FreeRegs(s) = {} /\ DeadRegs(s) # {} ->
            LET r == Least(DeadRegs(s)) IN Bind(Free(s, {s.reg[r]}), x, r)
      [] OTHER ->
            LET r == Least(Farthest(s)) IN Bind(Save(s, {s.reg[r]}), x, r)

Load(s, x) ==
    [s EXCEPT !.holds[s.reg_no[x]] = IF x \in s.home \cup Const THEN x ELSE None,
              !.homeless = @ \cup ({x} \ (s.offset \cup Const))]

(* Mutant of Ensure: a register, but not the value. *)
EnsureUnloaded(s, x) == Allocate(s, x)

Ensure(s, x) == IF s.reg_no[x] >= 0 THEN s ELSE Load(Allocate(s, x), x)

-----------------------------------------------------------------------------
(* What a printed instruction does when it runs.                           *)

(* It reads operand x from register r. *)
Reads(s, x, r) ==
    IF s.dead \/ s.holds[r] = x THEN s ELSE [s EXCEPT !.misread = @ \cup {x}]

(* It leaves a new value of x in register r: every other copy is stale.    *)
Writes(s, x, r) ==
    [s EXCEPT !.holds = [q \in Reg |-> IF q = r THEN x
                                       ELSE IF @[q] = x THEN None ELSE @[q]],
              !.home = @ \ {x}]

-----------------------------------------------------------------------------
(* The instruction printers: lines 189-395.                                *)

(* li, address of an array, READ, PARAM: no operand is read from a register *)
PrintDefine(s, d) ==
    LET a == Allocate(s, d) IN Writes(a, d, a.reg_no[d])

(* PrintAssign(), NORMAL and RIGHT *)
PrintCopy(s, d, u) ==
    LET a == Allocate(s, d)
        b == Ensure(a, u)
    IN  Free(Writes(Reads(b, u, b.reg_no[u]), d, a.reg_no[d]), {u})

(* PrintAssign(), LEFT: *p := u.  The address p is allocated, not ensured. *)
PrintStore(s, p, u) ==
    LET a == Allocate(s, p)
        b == Ensure(a, u)
    IN  Free(Reads(Reads(b, p, a.reg_no[p]), u, b.reg_no[u]), {u})

(* PrintAdd() and PrintSub(): a constant second operand is an immediate    *)
PrintAdd(s, d, u, w) ==
    LET a == Ensure(s, u)
        b == Allocate(a, d)
        c == IF w \in Const THEN b ELSE Ensure(b, w)
        e == IF w \in Const THEN c ELSE Reads(c, w, c.reg_no[w])
        f == Writes(Reads(e, u, a.reg_no[u]), d, b.reg_no[d])
    IN  Free(IF w \in Const THEN f ELSE Free(f, {w}), {u})

(* PrintBinop() *)
PrintMul(s, d, u, w) ==
    LET a == Ensure(s, u)
        b == Allocate(a, d)
        c == Ensure(b, w)
        e == Reads(Reads(c, w, c.reg_no[w]), u, a.reg_no[u])
    IN  Free(Free(Writes(e, d, b.reg_no[d]), {u}), {w})

(* Mutant of PrintBranch: the other registers wait for the end of the block. *)
PrintBranchOnly(s, x, y, first, second) ==
    LET a == Ensure(s, first)
        b == Ensure(a, second)
        c == Reads(Reads(b, first, a.reg_no[first]), second, b.reg_no[second])
    IN  Free(Free([c EXCEPT !.edge = c.home], {x}), {y})

(* CJP: the other registers below $s7 are handed back before the branch,   *)
(* those of x and y after it.  The order in which the two arguments of     *)
(* fprintf() are evaluated, first then second, is the compiler's choice.   *)
PrintBranch(s, x, y, first, second) ==
    LET others == {s.reg[r] : r \in 0 .. S7 - 1} \ {None, x, y}
        a == Ensure(Free(s, others), first)
        b == Ensure(a, second)
        c == Reads(Reads(b, first, a.reg_no[first]), second, b.reg_no[second])
    IN  Free(Free([c EXCEPT !.edge = c.home], {x}), {y})

(* WRITE *)
PrintWrite(s, u) ==
    LET a == Ensure(s, u) IN Free(Reads(a, u, a.reg_no[u]), {u})

(* RETURN and epilogue(): the registers below $s7 are dropped unsaved.     *)
PrintReturn(s, u) ==
    LET a == PrintWrite(s, u)
    IN  [Unbind(a, {a.reg[r] : r \in 0 .. S7 - 1} \ {None}) EXCEPT !.dead = TRUE]

(* Mutant of CallSave: nothing is stored. *)
CallSaveNothing(s, args) ==
    LET freed == {x \in {s.reg[r] : r \in 0 .. S7 - 1} \ {None} :
                     x \in args => s.nxt_code[x] > 0}
    IN  [Unbind(s, freed) EXCEPT !.st_lk = TRUE]

(* CALL, before the arguments are moved: everything below $s7 is saved and *)
(* freed, an argument only if the block mentions it again.                 *)
CallSave(s, args) ==
    LET saved == {x \in {s.reg[r] : r \in 0 .. S7 - 1} \ {None} :
                     x \in args => s.nxt_code[x] > 0}
    IN  [Unbind(Save(s, saved), saved) EXCEPT !.st_lk = TRUE]

CallPass(s, u) ==
    LET a == Ensure(s, u) IN Reads(a, u, a.reg_no[u])

(* CALL, behind the arguments: what is left below $t9 is dropped.  The     *)
(* callee may overwrite every register: FUNCDEF meets no occupied one, so  *)
(* no prologue saves any.                                                  *)
CallJump(s, d) ==
    LET left == {s.reg[r] : r \in 0 .. T9 - 1} \ {None}
        a == [Unbind(s, left) EXCEPT !.st_lk = FALSE,
                                     !.holds = [r \in Reg |-> None]]
    IN  PrintDefine(a, d)

-----------------------------------------------------------------------------
(* The blocks.                                                             *)

Promised == {x \in Operand : g.nxt_code[x] = idx}

(* Mutant of Annotations: the lines of the block are counted from 1. *)
AnnotationsFromOne(M) ==
    {[x \in Operand |-> IF x \in M THEN f[x] ELSE g.nxt_code[x]] :
        f \in [M -> {-1} \cup (idx + 1 .. MaxLen)]}

(* The next mentions that scan_mark() can have noted for the operands M of *)
(* this instruction.  An instruction reads at most two operands, two only  *)
(* if neither is a variable: TransId copies a variable to a temporary.     *)
Annotations(M) ==
    LET later == idx + 1 .. MaxLen - 1
        n(f)  == [x \in Operand |-> IF x \in M THEN f[x] ELSE g.nxt_code[x]]
    IN  {n(f) : f \in {f \in [M -> {-1} \cup later] :
            /\ \A c \in M \cap Const : f[c] = -1
            /\ \A i \in later :
                LET P == {x \in Operand : n(f)[x] = i}
                IN  Cardinality(P) <= IF P \cap Var = {} THEN 2 ELSE 1}}

(* The next instruction reads the operands of uses and defines those of    *)
(* defs: whatever was promised is read now, and what is read is either     *)
(* promised or not yet mentioned.  A temporary is new where it is defined, *)
(* unless it is updated in place.                                          *)
Mentions(uses, defs) ==
    /\ at = "block" /\ idx < MaxLen
    /\ Promised \subseteq uses
    /\ uses \subseteq Promised \cup ((Global \cup Const) \ touched)
    /\ (uses \cup defs) \cap spent = {}
    /\ \A d \in defs \ uses :
        d \in touched => d \in Var /\ g.nxt_code[d] < idx
    /\ idx' = idx + 1
    /\ touched' = touched \cup uses \cup defs
    /\ last' = IF defs = {} THEN None ELSE CHOOSE d \in defs : TRUE

(* PrintCodes() copies the annotations to the operands first (273-274).    *)
Annotated(n) == [g EXCEPT !.nxt_code = n]

Straight == arg_list = <<>> /\ UNCHANGED <<arg_list, spent, at>>

Define(d) ==
    /\ Straight /\ Mentions({}, {d})
    /\ \E n \in Annotations({d}) : g' = PrintDefine(Annotated(n), d)

Copy(d, u) ==
    /\ d # u /\ ~ {d, u} \subseteq Var
    /\ Straight /\ Mentions({u}, {d})
    /\ \E n \in Annotations({u, d}) : g' = PrintCopy(Annotated(n), d, u)

(* TransAssign computes the address with the instruction before the store. *)
Store(p, u) ==
    /\ p = last /\ p # u
    /\ Straight /\ Mentions({p, u}, {})
    /\ \E n \in Annotations({p, u}) : g' = PrintStore(Annotated(n), p, u)

(* The operand was computed by the previous instruction, or before the     *)
(* label that starts this block.                                           *)
JustComputed(u) == u = last \/ idx = 0

(* TransArith: ADD and SUB, or MUL and DIV. *)
Binary(d, u, w) ==
    /\ Cardinality({d, u, w}) = 3 /\ JustComputed(w)
    /\ Straight /\ Mentions({u, w}, {d})
    /\ \E n \in Annotations({d, u, w}) :
        \/ g' = PrintAdd(Annotated(n), d, u, w)
        \/ g' = PrintMul(Annotated(n), d, u, w)

(* TransMinus: zero minus the operand. *)
Negate(d, c, w) ==
    /\ d # w /\ JustComputed(w)
    /\ Straight /\ Mentions({c, w}, {d})
    /\ \E n \in Annotations({d, c, w}) : g' = PrintAdd(Annotated(n), d, c, w)

(* TransExpArray: the index is scaled in place ...  *)
Scale(t, c) ==
    /\ JustComputed(t)
    /\ Straight /\ Mentions({t, c}, {t})
    /\ \E n \in Annotations({t, c}) :
        n[t] = idx + 1 /\ g' = PrintMul(Annotated(n), t, t, c)

(* ... and added to the address in place, as TransExpStruct adds an offset. *)
Displace(p, w) ==
    /\ p # w /\ (w \in Const \/ JustComputed(w))
    /\ Straight /\ Mentions({p, w}, {p})
    /\ \E n \in Annotations({p, w}) : g' = PrintAdd(Annotated(n), p, p, w)

Write(u) ==
    /\ Straight /\ Mentions({u}, {})
    /\ \E n \in Annotations({u}) : g' = PrintWrite(Annotated(n), u)

(* What follows in the block never runs; expressions do not span it. *)
Return(u) ==
    /\ Straight /\ Mentions({u}, {})
    /\ \A x \in Tmp : g.nxt_code[x] <= idx
    /\ g' = PrintReturn(Annotated([g.nxt_code EXCEPT ![u] = -1]), u)

(* CJP ends the block.  Its operands are made for it alone. *)
Branch(x, y) ==
    /\ x # y /\ (y \in Const \/ JustComputed(y))
    /\ arg_list = <<>> /\ Mentions({x, y}, {})
    /\ \A z \in Operand : g.nxt_code[z] <= idx
    /\ \E first \in {x, y} :
        \E second \in {x, y} \ {first} :
            g' = PrintBranch(Annotated([g.nxt_code EXCEPT ![x] = -1, ![y] = -1]),
                             x, y, first, second)
    /\ spent' = spent \cup ({x, y} \cap Cross)
    /\ at' = "branched" /\ UNCHANGED arg_list

(* ARG only queues the operand.  TransExpFun emits the ARGs of a call      *)
(* together, directly before it, each with a temporary that nothing else   *)
(* reads.                                                                  *)
Arg(u) ==
    /\ Mentions({u}, {})
    /\ g' = Annotated([g.nxt_code EXCEPT ![u] = -1])
    /\ spent' = spent \cup ({u} \cap Cross)
    /\ arg_list' = <<u>> \o arg_list /\ UNCHANGED at

(* CALL, line by line: save, move the arguments one at a time, jump.       *)
Call(d) ==
    /\ Mentions({}, {d})
    /\ \E n \in Annotations({d}) :
        g' = CallSave(Annotated(n), {arg_list[i] : i \in DOMAIN arg_list})
    /\ at' = "passing" /\ UNCHANGED <<arg_list, spent>>

PassArg ==
    /\ at = "passing" /\ arg_list # <<>>
    /\ g' = CallPass(g, Head(arg_list))
    /\ arg_list' = Tail(arg_list)
    /\ UNCHANGED <<idx, touched, spent, last, at>>

Jump ==
    /\ at = "passing" /\ arg_list = <<>>
    /\ g' = CallJump(g, last)
    /\ at' = "block"
    /\ UNCHANGED <<idx, touched, spent, last, arg_list>>

(* The end of DividingBlock()'s loop body: 484-487. *)
EndBlock ==
    /\ at \in {"block", "branched"} /\ idx > 0 /\ arg_list = <<>>
    /\ \A x \in Operand : g.nxt_code[x] < idx
    /\ g' = Free(g, {g.reg[r] : r \in Reg} \ {None})
    /\ at' = "exit"
    /\ UNCHANGED <<idx, touched, spent, last, arg_list>>

(* A block may be entered from any other, each of which left the operands  *)
(* that blocks share at home; its temporaries and constants are new.       *)
Entered(s) ==
    [s EXCEPT !.reg_no = [x \in Operand |-> IF x \in Global THEN @[x] ELSE -1],
              !.nxt_code = [x \in Operand |-> -1],
              !.offset = Global, !.home = Global,
              !.holds = [r \in Reg |-> None],
              !.dead = FALSE, !.misread = {}, !.homeless = {}, !.edge = Operand]

EnterBlock ==
    /\ at = "exit"
    /\ g' = Entered(g)
    /\ idx' = 0 /\ touched' = {} /\ spent' = {} /\ last' = None
    /\ arg_list' = <<>> /\ at' = "block"

Init ==
    /\ g = [ reg |-> [r \in Reg |-> None],
             reg_no |-> [x \in Operand |-> -1],
             nxt_code |-> [x \in Operand |-> -1],
             offset |-> Global, st_lk |-> FALSE,
             holds |-> [r \in Reg |-> None], home |-> Global,
             dead |-> FALSE, misread |-> {}, homeless |-> {},
             edge |-> Operand ]
    /\ idx = 0 /\ touched = {} /\ spent = {} /\ last = None
    /\ arg_list = <<>> /\ at = "block"

Next ==
    \/ \E d \in Var \cup Tmp : Define(d)
    \/ \E d \in Var \cup Tmp, u \in Var \cup Tmp : Copy(d, u)
    \/ \E p, u \in Tmp : Store(p, u)
    \/ \E d, u, w \in Tmp : Binary(d, u, w)
    \/ \E d, w \in Tmp, c \in Const : Negate(d, c, w)
    \/ \E t \in Tmp, c \in Const : Scale(t, c)
    \/ \E p \in Tmp, w \in Tmp \cup Const : Displace(p, w)
    \/ \E u \in Tmp : Write(u) \/ Return(u) \/ Arg(u)
    \/ \E x \in Tmp, y \in Tmp \cup Const : Branch(x, y)
    \/ \E d \in Tmp : Call(d)
    \/ PassArg \/ Jump \/ EndBlock \/ EnterBlock

Spec == Init /\ [][Next]_vars

-----------------------------------------------------------------------------
(* Properties.                                                             *)

(* Every component has its type; in particular reg_no is -1 or a register  *)
(* that allocate() hands out.                                              *)
TypeOK ==
    /\ g \in State
    /\ idx \in 0 .. MaxLen
    /\ touched \subseteq Operand
    /\ spent \subseteq Cross
    /\ last \in Operand \cup {None}
    /\ arg_list \in Seq(Tmp)
    /\ at \in {"block", "passing", "branched", "exit"}

(* The descriptors agree: an operand found in reg[r] believes that it is   *)
(* in r.  The loops over reg[] rely on it: _free() of reg[i] clears        *)
(* reg[reg[i]->reg_no].                                                    *)
DescriptorSound == \A r \in Reg : g.reg[r] # None => g.reg_no[g.reg[r]] = r

(* What a line needs registers for: the operands that have one, those it   *)
(* mentions, promised or new or defined, and the arguments still to pass.  *)
Demand ==
    ({g.reg[r] : r \in Reg} \cup {arg_list[i] : i \in DOMAIN arg_list}
        \cup Promised \cup (touched' \ touched) \cup {last'}) \ {None}

(* No line needs more than the registers below $s7.  The descriptors and   *)
(* the values are right under this condition only: see the README.         *)
Fits == IsFiniteSet(Demand) /\ Cardinality(Demand) <= S7

FittingSpec == Init /\ [][Next /\ Fits]_vars

(* And the converse, which allocate() and ensure() rely on when they       *)
(* return reg_no unasked: an operand with a reg_no is in that register.    *)
DescriptorExact ==
    \A x \in Operand : g.reg_no[x] >= 0 => g.reg[g.reg_no[x]] = x

(* Every printed instruction reads its operands from registers that hold   *)
(* their current values, also across calls and in-place updates.           *)
OperandsFresh == g.misread = {}

(* The assertion of line 119: a value is loaded only from a stack slot     *)
(* that has been assigned.                                                 *)
LoadsHaveHome == g.homeless = {}

Needed == Global \ spent

(* A block leaves every value that another block may read in its slot, on  *)
(* the way out through its last line ...                                   *)
HomesAtExit == at = "exit" /\ ~ g.dead => Needed \subseteq g.home

(* ... and on the way out through its conditional jump, which is taken     *)
(* before the code behind the jump stores anything.                        *)
HomesAtBranch == at = "branched" /\ ~ g.dead => Needed \subseteq g.edge

(* No register is occupied between two blocks: FUNCDEF relies on it to     *)
(* save nothing, LABEL because control may come from elsewhere.            *)
ExitsEmpty == at = "exit" => \A r \in Reg : g.reg[r] = None

(* The value of every operand that may still be read exists somewhere: in  *)
(* the register it is looked for in, or at home.                           *)
Alive == Needed \cup {x \in Temp : g.nxt_code[x] >= idx}
Kept(x) == IF g.reg_no[x] >= 0 THEN g.holds[g.reg_no[x]] = x ELSE x \in g.home
ValuesKept == at = "block" /\ ~ g.dead => \A x \in Alive : Kept(x)

(* What an operand that is still to be read held before the jump to the    *)
(* callee can be found after it: the caller stored whatever the callee may *)
(* overwrite.                                                              *)
CallKeepsValues ==
    [][at = "passing" /\ at' = "block" /\ ~ g.dead
        => \A x \in Alive \ {last} : Kept(x) => Kept(x)']_vars
=============================================================================
