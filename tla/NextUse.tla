------------------------------ MODULE NextUse ------------------------------
(***************************************************************************)
(* The passes of Code/generate.c over the list of intermediate code that   *)
(* come before a line is printed: JudgeMultiBlock() numbers the blocks and *)
(* marks the operands that several of them mention, DividingBlock() cuts   *)
(* the list into basic blocks, scan_mark() walks a block backwards and     *)
(* notes in each instruction where its operands are mentioned next, and    *)
(* PrintCodes() walks it forwards and copies the notes to the operands,    *)
(* where the register allocator (module RegAlloc) reads them.              *)
(*                                                                         *)
(* The list is a sequence, its prev and next pointers are positions; the   *)
(* three loops advance one instruction per step.                           *)
(***************************************************************************)
EXTENDS Integers, Sequences, FiniteSets

CONSTANTS
    Operand,
    MaxLen    \* bound: instructions in a program

ASSUME LengthBound == MaxLen \in Nat

(* What the passes tell apart of an InterCode: the operands it defines and *)
(* those it reads.  "LABEL" stands for LABEL, GOTO and FUNCDEF, which no   *)
(* pass distinguishes, "OTHER" for the rest.                               *)
Instr ==
    [kind : {"LABEL"}, def : {{}}, use : {{}}]
    \cup [kind : {"CJP"}, def : {{}}, use : {{x, y} : x, y \in Operand}]
    \cup [kind : {"DEC", "READ"}, def : {{x} : x \in Operand}, use : {{}}]
    \cup [kind : {"OTHER"},
          def : {{}} \cup {{x} : x \in Operand},
          use : {{}} \cup {{x, y} : x, y \in Operand}]

VARIABLES
    code,         \* the program
    phase,        \* the loop that runs: judge, divide, mark, print; or done
    codes,        \* JudgeMultiBlock's and DividingBlock's cursor
    cur_code,     \* DividingBlock's second cursor
    num,          \* index of the block's last instruction, from 0
    block_num, cur_block, multi_block,
    nxt_code,     \* of each operand
    note          \* nxt_code[] of each instruction

vars == <<code, phase, codes, cur_code, num, block_num, cur_block,
          multi_block, nxt_code, note>>

Ops(c)    == c.def \cup c.use
Starts(c) == c.kind = "LABEL"       \* begins a block
Ends(c)   == c.kind = "CJP"         \* is the last of its block

(* Mutant of Judge: CJP does not end a block. *)
JudgeThroughCJP ==
    /\ phase = "judge" /\ codes <= Len(code)
    /\ LET c == code[codes]
           b == IF Starts(c) THEN block_num + 1 ELSE block_num
       IN  /\ cur_block' = [x \in Operand |-> IF x \in Ops(c) THEN b
                                              ELSE cur_block[x]]
           /\ multi_block' = multi_block \cup
                  {x \in Ops(c) : cur_block[x] \notin {-1, b}}
           /\ block_num' = b
    /\ codes' = codes + 1
    /\ UNCHANGED <<code, phase, cur_code, num, nxt_code, note>>

(* JudgeMultiBlock(), one instruction: 443-458. *)
Judge ==
    /\ phase = "judge" /\ codes <= Len(code)
    /\ LET c == code[codes]
           b == IF Starts(c) THEN block_num + 1 ELSE block_num
       IN  /\ cur_block' = [x \in Operand |-> IF x \in Ops(c) THEN b
                                              ELSE cur_block[x]]
           /\ multi_block' = multi_block \cup
                  {x \in Ops(c) : cur_block[x] \notin {-1, b}}
           /\ block_num' = IF Ends(c) THEN b + 1 ELSE b
    /\ codes' = codes + 1
    /\ UNCHANGED <<code, phase, cur_code, num, nxt_code, note>>

(* Mutant of NextBlock: it goes on from the wrong cursor. *)
NextBlockAtCursor ==
    /\ phase \in {"judge", "print"}
    /\ phase = "judge" => codes > Len(code)
    /\ phase = "print" => codes > cur_code
    /\ LET first == IF phase = "judge" THEN 1 ELSE cur_code
       IN  /\ codes' = first /\ cur_code' = first
           /\ phase' = IF first <= Len(code) THEN "divide" ELSE "done"
    /\ num' = 0
    /\ UNCHANGED <<code, block_num, cur_block, multi_block, nxt_code, note>>

(* DividingBlock() begins a block, or is done: 464-467. *)
NextBlock ==
    /\ phase \in {"judge", "print"}
    /\ phase = "judge" => codes > Len(code)
    /\ phase = "print" => codes > cur_code
    /\ LET first == IF phase = "judge" THEN 1 ELSE codes
       IN  /\ codes' = first /\ cur_code' = first
           /\ phase' = IF first <= Len(code) THEN "divide" ELSE "done"
    /\ num' = 0
    /\ UNCHANGED <<code, block_num, cur_block, multi_block, nxt_code, note>>

(* The loop that looks for the end of the block: 468-476. *)
AtEnd == \/ cur_code = Len(code)
         \/ Starts(code[cur_code + 1])
         \/ Ends(code[cur_code])

Divide ==
    /\ phase = "divide"
    /\ IF AtEnd
       THEN phase' = "mark" /\ UNCHANGED <<cur_code, num>>
       ELSE cur_code' = cur_code + 1 /\ num' = num + 1 /\ UNCHANGED phase
    /\ UNCHANGED <<code, codes, block_num, cur_block, multi_block, nxt_code, note>>

(* Mutants of scan_mark: what is defined is marked last; lines are counted *)
(* from 1.                                                                 *)
scan_markDefLast(c, i) ==
    [x \in Operand |-> IF x \in c.def THEN -1
                       ELSE IF x \in c.use THEN i ELSE nxt_code[x]]
scan_markFromOne(c, i) ==
    [x \in Operand |-> IF x \in c.use THEN i + 1
                       ELSE IF x \in c.def THEN -1 ELSE nxt_code[x]]

(* scan_mark() of the instruction at cur_code, the i-th of the block: what *)
(* it reads is mentioned at i, what it defines is not needed before.  READ *)
(* is among those that read their operand, DEC leaves it alone.            *)
scan_mark(c, i) ==
    LET read    == c.use \cup (IF c.kind = "READ" THEN c.def ELSE {})
        written == IF c.kind = "DEC" THEN {} ELSE c.def
    IN  [x \in Operand |-> IF x \in read THEN i
                           ELSE IF x \in written THEN -1 ELSE nxt_code[x]]

(* Mutant of Mark: the operands are marked before they are noted. *)
MarkFirst ==
    /\ phase = "mark" /\ cur_code >= codes
    /\ nxt_code' = scan_mark(code[cur_code], cur_code - codes)
    /\ note' = [note EXCEPT ![cur_code] =
                  [x \in Ops(code[cur_code]) |-> nxt_code'[x]]]
    /\ cur_code' = cur_code - 1
    /\ UNCHANGED <<code, phase, codes, num, block_num, cur_block, multi_block>>

(* The backward loop, 478-480, and its end. *)
Mark ==
    /\ phase = "mark" /\ cur_code >= codes
    /\ note' = [note EXCEPT ![cur_code] =
                  [x \in Ops(code[cur_code]) |-> nxt_code[x]]]
    /\ nxt_code' = scan_mark(code[cur_code], cur_code - codes)
    /\ cur_code' = cur_code - 1
    /\ UNCHANGED <<code, phase, codes, num, block_num, cur_block, multi_block>>

Marked ==
    /\ phase = "mark" /\ cur_code < codes
    /\ phase' = "print" /\ cur_code' = codes + num
    /\ UNCHANGED <<code, codes, num, block_num, cur_block, multi_block, nxt_code, note>>

(* PrintCodes() of the next instruction: its notes become its operands'.   *)
PrintLine ==
    /\ phase = "print" /\ codes <= cur_code
    /\ nxt_code' = [x \in Operand |-> IF x \in Ops(code[codes])
                                      THEN note[codes][x] ELSE nxt_code[x]]
    /\ codes' = codes + 1
    /\ UNCHANGED <<code, phase, cur_code, num, block_num, cur_block, multi_block, note>>

Init ==
    /\ code \in UNION {[1 .. n -> Instr] : n \in 0 .. MaxLen}
    /\ phase = "judge" /\ codes = 1 /\ cur_code = 0 /\ num = 0
    /\ block_num = 0
    /\ cur_block = [x \in Operand |-> -1] /\ multi_block = {}
    /\ nxt_code = [x \in Operand |-> -1]
    /\ note = [i \in 1 .. Len(code) |-> [x \in Ops(code[i]) |-> -1]]

Next == Judge \/ NextBlock \/ Divide \/ Mark \/ Marked \/ PrintLine

(* The passes run to their end in one thread. *)
Spec == Init /\ [][Next]_vars /\ WF_vars(Next)
-----------------------------------------------------------------------------
(* Properties.                                                             *)

TypeOK ==
    /\ code \in Seq(Instr) /\ Len(code) <= MaxLen
    /\ phase \in {"judge", "divide", "mark", "print", "done"}
    /\ codes \in 1 .. Len(code) + 1
    /\ cur_code \in 0 .. Len(code) + 1
    /\ num \in 0 .. Len(code)
    /\ block_num \in 0 .. 2 * Len(code)
    /\ cur_block \in [Operand -> -1 .. 2 * Len(code)]
    /\ multi_block \subseteq Operand
    /\ nxt_code \in [Operand -> -1 .. Len(code) - 1]
    /\ \A i \in DOMAIN code : note[i] \in [Ops(code[i]) -> -1 .. Len(code) - 1]
    /\ DOMAIN note = DOMAIN code

(* The positions of the block that is being printed. *)
First == cur_code - num
Block == First .. cur_code

(* Read(x, k): line k reads x, as far as scan_mark() can tell.  After(x, j, *)
(* k): x is not touched behind j before k.  DEC touches nothing.           *)
Touches(x, k)  == x \in Ops(code[k]) /\ code[k].kind # "DEC"
Read(x, k)     == x \in code[k].use \/ (code[k].kind = "READ" /\ Touches(x, k))
After(x, j, k) == \A m \in DOMAIN code : j < m /\ m < k => ~ Touches(x, m)

(* In the block that begins at first and ends at last, the next line       *)
(* behind j that touches x reads it, and is the p-th line of the block; if *)
(* p is -1, no line reads x before x is overwritten or the block ends.     *)
NextRead(x, first, last, j, p) ==
    IF p = -1
    THEN \A k \in j + 1 .. last : After(x, j, k) => ~ Read(x, k)
    ELSE first + p \in j + 1 .. last /\ Read(x, first + p) /\ After(x, j, first + p)

(* While a block is printed, every operand points to its next read behind  *)
(* the lines printed so far, and to none if it is overwritten first or the *)
(* block ends: this is what Free() and allocate() decide by.               *)
NextUseExact ==
    phase = "print" =>
        \A x \in Operand : NextRead(x, First, cur_code, codes - 1, nxt_code[x])

(* An operand that this block does not mention again until its end, and    *)
(* one it has never mentioned, is never taken for one it needs.            *)
CleanBetweenBlocks ==
    phase \in {"divide", "done"} => \A x \in Operand : nxt_code[x] = -1

(* JudgeMultiBlock() and DividingBlock() cut the list at the same places:  *)
(* an operand that a block shares with the rest of the program is marked   *)
(* multi_block, so that Free() stores it, and no other is.                 *)
MultiBlockExact ==
    phase = "print" =>
        \A x \in UNION {Ops(code[i]) : i \in Block} :
            x \in multi_block
            <=> \E i \in DOMAIN code \ Block : x \in Ops(code[i])

(* Every line is printed, and the passes end: the three cursors of         *)
(* DividingBlock() do not run past each other.                             *)
AllPrinted == <>(phase = "done" /\ codes = Len(code) + 1)
=============================================================================
