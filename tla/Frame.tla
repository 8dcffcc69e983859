------------------------------- MODULE Frame -------------------------------
(***************************************************************************)
(* The activation record that Code/generate.c lays out for one function,   *)
(* and what the printed code does with it.  While a function is compiled,  *)
(* prologue() gives a slot to every operand that needs one, and Save()     *)
(* pushes further slots when it spills a temporary: sp_offset follows $sp  *)
(* line by line, in the order of the text.  When the function runs,        *)
(* control takes the order of the jumps.                                   *)
(*                                                                         *)
(* A function is a sequence of basic blocks, a block a sequence of lines:  *)
(*   store x k   Save() of x, or a store to the k-th word of array x       *)
(*   load x k    lw of the same                                            *)
(*   call n      CALL with n arguments that do not fit into $a0-$a3        *)
(* Lengths are in words, slots are distances from $fp.                     *)
(***************************************************************************)
EXTENDS Integers, Sequences, FiniteSets

CONSTANTS
    Fixed,       \* operands that prologue() gives a slot
    Size,        \* their sizes: 1, or more for arrays and structures
    Temp,        \* temporaries of one block; each block has its own
    Shapes,      \* blocks
    NBlocks,     \* bound: blocks in the function
    FRAMESIZE,   \* words for $ra, $fp and the saved registers
    MaxDepth     \* bound: words on the stack

ASSUME Sizes  == Size \in [Fixed -> Nat \ {0}]
(* An index lies inside its array. *)
ASSUME Lines ==
    \A s \in Shapes :
        /\ Len(s) \in Nat
        /\ \A k \in 1 .. Len(s) :
              \/ s[k][1] = "call" /\ s[k][2] \in Nat
              \/ /\ s[k][1] \in {"store", "load"} /\ s[k][2] \in Fixed \cup Temp
                 /\ s[k][3] \in 0 .. (IF s[k][2] \in Fixed THEN Size[s[k][2]] ELSE 1) - 1
ASSUME Bounds == NBlocks \in Nat \ {0} /\ FRAMESIZE \in Nat /\ FRAMESIZE >= 2
                 /\ MaxDepth \in Nat /\ MaxDepth > FRAMESIZE

(* A temporary is told from that of the same name in another block. *)
Operand == Fixed \cup (Temp \X (1 .. NBlocks))
Own(x, b) == IF x \in Fixed THEN x ELSE <<x, b>>
Words(x)  == IF x \in Fixed THEN Size[x] ELSE 1

VARIABLES
    blocks,      \* the function
    jumps,       \* whether its blocks end with jumps
    phase,       \* prologue, compile, run or returned
    b, l,        \* the line that is compiled, or run
    sp_offset,   \* func_status.sp_offset
    offset,      \* of the operands; -1 for none
    pushes,      \* lines for which Save() has printed a push
    frame,       \* what the prologue subtracts from $sp
    depth,       \* $fp - $sp
    mem,         \* what lies at each distance from $fp
    stored       \* ghost: what has been stored since the function was entered

vars == <<blocks, jumps, phase, b, l, sp_offset, offset, pushes, frame, depth, mem, stored>>
code == <<blocks, jumps>>

Line  == blocks[b][l]
Done  == l > Len(blocks[b])
Here  == Own(Line[2], b)

-----------------------------------------------------------------------------
(* Mutants of allocate_stack: the slot is below the room made for it; every *)
(* operand gets one word.                                                  *)
allocate_stackBelow(x) ==
    IF x \in Fixed /\ offset[x] < 0
    THEN /\ sp_offset' = sp_offset + Words(x)
         /\ offset' = [offset EXCEPT ![x] = sp_offset + 1]
    ELSE UNCHANGED <<sp_offset, offset>>
allocate_stackWord(x) ==
    IF x \in Fixed /\ offset[x] < 0
    THEN /\ sp_offset' = sp_offset + 1
         /\ offset' = [offset EXCEPT ![x] = sp_offset + 1]
    ELSE UNCHANGED <<sp_offset, offset>>

allocate_stack(x) ==
    IF x \in Fixed /\ offset[x] < 0
    THEN /\ sp_offset' = sp_offset + Words(x)
         /\ offset' = [offset EXCEPT ![x] = sp_offset + Words(x)]
    ELSE UNCHANGED <<sp_offset, offset>>

Skip == IF Done THEN b' = b + 1 /\ l' = 1 ELSE b' = b /\ l' = l + 1

(* The loop of prologue() over the lines of the function. *)
Prologue ==
    /\ phase = "prologue" /\ b <= NBlocks
    /\ IF ~ Done /\ Line[1] # "call"
       THEN allocate_stack(Here) ELSE UNCHANGED <<sp_offset, offset>>
    /\ Skip
    /\ UNCHANGED <<code, phase, pushes, frame, depth, mem, stored>>

PrologueDone ==
    /\ phase = "prologue" /\ b > NBlocks
    /\ frame' = sp_offset
    /\ phase' = "compile" /\ b' = 1 /\ l' = 1
    /\ UNCHANGED <<code, sp_offset, offset, pushes, depth, mem, stored>>

(* Save(): an operand without a slot gets one, and the line a push.        *)
Save(x) ==
    IF offset[x] < 0
    THEN /\ sp_offset' = sp_offset + 1
         /\ offset' = [offset EXCEPT ![x] = sp_offset + 1]
         /\ pushes' = pushes \cup {<<b, l>>}
    ELSE UNCHANGED <<sp_offset, offset, pushes>>

Compile ==
    /\ phase = "compile" /\ b <= NBlocks
    /\ IF ~ Done /\ Line[1] = "store"
       THEN Save(Here) ELSE UNCHANGED <<sp_offset, offset, pushes>>
    /\ Skip
    /\ UNCHANGED <<code, phase, frame, depth, mem, stored>>

(* What lies on the stack and is no operand's. *)
Word(w) == <<<<w, 0>>, 0>>

(* The function is called: prologue()'s own code runs. *)
Enter ==
    /\ phase = "compile" /\ b > NBlocks
    /\ phase' = "run" /\ b' = 1 /\ l' = 1
    /\ frame <= MaxDepth /\ depth' = frame
    /\ mem' = [d \in 1 .. MaxDepth |->
                 IF d = 1 THEN Word("ra") ELSE IF d = 2 THEN Word("fp") ELSE Word("junk")]
    /\ UNCHANGED <<code, sp_offset, offset, pushes, frame, stored>>

-----------------------------------------------------------------------------
(* The run.                                                                *)

(* Mutant of Pushed: the slot is assigned, but $sp stays where it is. *)
PushedNothing == 0
Pushed == IF <<b, l>> \in pushes THEN 1 ELSE 0

Store ==
    /\ phase = "run" /\ ~ Done /\ Line[1] = "store"
    /\ depth + Pushed <= MaxDepth /\ depth' = depth + Pushed
    /\ mem' = [mem EXCEPT ![offset[Here] - Line[3]] = <<Here, Line[3]>>]
    /\ stored' = stored \cup {<<Here, Line[3]>>}
    /\ Skip
    /\ UNCHANGED <<code, phase, sp_offset, offset, pushes, frame>>

Load ==
    /\ phase = "run" /\ ~ Done /\ Line[1] = "load"
    /\ Skip
    /\ UNCHANGED <<code, phase, sp_offset, offset, pushes, frame, depth, mem, stored>>

(* Mutant of Lowered: $sp is raised for the arguments. *)
LoweredUp(n) == depth - n
Lowered(n) == depth + n

(* The arguments go to the new top of the stack; nothing takes them off    *)
(* again.  The callee's frame may cover all that lies beyond.              *)
Call ==
    /\ phase = "run" /\ ~ Done /\ Line[1] = "call"
    /\ Lowered(Line[2]) <= MaxDepth /\ depth' = Lowered(Line[2])
    /\ mem' = [d \in 1 .. MaxDepth |->
                 IF d > depth THEN (IF d <= depth' THEN Word("arg") ELSE Word("junk")) ELSE mem[d]]
    /\ Skip
    /\ UNCHANGED <<code, phase, sp_offset, offset, pushes, frame, stored>>

(* The end of a block: control goes on, or to any block.  The temporaries  *)
(* of the block are no longer needed.                                      *)
EndBlock ==
    /\ phase = "run" /\ Done
    /\ \E t \in 1 .. NBlocks : (jumps \/ t = b + 1) /\ b' = t
    /\ l' = 1
    /\ stored' = {w \in stored : w[1] \in Fixed}
    /\ UNCHANGED <<code, phase, sp_offset, offset, pushes, frame, depth, mem>>

(* RETURN ends the last block.  epilogue() fetches $ra and $fp, $sp is $fp. *)
Return ==
    /\ phase = "run" /\ Done /\ b = NBlocks
    /\ phase' = "returned" /\ depth' = 0
    /\ UNCHANGED <<code, b, l, sp_offset, offset, pushes, frame, mem, stored>>

(* Mutant of Top: the first slots lie where $ra and $fp are saved. *)
TopOverlapping == 0
Top == FRAMESIZE

Init ==
    /\ blocks \in [1 .. NBlocks -> Shapes] /\ jumps \in BOOLEAN
    /\ phase = "prologue" /\ b = 1 /\ l = 1
    /\ sp_offset = Top
    /\ offset = [x \in Operand |-> -1]
    /\ pushes = {} /\ frame = 0 /\ depth = 0
    /\ mem = [d \in 1 .. MaxDepth |-> Word("junk")] /\ stored = {}

Next ==
    \/ Prologue \/ PrologueDone \/ Compile \/ Enter
    \/ Store \/ Load \/ Call \/ EndBlock \/ Return

Spec == Init /\ [][Next]_vars

-----------------------------------------------------------------------------
(* Properties.                                                             *)

TypeOK ==
    /\ phase \in {"prologue", "compile", "run", "returned"}
    /\ b \in 1 .. NBlocks + 1 /\ l \in Nat \ {0}
    /\ sp_offset \in Nat /\ offset \in [Operand -> {-1} \cup Nat]
    /\ frame \in Nat
    /\ phase = "run" => depth \in frame .. MaxDepth

(* The slots of two operands share no word, and none lies among the saved  *)
(* registers or beyond what sp_offset counts.                              *)
Slot(x) == IF offset[x] < 0 THEN {} ELSE offset[x] - Words(x) + 1 .. offset[x]
SlotsApart ==
    \A x \in Operand :
        /\ Slot(x) \subseteq FRAMESIZE + 1 .. sp_offset
        /\ \A y \in Operand \ {x} : Slot(x) \cap Slot(y) = {}

(* What prologue() gave a slot keeps its value there, through calls, spills *)
(* and jumps.                                                              *)
FixedKept ==
    phase = "run" => \A w \in stored : w[1] \in Fixed => mem[offset[w[1]] - w[2]] = w

(* epilogue() finds $ra and $fp, although arguments are never taken off the *)
(* stack and slots pushed in loops pile up.                                *)
ReturnsHome == phase = "run" => mem[1] = Word("ra") /\ mem[2] = Word("fp")

(* A temporary that its block has spilled is where it will be loaded from, *)
(* unless control has left the order of the text.                          *)
TempsKept ==
    phase = "run" /\ ~ jumps => \A w \in stored : w[1] \notin Fixed => mem[offset[w[1]]] = w

(* $sp is the top of the stack: what is stored lies above it.              *)
SpAtTop == phase = "run" => \A w \in stored : offset[w[1]] <= depth
=============================================================================
