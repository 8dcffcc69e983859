---------------------------- MODULE FrameProofs ----------------------------
(***************************************************************************)
(* Proofs about Frame, for every function, every set of operands and every *)
(* size of theirs.                                                         *)
(***************************************************************************)
EXTENDS Frame, TLAPS

(* The lines of the function, their order in the text, their operands.     *)
IsLine(c, m) == c \in 1 .. NBlocks /\ m \in 1 .. Len(blocks[c])
Before(c, m, d, n) == c < d \/ (c = d /\ m < n)
At(c, m) == Own(blocks[c][m][2], c)
Op(c, m) == blocks[c][m][1]

Types ==
    /\ blocks \in [1 .. NBlocks -> Shapes] /\ jumps \in BOOLEAN
    /\ phase \in {"prologue", "compile", "run", "returned"}
    /\ b \in 1 .. NBlocks + 1 /\ l \in Nat \ {0}
    /\ sp_offset \in Nat /\ offset \in [Operand -> {-1} \cup Nat]
    /\ frame \in Nat /\ depth \in Nat
    /\ phase = "run" => b \in 1 .. NBlocks /\ depth \in frame .. MaxDepth
    /\ mem = [d \in 1 .. MaxDepth |-> mem[d]]
    /\ phase \in {"prologue", "compile"} => stored = {}

(* The slots: SlotsApart, word by word.                                    *)
Apart ==
    /\ \A x \in Operand : offset[x] >= 0 =>
          FRAMESIZE <= offset[x] - Words(x) /\ offset[x] <= sp_offset
    /\ \A x, y \in Operand : x # y /\ offset[x] >= 0 /\ offset[y] >= 0 =>
          offset[x] <= offset[y] - Words(y) \/ offset[y] <= offset[x] - Words(x)

(* The prologue gives a slot to each fixed operand that a line names, and  *)
(* its frame holds them all.                                               *)
FixedLaid ==
    /\ FRAMESIZE <= sp_offset
    /\ \A c, m \in Nat :
          /\ IsLine(c, m) /\ Op(c, m) # "call" /\ At(c, m) \in Fixed
          /\ phase = "prologue" => Before(c, m, b, l)
          => offset[At(c, m)] >= 0
    /\ phase # "prologue" =>
          /\ FRAMESIZE <= frame /\ frame <= sp_offset
          /\ \A x \in Fixed : offset[x] <= frame

(* The pushes: each is a store of an operand that the prologue gave no     *)
(* slot, and its slot is the word below the frame or the last push before. *)
Push(c, m) ==
    /\ IsLine(c, m) /\ Op(c, m) = "store"
    /\ At(c, m) \notin Fixed /\ offset[At(c, m)] > frame
    /\ phase = "compile" => Before(c, m, b, l)
    /\ \/ offset[At(c, m)] = frame + 1
       \/ \E d, n \in Nat : <<d, n>> \in pushes /\ Before(d, n, c, m)
                            /\ offset[At(d, n)] = offset[At(c, m)] - 1

Pushes ==
    /\ pushes \subseteq Nat \X Nat
    /\ phase = "prologue" => pushes = {} /\ \A x \in Operand \ Fixed : offset[x] = -1
    /\ \A c, m \in Nat : <<c, m>> \in pushes => Push(c, m)
    /\ phase = "compile" =>
          \/ sp_offset = frame
          \/ \E d, n \in Nat : <<d, n>> \in pushes /\ offset[At(d, n)] = sp_offset

(* A temporary with a slot was pushed, at its first store in the text.     *)
Pushed1st ==
    /\ \A x \in Operand \ Fixed : offset[x] >= 0 =>
          \E d, n \in Nat : <<d, n>> \in pushes /\ At(d, n) = x
    /\ \A c, m \in Nat :
          /\ IsLine(c, m) /\ Op(c, m) = "store" /\ At(c, m) \notin Fixed
          /\ phase = "prologue" => FALSE
          /\ phase = "compile" => Before(c, m, b, l)
          => \E d, n \in Nat : <<d, n>> \in pushes /\ At(d, n) = At(c, m)
                               /\ ~ Before(c, m, d, n)

(* The run: what is stored has a slot, and in the order of the text $sp    *)
(* follows the pushes.                                                     *)
Stored ==
    \A w \in stored : /\ w = <<w[1], w[2]>> /\ w[1] \in Operand
                      /\ w[2] \in 0 .. Words(w[1]) - 1 /\ offset[w[1]] >= 0
Follows ==
    phase = "run" /\ ~ jumps =>
        /\ \A c, m \in Nat : <<c, m>> \in pushes /\ Before(c, m, b, l)
                             => offset[At(c, m)] <= depth
        /\ \A w \in stored : offset[w[1]] <= depth

IInv == /\ Types /\ Apart /\ FixedLaid /\ Pushes /\ Pushed1st
        /\ Stored /\ Follows /\ FixedKept /\ ReturnsHome /\ TempsKept

-----------------------------------------------------------------------------
(* Lines and operands.                                                     *)

LEMMA WordsPos == ASSUME NEW x \in Operand PROVE Words(x) \in Nat \ {0}
BY Sizes DEF Words

LEMMA LineFacts ==
  ASSUME Types, NEW c, NEW m, IsLine(c, m)
  PROVE  /\ c \in Nat /\ m \in Nat /\ c >= 1 /\ m >= 1
         /\ Op(c, m) \in {"call", "store", "load"}
         /\ Op(c, m) = "call" => blocks[c][m][2] \in Nat
         /\ Op(c, m) # "call" => /\ At(c, m) \in Operand
                                /\ blocks[c][m][3] \in 0 .. Words(At(c, m)) - 1
<1>1. c \in 1 .. NBlocks /\ m \in 1 .. Len(blocks[c]) BY DEF IsLine
<1>2. blocks[c] \in Shapes BY <1>1 DEF Types
<1>3. Len(blocks[c]) \in Nat /\ NBlocks \in Nat BY <1>2, Lines, Bounds
<1> DEFINE i == blocks[c][m]
<1>4. \/ i[1] = "call" /\ i[2] \in Nat
      \/ /\ i[1] \in {"store", "load"} /\ i[2] \in Fixed \cup Temp
         /\ i[3] \in 0 .. (IF i[2] \in Fixed THEN Size[i[2]] ELSE 1) - 1
  BY <1>1, <1>2, Lines
<1>5. ASSUME i[2] \in Fixed \cup Temp,
             i[3] \in 0 .. (IF i[2] \in Fixed THEN Size[i[2]] ELSE 1) - 1
      PROVE  At(c, m) \in Operand /\ i[3] \in 0 .. Words(At(c, m)) - 1
  <2>1. CASE i[2] \in Fixed
    BY <1>5, <2>1 DEF At, Own, Operand, Words
  <2>2. CASE i[2] \notin Fixed
    <3>1. At(c, m) = <<i[2], c>> BY <2>2 DEF At, Own
    <3>2. At(c, m) \in Operand BY <1>1, <1>5, <2>2, <3>1 DEF Operand
    <3>3. i[3] = 0 BY <1>5, <2>2
    <3> QED BY <3>2, <3>3, WordsPos
  <2> QED BY <2>1, <2>2
<1> QED BY <1>1, <1>3, <1>4, <1>5 DEF Op

(* The line that is compiled or run.                                       *)
LEMMA CursorFacts ==
  ASSUME Types, b \in 1 .. NBlocks
  PROVE  /\ Len(blocks[b]) \in Nat
         /\ ~ Done => IsLine(b, l)
         /\ Here = At(b, l) /\ Line[1] = Op(b, l)
<1>1. blocks[b] \in Shapes BY DEF Types
<1>2. Len(blocks[b]) \in Nat BY <1>1, Lines
<1> QED BY <1>2 DEF Types, Done, IsLine, Here, At, Line, Op

(* What comes before the cursor when it has moved on.                      *)
LEMMA Advance ==
  ASSUME Types, b \in 1 .. NBlocks, Skip, NEW c, NEW m, IsLine(c, m)
  PROVE  /\ Before(c, m, b', l') <=> Before(c, m, b, l) \/ (~ Done /\ c = b /\ m = l)
         /\ b' \in 1 .. NBlocks + 1 /\ l' \in Nat \ {0}
<1>1. Len(blocks[b]) \in Nat /\ NBlocks \in Nat BY CursorFacts, Bounds
<1>2. c \in 1 .. NBlocks /\ m \in 1 .. Len(blocks[c]) BY DEF IsLine
<1>3. c \in Nat /\ m \in Nat BY LineFacts
<1>4. b \in Nat /\ l \in Nat \ {0} BY <1>1 DEF Types
<1>5. CASE Done
  <2>1. b' = b + 1 /\ l' = 1 /\ l > Len(blocks[b]) BY <1>5 DEF Skip, Done
  <2>2. c = b => m < l BY <1>1, <1>2, <1>3, <1>4, <2>1
  <2> QED BY <1>1, <1>2, <1>3, <1>4, <1>5, <2>1, <2>2 DEF Before
<1>6. CASE ~ Done
  <2>1. b' = b /\ l' = l + 1 BY <1>6 DEF Skip
  <2> QED BY <1>1, <1>3, <1>4, <1>6, <2>1 DEF Before
<1> QED BY <1>5, <1>6

(* allocate_stack and Save: a new slot below all others.                   *)
LEMMA NewSlot ==
  ASSUME Types, Apart, FRAMESIZE <= sp_offset, NEW x \in Operand, offset[x] < 0,
         sp_offset' = sp_offset + Words(x),
         offset' = [offset EXCEPT ![x] = sp_offset + Words(x)]
  PROVE  /\ Apart' /\ sp_offset' \in Nat /\ offset' \in [Operand -> {-1} \cup Nat]
         /\ FRAMESIZE <= sp_offset' /\ sp_offset < sp_offset'
         /\ offset'[x] = sp_offset'
         /\ \A y \in Operand : y # x => offset'[y] = offset[y]
<1>1. sp_offset \in Nat /\ offset \in [Operand -> {-1} \cup Nat] BY DEF Types
<1>2. Words(x) \in Nat \ {0} BY WordsPos
<1>3. FRAMESIZE \in Nat BY Bounds
<1>4. sp_offset' \in Nat /\ FRAMESIZE <= sp_offset' /\ sp_offset < sp_offset'
  BY <1>1, <1>2, <1>3
<1>5. /\ offset'[x] = sp_offset' /\ offset' \in [Operand -> {-1} \cup Nat]
      /\ \A y \in Operand : y # x => offset'[y] = offset[y]
  BY <1>1, <1>2, <1>4
<1>6. ASSUME NEW y \in Operand, offset'[y] >= 0
      PROVE  FRAMESIZE <= offset'[y] - Words(y) /\ offset'[y] <= sp_offset'
  <2>1. Words(y) \in Nat \ {0} BY WordsPos
  <2>2. CASE y = x BY <1>1, <1>2, <1>3, <1>5, <2>2
  <2>3. CASE y # x
    <3>1. offset'[y] = offset[y] BY <1>5, <2>3
    <3>2. FRAMESIZE <= offset[y] - Words(y) /\ offset[y] <= sp_offset
      BY <1>6, <3>1 DEF Apart
    <3>3. offset[y] \in {-1} \cup Nat BY <1>1
    <3> QED BY <1>1, <1>4, <3>1, <3>2, <3>3
  <2> QED BY <2>2, <2>3
<1>7. ASSUME NEW y \in Operand, NEW z \in Operand, y # z,
             offset'[y] >= 0, offset'[z] >= 0
      PROVE  offset'[y] <= offset'[z] - Words(z) \/ offset'[z] <= offset'[y] - Words(y)
  <2>1. offset[y] \in {-1} \cup Nat /\ offset[z] \in {-1} \cup Nat BY <1>1
  <2>2. CASE y # x /\ z # x BY <1>5, <1>7, <2>2 DEF Apart
  <2>3. CASE y = x
    <3>1. offset'[z] = offset[z] /\ offset[z] <= sp_offset BY <1>5, <1>7, <2>3 DEF Apart
    <3> QED BY <1>1, <1>2, <1>5, <2>1, <2>3, <3>1
  <2>4. CASE z = x
    <3>1. offset'[y] = offset[y] /\ offset[y] <= sp_offset BY <1>5, <1>7, <2>4 DEF Apart
    <3> QED BY <1>1, <1>2, <1>5, <2>1, <2>4, <3>1
  <2> QED BY <2>2, <2>3, <2>4
<1>8. Apart' BY <1>6, <1>7 DEF Apart, Words
<1> QED BY <1>4, <1>5, <1>8

(* Two words of two slots are the same only if they are the same word.     *)
LEMMA SlotWord ==
  ASSUME Types, Apart, NEW x \in Operand, NEW y \in Operand,
         NEW j \in 0 .. Words(x) - 1, NEW k \in 0 .. Words(y) - 1,
         offset[x] >= 0, offset[y] >= 0
  PROVE  /\ offset[x] - j = offset[y] - k => x = y /\ j = k
         /\ offset[x] - j > FRAMESIZE
<1>1. Words(x) \in Nat \ {0} /\ Words(y) \in Nat \ {0} /\ FRAMESIZE \in Nat
  BY WordsPos, Bounds
<1>2. offset[x] \in Nat /\ offset[y] \in Nat BY DEF Types
<1>3. x # y => offset[x] <= offset[y] - Words(y) \/ offset[y] <= offset[x] - Words(x)
  BY DEF Apart
<1>4. FRAMESIZE <= offset[x] - Words(x) BY DEF Apart
<1> QED BY <1>1, <1>2, <1>3, <1>4

-----------------------------------------------------------------------------
(* One lemma per action.                                                   *)

LEMMA InitInv == Init => IInv
<1> SUFFICES ASSUME Init PROVE IInv OBVIOUS
<1>1. Types
  <2>1. offset \in [Operand -> {-1} \cup Nat] BY DEF Init
  <2>2. mem = [d \in 1 .. MaxDepth |-> mem[d]] BY DEF Init
  <2>3. sp_offset \in Nat /\ b \in 1 .. NBlocks + 1 BY Bounds DEF Init, Top
  <2> QED BY <2>1, <2>2, <2>3 DEF Init, Types
<1>2. \A x \in Operand : offset[x] = -1 BY DEF Init
<1>3. Apart BY <1>2 DEF Apart
<1>4. FixedLaid
  <2>1. FRAMESIZE <= sp_offset BY Bounds DEF Init, Top
  <2>2. \A c, m \in Nat : IsLine(c, m) => ~ Before(c, m, b, l)
    BY <1>1, Bounds, LineFacts DEF Init, Before
  <2> QED BY <2>1, <2>2 DEF Init, FixedLaid
<1>5. Pushes BY <1>2 DEF Init, Pushes
<1>6. Pushed1st BY <1>2 DEF Init, Pushed1st
<1>7. Stored /\ Follows /\ FixedKept /\ ReturnsHome /\ TempsKept
  BY DEF Init, Stored, Follows, FixedKept, ReturnsHome, TempsKept
<1> QED BY <1>1, <1>3, <1>4, <1>5, <1>6, <1>7 DEF IInv

(* Until the function runs, nothing is stored.                             *)
LEMMA Idle ==
  ASSUME IInv, phase \in {"prologue", "compile"}, phase' \in {"prologue", "compile"},
         stored' = stored
  PROVE  Stored' /\ Follows' /\ FixedKept' /\ ReturnsHome' /\ TempsKept'
BY DEF IInv, Types, Stored, Follows, FixedKept, ReturnsHome, TempsKept

LEMMA PrologueInv == ASSUME IInv, Prologue PROVE IInv'
<1> USE DEF IInv
<1>1. /\ phase = "prologue" /\ phase' = phase /\ Skip /\ b \in 1 .. NBlocks
      /\ UNCHANGED <<blocks, jumps, pushes, frame, depth, mem, stored>>
  BY Bounds DEF Prologue, Types, code
<1>2. CASE ~ Done /\ Op(b, l) # "call" /\ Here \in Fixed /\ offset[Here] < 0
  <2>1. IsLine(b, l) /\ Here = At(b, l) /\ Line[1] = Op(b, l) BY <1>1, <1>2, CursorFacts
  <2>2. Here \in Operand BY <1>2 DEF Operand
  <2>3. /\ sp_offset' = sp_offset + Words(Here)
        /\ offset' = [offset EXCEPT ![Here] = sp_offset + Words(Here)]
    BY <1>1, <1>2, <2>1 DEF Prologue, allocate_stack
  <2>4. /\ Apart' /\ sp_offset' \in Nat /\ offset' \in [Operand -> {-1} \cup Nat]
        /\ FRAMESIZE <= sp_offset' /\ sp_offset < sp_offset'
        /\ offset'[Here] = sp_offset'
        /\ \A y \in Operand : y # Here => offset'[y] = offset[y]
    BY <1>2, <2>2, <2>3, NewSlot DEF FixedLaid
  <2>5. b' \in 1 .. NBlocks + 1 /\ l' \in Nat \ {0} BY <1>1, <2>1, Advance
  <2>6. Types' BY <1>1, <2>4, <2>5 DEF Types
  <2>7. FixedLaid'
    <3> SUFFICES ASSUME NEW c \in Nat, NEW m \in Nat, IsLine(c, m), Op(c, m) # "call",
                        At(c, m) \in Fixed, Before(c, m, b', l')
                 PROVE  offset'[At(c, m)] >= 0
      BY <1>1, <2>4 DEF FixedLaid, IsLine, Op, At, Before
    <3>1. Before(c, m, b, l) \/ (c = b /\ m = l) BY <1>1, Advance
    <3>2. At(c, m) \in Operand BY DEF Operand
    <3>3. CASE At(c, m) = Here BY <2>4, <3>3
    <3>4. CASE At(c, m) # Here
      BY <1>1, <2>1, <2>4, <3>1, <3>2, <3>4 DEF FixedLaid
    <3> QED BY <3>3, <3>4
  <2>8. Pushes' /\ Pushed1st'
    <3>1. \A x \in Operand \ Fixed : offset'[x] = -1 BY <1>1, <1>2, <2>4 DEF Pushes
    <3> QED BY <1>1, <3>1 DEF Pushes, Pushed1st
  <2> QED BY <1>1, <2>4, <2>6, <2>7, <2>8, Idle
<1>3. CASE ~ (~ Done /\ Op(b, l) # "call" /\ Here \in Fixed /\ offset[Here] < 0)
  <2>1. UNCHANGED <<sp_offset, offset>>
    BY <1>1, <1>3, CursorFacts DEF Prologue, allocate_stack
  <2>2. b' \in 1 .. NBlocks + 1 /\ l' \in Nat \ {0}
    <3>1. NBlocks \in Nat /\ l \in Nat BY Bounds DEF Types
    <3> QED BY <1>1, <3>1 DEF Skip
  <2>3. Types' BY <1>1, <2>1, <2>2 DEF Types
  <2>4. Apart' BY <2>1 DEF Apart, Words
  <2>5. FixedLaid'
    <3> SUFFICES ASSUME NEW c \in Nat, NEW m \in Nat, IsLine(c, m), Op(c, m) # "call",
                        At(c, m) \in Fixed, Before(c, m, b', l')
                 PROVE  offset[At(c, m)] >= 0
      BY <1>1, <2>1 DEF FixedLaid, IsLine, Op, At, Before
    <3>1. Before(c, m, b, l) \/ (~ Done /\ c = b /\ m = l) BY <1>1, Advance
    <3>2. CASE Before(c, m, b, l) BY <1>1, <3>2 DEF FixedLaid
    <3>3. CASE ~ Done /\ c = b /\ m = l
      <4>1. Here = At(c, m) /\ Here \in Operand BY <1>1, <3>3, CursorFacts DEF Operand
      <4> QED BY <1>3, <3>3, <4>1 DEF Types
    <3> QED BY <3>1, <3>2, <3>3
  <2>6. Pushes' /\ Pushed1st' BY <1>1, <2>1 DEF Pushes, Pushed1st
  <2> QED BY <1>1, <2>3, <2>4, <2>5, <2>6, Idle
<1> QED BY <1>2, <1>3

LEMMA PrologueDoneInv == ASSUME IInv, PrologueDone PROVE IInv'
<1> USE DEF IInv
<1>1. /\ phase = "prologue" /\ b > NBlocks /\ frame' = sp_offset
      /\ phase' = "compile" /\ b' = 1 /\ l' = 1
      /\ UNCHANGED <<blocks, jumps, sp_offset, offset, pushes, depth, mem, stored>>
  BY DEF PrologueDone, code
<1>2. NBlocks \in Nat /\ sp_offset \in Nat /\ offset \in [Operand -> {-1} \cup Nat]
  BY Bounds DEF Types
<1>3. Types' BY <1>1, <1>2 DEF Types
<1>4. Apart' BY <1>1 DEF Apart, Words
<1>5. FixedLaid'
  <2>1. \A c, m \in Nat : IsLine(c, m) => Before(c, m, b, l)
    BY <1>1, <1>2 DEF IsLine, Before, Types
  <2>2. \A x \in Fixed : offset[x] <= sp_offset
    <3> SUFFICES ASSUME NEW x \in Fixed PROVE offset[x] <= sp_offset OBVIOUS
    <3>1. x \in Operand BY DEF Operand
    <3>2. offset[x] \in {-1} \cup Nat BY <1>2, <3>1
    <3>3. offset[x] >= 0 => offset[x] <= sp_offset BY <3>1 DEF Apart
    <3> QED BY <1>2, <3>2, <3>3
  <2>3. \A c, m \in Nat : IsLine(c, m) /\ Op(c, m) # "call" /\ At(c, m) \in Fixed
                           => offset[At(c, m)] >= 0
    BY <1>1, <2>1 DEF FixedLaid
  <2> QED BY <1>1, <1>2, <2>2, <2>3 DEF FixedLaid, IsLine, Op, At
<1>6. Pushes' BY <1>1 DEF Pushes
<1>7. Pushed1st'
  <2>1. \A c, m \in Nat : IsLine(c, m) => ~ Before(c, m, 1, 1)
    BY LineFacts DEF Before
  <2> QED BY <1>1, <2>1 DEF Pushed1st, Pushes, IsLine, Op, At, Before
<1> QED BY <1>1, <1>3, <1>4, <1>5, <1>6, <1>7, Idle

LEMMA CompileInv == ASSUME IInv, Compile PROVE IInv'
<1> USE DEF IInv
<1>1. /\ phase = "compile" /\ phase' = phase /\ Skip /\ b \in 1 .. NBlocks
      /\ UNCHANGED <<blocks, jumps, frame, depth, mem, stored>>
  BY Bounds DEF Compile, Types, code
<1>2. /\ sp_offset \in Nat /\ offset \in [Operand -> {-1} \cup Nat] /\ frame \in Nat
      /\ b \in Nat /\ l \in Nat
  BY <1>1 DEF Types
<1>3. b' \in 1 .. NBlocks + 1 /\ l' \in Nat \ {0}
  BY <1>1, <1>2, Bounds DEF Skip
<1>4. \A c, m \in Nat : IsLine(c, m) =>
          (Before(c, m, b', l') <=> Before(c, m, b, l) \/ (~ Done /\ c = b /\ m = l))
  BY <1>1, Advance
<1>5. CASE ~ Done /\ Op(b, l) = "store" /\ offset[Here] < 0
  <2>1. IsLine(b, l) /\ Here = At(b, l) /\ Line[1] = Op(b, l) BY <1>1, <1>5, CursorFacts
  <2>2. Here \in Operand BY <1>5, <2>1, LineFacts
  <2>3. Here \notin Fixed
    <3>1. IsLine(b, l) /\ Op(b, l) # "call" /\ phase # "prologue" BY <1>1, <1>5, <2>1
    <3>2. At(b, l) \in Fixed => offset[At(b, l)] >= 0 BY <1>2, <3>1 DEF FixedLaid
    <3>3. offset[Here] \in {-1} \cup Nat BY <1>2, <2>2
    <3> HIDE DEF IInv
    <3> QED BY <1>5, <2>1, <3>2, <3>3
  <2>4. Words(Here) = 1 BY <2>3 DEF Words
  <2>5. /\ sp_offset' = sp_offset + Words(Here)
        /\ offset' = [offset EXCEPT ![Here] = sp_offset + Words(Here)]
        /\ pushes' = pushes \cup {<<b, l>>}
    BY <1>1, <1>5, <2>1, <2>4 DEF Compile, Save
  <2>6. /\ Apart' /\ sp_offset' \in Nat /\ offset' \in [Operand -> {-1} \cup Nat]
        /\ FRAMESIZE <= sp_offset' /\ sp_offset < sp_offset'
        /\ offset'[Here] = sp_offset'
        /\ \A y \in Operand : y # Here => offset'[y] = offset[y]
    BY <1>5, <2>2, <2>5, NewSlot DEF FixedLaid
  <2>7. Types' BY <1>1, <1>3, <2>6 DEF Types
  <2>8. FixedLaid'
    <3>1. \A x \in Fixed : offset'[x] = offset[x] BY <2>3, <2>6 DEF Operand
    <3>2. frame <= sp_offset BY <1>1 DEF FixedLaid
    <3> QED BY <1>1, <1>2, <2>6, <3>1, <3>2 DEF FixedLaid, IsLine, Op, At
  <2>9. \A c, m \in Nat : <<c, m>> \in pushes =>
            /\ IsLine(c, m) /\ At(c, m) \in Operand /\ At(c, m) # Here
            /\ offset'[At(c, m)] = offset[At(c, m)] /\ Before(c, m, b, l)
    <3> SUFFICES ASSUME NEW c \in Nat, NEW m \in Nat, <<c, m>> \in pushes
                 PROVE  /\ IsLine(c, m) /\ At(c, m) \in Operand /\ At(c, m) # Here
                        /\ offset'[At(c, m)] = offset[At(c, m)] /\ Before(c, m, b, l)
      OBVIOUS
    <3>1. Push(c, m) BY DEF Pushes
    <3>2. At(c, m) \in Operand BY <3>1, LineFacts DEF Push
    <3>3. offset[At(c, m)] > frame BY <3>1 DEF Push
    <3>4. At(c, m) # Here BY <1>2, <1>5, <2>2, <3>3
    <3> QED BY <1>1, <2>6, <3>1, <3>2, <3>4 DEF Push
  <2>10. Pushes'
    <3>1. (pushes \subseteq Nat \X Nat)' BY <1>2, <2>5 DEF Pushes
    <3>2. ASSUME NEW c \in Nat, NEW m \in Nat, <<c, m>> \in pushes PROVE Push(c, m)'
      <4>1. Push(c, m) BY <3>2 DEF Pushes
      <4>2. /\ IsLine(c, m) /\ offset'[At(c, m)] = offset[At(c, m)]
            /\ Before(c, m, b', l')
        BY <1>4, <2>9, <3>2
      <4>3. CASE offset[At(c, m)] = frame + 1
        BY <1>1, <4>1, <4>2, <4>3 DEF Push, IsLine, Op, At, Before
      <4>4. CASE \E d, n \in Nat : <<d, n>> \in pushes /\ Before(d, n, c, m)
                                /\ offset[At(d, n)] = offset[At(c, m)] - 1
        <5>1. PICK d, n \in Nat : <<d, n>> \in pushes /\ Before(d, n, c, m)
                                /\ offset[At(d, n)] = offset[At(c, m)] - 1
          BY <4>4
        <5>2. offset'[At(d, n)] = offset[At(d, n)] BY <2>9, <5>1
        <5> QED BY <1>1, <2>5, <4>1, <4>2, <5>1, <5>2 DEF Push, IsLine, Op, At, Before
      <4> QED BY <4>1, <4>3, <4>4 DEF Push
    <3>3. ASSUME NEW c \in Nat, NEW m \in Nat, c = b, m = l PROVE Push(c, m)'
      <4> HIDE DEF IInv
      <4>1. offset'[At(c, m)] = sp_offset + 1 BY <1>2, <2>1, <2>4, <2>5, <2>6, <3>3
      <4>2. frame <= sp_offset BY <1>1 DEF FixedLaid, IInv
      <4>3. Before(c, m, b', l') BY <1>2, <1>4, <1>5, <2>1, <3>3
      <4>4. IsLine(c, m) /\ Op(c, m) = "store" /\ At(c, m) \notin Fixed
            /\ offset'[At(c, m)] > frame
        BY <1>2, <1>5, <2>1, <2>3, <3>3, <4>1, <4>2
      <4>5. \/ offset'[At(c, m)] = frame + 1
            \/ \E d, n \in Nat : <<d, n>> \in pushes' /\ Before(d, n, c, m)
                                 /\ offset'[At(d, n)] = offset'[At(c, m)] - 1
        <5>1. CASE sp_offset = frame BY <4>1, <5>1
        <5>2. CASE \E d, n \in Nat : <<d, n>> \in pushes /\ offset[At(d, n)] = sp_offset
          <6>1. PICK d, n \in Nat : <<d, n>> \in pushes /\ offset[At(d, n)] = sp_offset
            BY <5>2
          <6>2. offset'[At(d, n)] = sp_offset /\ Before(d, n, c, m) /\ <<d, n>> \in pushes'
            BY <2>5, <2>9, <3>3, <6>1
          <6>3. offset'[At(c, m)] - 1 = sp_offset BY <1>2, <4>1
          <6> QED BY <6>2, <6>3
        <5> QED BY <1>1, <5>1, <5>2 DEF Pushes, IInv
      <4> QED BY <1>1, <4>3, <4>4, <4>5 DEF Push, IsLine, Op, At, Before
    <3>4. offset'[At(b, l)] = sp_offset' /\ <<b, l>> \in pushes' BY <2>1, <2>5, <2>6
    <3>5. \A c, m \in Nat : <<c, m>> \in pushes' => Push(c, m)'
      BY <2>5, <3>2, <3>3
    <3> QED BY <1>1, <1>2, <3>1, <3>4, <3>5 DEF Pushes, At
  <2>11. Pushed1st'
    <3>1. <<b, l>> \in pushes' /\ At(b, l) = Here /\ pushes \subseteq pushes'
      BY <2>1, <2>5
    <3>2. ASSUME NEW x \in Operand \ Fixed, offset'[x] >= 0
          PROVE  \E d, n \in Nat : <<d, n>> \in pushes' /\ At(d, n) = x
      <4>1. CASE x = Here BY <1>2, <3>1, <4>1
      <4>2. CASE x # Here BY <2>6, <3>1, <3>2, <4>2 DEF Pushed1st
      <4> QED BY <4>1, <4>2
    <3>3. ASSUME NEW c \in Nat, NEW m \in Nat, IsLine(c, m), Op(c, m) = "store",
                 At(c, m) \notin Fixed, Before(c, m, b', l')
          PROVE  \E d, n \in Nat : <<d, n>> \in pushes' /\ At(d, n) = At(c, m)
                                   /\ ~ Before(c, m, d, n)
      <4>1. CASE Before(c, m, b, l) BY <1>1, <3>1, <3>3, <4>1 DEF Pushed1st
      <4>2. CASE c = b /\ m = l BY <1>2, <3>1, <4>2 DEF Before
      <4> QED BY <1>4, <3>3, <4>1, <4>2
    <3> QED BY <1>1, <3>2, <3>3 DEF Pushed1st, IsLine, Op, At, Before
  <2> QED BY <1>1, <2>6, <2>7, <2>8, <2>10, <2>11, Idle
<1>6. CASE ~ (~ Done /\ Op(b, l) = "store" /\ offset[Here] < 0)
  <2>1. UNCHANGED <<sp_offset, offset, pushes>>
    BY <1>1, <1>6, CursorFacts DEF Compile, Save
  <2>2. Types' BY <1>1, <1>3, <2>1 DEF Types
  <2>3. Apart' BY <2>1 DEF Apart, Words
  <2>4. FixedLaid' BY <1>1, <2>1 DEF FixedLaid, IsLine, Op, At
  <2>5. \A c, m \in Nat : <<c, m>> \in pushes => Push(c, m)'
    <3> SUFFICES ASSUME NEW c \in Nat, NEW m \in Nat, <<c, m>> \in pushes
                 PROVE  Push(c, m)'
      OBVIOUS
    <3>1. Push(c, m) BY DEF Pushes
    <3>2. Before(c, m, b', l') BY <1>1, <1>4, <3>1 DEF Push
    <3> QED BY <1>1, <2>1, <3>1, <3>2 DEF Push, IsLine, Op, At, Before
  <2>6. Pushes' BY <1>1, <2>1, <2>5 DEF Pushes, At
  <2>7. Pushed1st'
    <3> SUFFICES ASSUME NEW c \in Nat, NEW m \in Nat, IsLine(c, m), Op(c, m) = "store",
                        At(c, m) \notin Fixed, Before(c, m, b', l')
                 PROVE  \E d, n \in Nat : <<d, n>> \in pushes /\ At(d, n) = At(c, m)
                                          /\ ~ Before(c, m, d, n)
      BY <1>1, <2>1 DEF Pushed1st, IsLine, Op, At, Before
    <3>1. CASE Before(c, m, b, l) BY <1>1, <3>1 DEF Pushed1st
    <3>2. CASE ~ Done /\ c = b /\ m = l
      <4>1. Here = At(c, m) /\ Here \in Operand BY <1>1, <3>2, CursorFacts, LineFacts
      <4>2. offset[Here] >= 0 BY <1>2, <1>6, <3>2, <4>1
      <4>3. PICK d, n \in Nat : <<d, n>> \in pushes /\ At(d, n) = Here
        BY <4>1, <4>2 DEF Pushed1st
      <4>4. Before(d, n, b, l) BY <1>1, <4>3 DEF Pushes, Push
      <4> QED BY <1>2, <3>2, <4>1, <4>3, <4>4 DEF Before
    <3> QED BY <1>4, <3>1, <3>2
  <2> QED BY <1>1, <2>2, <2>3, <2>4, <2>6, <2>7, Idle
<1> QED BY <1>5, <1>6


(* Nothing of the layout changes when the function runs.                   *)
LEMMA LaidOut ==
  ASSUME IInv, phase = "run" \/ (phase = "compile" /\ b > NBlocks),
         phase' \in {"run", "returned"},
         UNCHANGED <<blocks, sp_offset, offset, pushes, frame>>
  PROVE  Apart' /\ FixedLaid' /\ Pushes' /\ Pushed1st'
<1> USE DEF IInv
<1>1. Apart' BY DEF Apart, Words
<1>2. FixedLaid' BY DEF FixedLaid, IsLine, Op, At
<1>3. \A c, m \in Nat : <<c, m>> \in pushes => Push(c, m)'
  <2> SUFFICES ASSUME NEW c \in Nat, NEW m \in Nat, <<c, m>> \in pushes PROVE Push(c, m)'
    OBVIOUS
  <2>1. Push(c, m) BY DEF Pushes
  <2> QED BY <2>1 DEF Push, IsLine, Op, At, Before
<1>4. Pushes' BY <1>3 DEF Pushes
<1>5. phase = "compile" => \A c, m \in Nat : IsLine(c, m) => Before(c, m, b, l)
  BY Bounds DEF IsLine, Before, Types
<1>6. Pushed1st'
  <2>1. ASSUME NEW c \in Nat, NEW m \in Nat, IsLine(c, m), Op(c, m) = "store",
               At(c, m) \notin Fixed
        PROVE  \E d, n \in Nat : <<d, n>> \in pushes /\ At(d, n) = At(c, m)
                                 /\ ~ Before(c, m, d, n)
    BY <1>5, <2>1 DEF Pushed1st
  <2>2. \A x \in Operand \ Fixed : offset[x] >= 0 =>
            \E d, n \in Nat : <<d, n>> \in pushes /\ At(d, n) = x
    BY DEF Pushed1st
  <2> HIDE DEF IInv
  <2> QED BY <2>1, <2>2 DEF Pushed1st, IsLine, Op, At, Before
<1> QED BY <1>1, <1>2, <1>4, <1>6

LEMMA EnterInv == ASSUME IInv, Enter PROVE IInv'
<1> USE DEF IInv
<1>1. /\ phase = "compile" /\ b > NBlocks /\ phase' = "run" /\ b' = 1 /\ l' = 1
      /\ frame <= MaxDepth /\ depth' = frame
      /\ mem' = [d \in 1 .. MaxDepth |->
                   IF d = 1 THEN Word("ra") ELSE IF d = 2 THEN Word("fp") ELSE Word("junk")]
      /\ UNCHANGED <<blocks, jumps, sp_offset, offset, pushes, frame, stored>>
  BY DEF Enter, code
<1>2. /\ stored = {} /\ frame \in Nat /\ NBlocks \in Nat \ {0}
      /\ MaxDepth \in Nat /\ MaxDepth >= 2
  BY <1>1, Bounds DEF Types
<1>3. Types'
  <2>1. mem' = [d \in 1 .. MaxDepth |-> mem'[d]] BY <1>1
  <2>2. 1 \in 1 .. NBlocks /\ 1 \in 1 .. NBlocks + 1 /\ frame \in frame .. MaxDepth
    BY <1>1, <1>2
  <2> QED BY <1>1, <1>2, <2>1, <2>2 DEF Types
<1>4. mem'[1] = Word("ra") /\ mem'[2] = Word("fp") BY <1>1, <1>2
<1>5. \A c, m \in Nat : <<c, m>> \in pushes => ~ Before(c, m, 1, 1)
  <2> SUFFICES ASSUME NEW c \in Nat, NEW m \in Nat, <<c, m>> \in pushes
               PROVE  ~ Before(c, m, 1, 1)
    OBVIOUS
  <2>1. IsLine(c, m) BY DEF Pushes, Push
  <2> QED BY <2>1, LineFacts DEF Before
<1>6. Follows' BY <1>1, <1>2, <1>5 DEF Follows, Before
<1>7. Stored' /\ FixedKept' /\ ReturnsHome' /\ TempsKept'
  BY <1>1, <1>2, <1>4 DEF Stored, FixedKept, ReturnsHome, TempsKept, Word
<1>8. Apart' /\ FixedLaid' /\ Pushes' /\ Pushed1st' BY <1>1, LaidOut
<1> QED BY <1>3, <1>6, <1>7, <1>8

(* What is stored lies in the frame, or in the pushed words above $sp.     *)
LEMMA StoredPlace ==
  ASSUME IInv, phase = "run", NEW w \in stored
  PROVE  /\ w[1] \in Operand /\ w[2] \in Nat /\ offset[w[1]] \in Nat
         /\ offset[w[1]] - w[2] > FRAMESIZE
         /\ w[1] \in Fixed \/ ~ jumps => offset[w[1]] <= depth
         /\ w[1] \notin Fixed => w[2] = 0
<1> USE DEF IInv
<1>1. /\ w[1] \in Operand /\ w[2] \in 0 .. Words(w[1]) - 1 /\ offset[w[1]] >= 0
  BY DEF Stored
<1>2. Words(w[1]) \in Nat \ {0} /\ offset[w[1]] \in Nat BY <1>1, WordsPos DEF Types
<1>3. offset[w[1]] - w[2] > FRAMESIZE BY <1>1, SlotWord
<1>4. w[1] \in Fixed => offset[w[1]] <= depth
  <2>1. depth >= frame /\ depth \in Nat /\ frame \in Nat BY Bounds DEF Types
  <2> QED BY <1>2, <2>1 DEF FixedLaid
<1>5. ~ jumps => offset[w[1]] <= depth BY DEF Follows
<1>6. w[1] \notin Fixed => w[2] = 0 BY <1>1 DEF Words
<1> QED BY <1>1, <1>2, <1>3, <1>4, <1>5, <1>6

LEMMA LoadInv == ASSUME IInv, Load PROVE IInv'
<1> USE DEF IInv
<1>1. /\ phase = "run" /\ ~ Done /\ Op(b, l) = "load" /\ b' = b /\ l' = l + 1 /\ Skip
      /\ b \in 1 .. NBlocks
      /\ UNCHANGED <<blocks, jumps, phase, sp_offset, offset, pushes, frame, depth, mem, stored>>
  BY CursorFacts DEF Load, Skip, Types, code
<1>2. Types' BY <1>1, Advance DEF Types
<1>3. Follows'
  <2> SUFFICES ASSUME ~ jumps, NEW c \in Nat, NEW m \in Nat, <<c, m>> \in pushes,
                      Before(c, m, b', l')
               PROVE  offset[At(c, m)] <= depth
    BY <1>1 DEF Follows, At, Before
  <2>1. Push(c, m) BY DEF Pushes
  <2>2. Before(c, m, b, l) BY <1>1, <2>1, Advance DEF Push
  <2> QED BY <1>1, <2>2 DEF Follows
<1>4. Stored' /\ FixedKept' /\ ReturnsHome' /\ TempsKept'
  BY <1>1 DEF Stored, FixedKept, ReturnsHome, TempsKept, Word, Words
<1>5. Apart' /\ FixedLaid' /\ Pushes' /\ Pushed1st' BY <1>1, LaidOut
<1> QED BY <1>2, <1>3, <1>4, <1>5

LEMMA CallInv == ASSUME IInv, Call PROVE IInv'
<1> USE DEF IInv
<1> DEFINE n == Line[2]
<1>1. /\ phase = "run" /\ ~ Done /\ Op(b, l) = "call" /\ b' = b /\ l' = l + 1 /\ Skip
      /\ b \in 1 .. NBlocks /\ depth' = depth + n /\ depth + n <= MaxDepth
      /\ mem' = [d \in 1 .. MaxDepth |->
                   IF d > depth THEN (IF d <= depth' THEN Word("arg") ELSE Word("junk")) ELSE mem[d]]
      /\ UNCHANGED <<blocks, jumps, phase, sp_offset, offset, pushes, frame, stored>>
  BY CursorFacts DEF Call, Lowered, Skip, Types, code
<1>2. n \in Nat BY <1>1, CursorFacts, LineFacts DEF Line
<1>3. /\ depth \in Nat /\ frame \in Nat /\ frame <= depth /\ depth <= depth' /\ depth' \in Nat
      /\ depth' <= MaxDepth /\ MaxDepth \in Nat /\ FRAMESIZE \in Nat /\ FRAMESIZE >= 2
      /\ depth <= MaxDepth
  BY <1>1, <1>2, Bounds DEF Types
<1>4. Types'
  <2>1. mem' = [d \in 1 .. MaxDepth |-> mem'[d]] BY <1>1
  <2>2. depth' \in frame .. MaxDepth BY <1>3
  <2>3. b' \in 1 .. NBlocks + 1 /\ l' \in Nat \ {0} BY <1>1 DEF Types
  <2> HIDE DEF n
  <2> QED BY <1>1, <1>3, <2>1, <2>2, <2>3 DEF Types
<1>5. \A d \in 1 .. MaxDepth : d <= depth => mem'[d] = mem[d] BY <1>1, <1>3
<1>6. Follows'
  <2> SUFFICES ASSUME ~ jumps
               PROVE  /\ \A c, m \in Nat : <<c, m>> \in pushes /\ Before(c, m, b', l')
                                           => offset[At(c, m)] <= depth'
                      /\ \A w \in stored : offset[w[1]] <= depth'
    BY <1>1 DEF Follows, At, Before
  <2>1. ASSUME NEW c \in Nat, NEW m \in Nat, <<c, m>> \in pushes, Before(c, m, b', l')
        PROVE  offset[At(c, m)] <= depth'
    <3>1. Push(c, m) BY <2>1 DEF Pushes
    <3>2. Before(c, m, b, l) BY <1>1, <2>1, <3>1, Advance DEF Push
    <3>3. offset[At(c, m)] \in Int BY <3>1, LineFacts DEF Push, Types
    <3>4. offset[At(c, m)] <= depth BY <1>1, <2>1, <3>2 DEF Follows
    <3> QED BY <1>3, <3>3, <3>4
  <2>2. ASSUME NEW w \in stored PROVE offset[w[1]] <= depth'
    <3>1. offset[w[1]] \in Nat /\ offset[w[1]] <= depth BY <1>1, <2>2, StoredPlace
    <3> QED BY <1>3, <3>1
  <2> QED BY <2>1, <2>2
<1>7. ASSUME NEW w \in stored, w[1] \in Fixed \/ ~ jumps
      PROVE  mem'[offset[w[1]] - w[2]] = mem[offset[w[1]] - w[2]]
  <2>1. /\ w[2] \in Nat /\ offset[w[1]] \in Nat /\ offset[w[1]] - w[2] > FRAMESIZE
        /\ offset[w[1]] <= depth
    BY <1>1, <1>7, StoredPlace
  <2> QED BY <1>3, <1>5, <2>1
<1>8. FixedKept' BY <1>1, <1>7 DEF FixedKept
<1>9. TempsKept'
  <2> SUFFICES ASSUME ~ jumps, NEW w \in stored, w[1] \notin Fixed
               PROVE  mem'[offset[w[1]]] = w
    BY <1>1 DEF TempsKept
  <2>1. w[2] = 0 /\ offset[w[1]] \in Nat BY <1>1, StoredPlace
  <2>2. mem[offset[w[1]]] = w BY <1>1 DEF TempsKept
  <2>3. mem'[offset[w[1]] - w[2]] = mem[offset[w[1]] - w[2]] BY <1>7
  <2> QED BY <2>1, <2>2, <2>3
<1>10. ReturnsHome'
  <2>1. FRAMESIZE <= frame BY <1>1 DEF FixedLaid
  <2>2. 2 <= depth BY <1>3, <2>1
  <2> QED BY <1>1, <1>3, <1>5, <2>2 DEF ReturnsHome, Word
<1>11. Stored' BY <1>1 DEF Stored, Words
<1>12. Apart' /\ FixedLaid' /\ Pushes' /\ Pushed1st' BY <1>1, LaidOut
<1> QED BY <1>4, <1>6, <1>8, <1>9, <1>10, <1>11, <1>12

(* A store finds a slot; in the order of the text, it is above $sp by then. *)
LEMMA StorePlace ==
  ASSUME IInv, phase = "run", ~ Done, Op(b, l) = "store", NEW e,
         e = depth + Pushed
  PROVE  /\ IsLine(b, l) /\ Here = At(b, l) /\ Here \in Operand
         /\ Line[3] \in 0 .. Words(Here) - 1 /\ offset[Here] \in Nat
         /\ e \in Nat /\ depth <= e
         /\ ~ jumps => \A c, m \in Nat :
               <<c, m>> \in pushes /\ (Before(c, m, b, l) \/ (c = b /\ m = l))
               => offset[At(c, m)] <= e
         /\ Here \in Fixed \/ ~ jumps => offset[Here] <= e
<1> USE DEF IInv
<1>1. b \in 1 .. NBlocks /\ depth \in Nat /\ frame \in Nat /\ frame <= depth
      /\ NBlocks \in Nat /\ b \in Nat /\ l \in Nat
  BY Bounds DEF Types
<1>2. IsLine(b, l) /\ Here = At(b, l) /\ Here \in Operand
      /\ Line[3] \in 0 .. Words(Here) - 1
  BY <1>1, CursorFacts, LineFacts DEF Line
<1>3. offset[Here] \in {-1} \cup Nat BY <1>2 DEF Types
<1>4. e \in Nat /\ depth <= e /\ (<<b, l>> \in pushes => e = depth + 1)
  BY <1>1 DEF Pushed
<1>5. ASSUME ~ jumps, NEW c \in Nat, NEW m \in Nat, <<c, m>> \in pushes,
             Before(c, m, b, l) \/ (c = b /\ m = l)
      PROVE  offset[At(c, m)] <= e
  <2>1. Push(c, m) BY <1>5 DEF Pushes
  <2>2. offset[At(c, m)] \in Int BY <2>1, LineFacts DEF Push, Types
  <2>3. CASE Before(c, m, b, l)
    <3>1. offset[At(c, m)] <= depth BY <1>5, <2>3 DEF Follows
    <3> QED BY <1>1, <1>4, <2>2, <3>1
  <2>4. CASE c = b /\ m = l
    <3>1. e = depth + 1 BY <1>4, <1>5, <2>4
    <3>2. CASE offset[At(c, m)] = frame + 1 BY <1>1, <3>1, <3>2
    <3>3. CASE \E d, n \in Nat : <<d, n>> \in pushes /\ Before(d, n, c, m)
                                /\ offset[At(d, n)] = offset[At(c, m)] - 1
      <4>1. PICK d, n \in Nat : <<d, n>> \in pushes /\ Before(d, n, c, m)
                                /\ offset[At(d, n)] = offset[At(c, m)] - 1
        BY <3>3
      <4>2. offset[At(d, n)] <= depth BY <1>5, <2>4, <4>1 DEF Follows
      <4> HIDE DEF IInv
      <4> QED BY <1>1, <2>2, <3>1, <4>1, <4>2
    <3> QED BY <2>1, <3>2, <3>3 DEF Push
  <2> QED BY <1>5, <2>3, <2>4
<1>6. CASE Here \in Fixed
  <2>1. offset[Here] >= 0 BY <1>1, <1>2, <1>6 DEF FixedLaid
  <2>2. offset[Here] <= frame BY <1>6 DEF FixedLaid
  <2> HIDE DEF IInv
  <2>3. offset[Here] \in Nat /\ offset[Here] <= e BY <1>1, <1>3, <1>4, <2>1, <2>2
  <2> QED BY <1>2, <1>4, <1>5, <2>3
<1>7. CASE Here \notin Fixed
  <2>1. PICK d, n \in Nat : <<d, n>> \in pushes /\ At(d, n) = Here /\ ~ Before(b, l, d, n)
    BY <1>1, <1>2, <1>7 DEF Pushed1st
  <2>2. Push(d, n) BY <2>1 DEF Pushes
  <2>3. offset[Here] > frame BY <2>1, <2>2 DEF Push
  <2>4. Before(d, n, b, l) \/ (d = b /\ n = l) BY <1>1, <2>1 DEF Before
  <2> HIDE DEF IInv
  <2>5. offset[Here] \in Nat BY <1>1, <1>3, <2>3
  <2>6. ~ jumps => offset[Here] <= e BY <1>5, <2>1, <2>4
  <2> QED BY <1>2, <1>4, <1>5, <1>7, <2>5, <2>6
<1> QED BY <1>6, <1>7

LEMMA StoreInv == ASSUME IInv, Store PROVE IInv'
<1> USE DEF IInv
<1> DEFINE k == Line[3]
           i == offset[Here] - k
<1>1. /\ phase = "run" /\ ~ Done /\ Op(b, l) = "store" /\ b' = b /\ l' = l + 1 /\ Skip
      /\ b \in 1 .. NBlocks /\ depth' = depth + Pushed /\ depth' <= MaxDepth
      /\ mem' = [mem EXCEPT ![i] = <<Here, k>>] /\ stored' = stored \cup {<<Here, k>>}
      /\ UNCHANGED <<blocks, jumps, phase, sp_offset, offset, pushes, frame>>
  BY CursorFacts DEF Store, Skip, Types, code
<1>2. /\ IsLine(b, l) /\ Here = At(b, l) /\ Here \in Operand
      /\ k \in 0 .. Words(Here) - 1 /\ offset[Here] \in Nat
      /\ depth' \in Nat /\ depth <= depth'
      /\ ~ jumps => \A c, m \in Nat :
            <<c, m>> \in pushes /\ (Before(c, m, b, l) \/ (c = b /\ m = l))
            => offset[At(c, m)] <= depth'
      /\ Here \in Fixed \/ ~ jumps => offset[Here] <= depth'
  BY <1>1, StorePlace
<1>3. /\ depth \in Nat /\ frame \in Nat /\ frame <= depth /\ MaxDepth \in Nat
      /\ FRAMESIZE \in Nat /\ FRAMESIZE >= 2 /\ Words(Here) \in Nat \ {0} /\ k \in Nat
  BY <1>1, <1>2, Bounds, WordsPos DEF Types
<1>4. i > FRAMESIZE /\ i \in Int BY <1>2, <1>3, SlotWord
<1>5. Here \in Fixed \/ ~ jumps => i \in 1 .. MaxDepth
  BY <1>1, <1>2, <1>3, <1>4
<1>6. mem = [d \in 1 .. MaxDepth |-> mem[d]] BY DEF Types
<1> HIDE DEF k, i
<1>7. /\ mem' = [d \in 1 .. MaxDepth |-> mem'[d]]
      /\ \A d \in 1 .. MaxDepth : d # i => mem'[d] = mem[d]
      /\ i \in 1 .. MaxDepth => mem'[i] = <<Here, k>>
  <2>1. mem' = [d \in 1 .. MaxDepth |-> IF d = i THEN <<Here, k>> ELSE mem[d]]
    BY <1>1, <1>6
  <2> HIDE DEF IInv
  <2> QED BY <2>1
<1>8. Types'
  <2>1. depth' \in frame .. MaxDepth BY <1>1, <1>2, <1>3
  <2>2. b' \in 1 .. NBlocks + 1 /\ l' \in Nat \ {0} BY <1>1 DEF Types
  <2> QED BY <1>1, <1>2, <1>7, <2>1, <2>2 DEF Types
<1>9. Stored' BY <1>1, <1>2 DEF Stored, Words
<1>10. Follows'
  <2> SUFFICES ASSUME ~ jumps
               PROVE  /\ \A c, m \in Nat : <<c, m>> \in pushes /\ Before(c, m, b', l')
                                           => offset[At(c, m)] <= depth'
                      /\ \A w \in stored' : offset[w[1]] <= depth'
    BY <1>1 DEF Follows, At, Before
  <2>1. ASSUME NEW c \in Nat, NEW m \in Nat, <<c, m>> \in pushes, Before(c, m, b', l')
        PROVE  offset[At(c, m)] <= depth'
    <3>1. Push(c, m) BY <2>1 DEF Pushes
    <3>2. Before(c, m, b, l) \/ (c = b /\ m = l) BY <1>1, <2>1, <3>1, Advance DEF Push
    <3> QED BY <1>2, <2>1, <3>2
  <2>2. ASSUME NEW w \in stored' PROVE offset[w[1]] <= depth'
    <3>1. CASE w \in stored
      <4>1. offset[w[1]] \in Nat /\ offset[w[1]] <= depth BY <1>1, <3>1, StoredPlace
      <4> QED BY <1>2, <1>3, <4>1
    <3>2. CASE w = <<Here, k>> BY <1>2, <3>2
    <3> QED BY <1>1, <2>2, <3>1, <3>2
  <2> QED BY <2>1, <2>2
<1>11. ASSUME NEW w \in stored, w # <<Here, k>>
       PROVE  /\ offset[w[1]] - w[2] # i
              /\ w[1] \in Fixed \/ ~ jumps => offset[w[1]] - w[2] \in 1 .. MaxDepth
  <2>1. /\ w = <<w[1], w[2]>> /\ w[1] \in Operand /\ w[2] \in 0 .. Words(w[1]) - 1
        /\ offset[w[1]] >= 0
    BY DEF Stored
  <2>2. offset[w[1]] - w[2] = offset[Here] - k => w[1] = Here /\ w[2] = k
    BY <1>2, <2>1, SlotWord
  <2>3. w[1] \in Fixed \/ ~ jumps => offset[w[1]] - w[2] \in 1 .. MaxDepth
    BY <1>1, <1>2, <1>3, StoredPlace
  <2> QED BY <1>11, <2>1, <2>2, <2>3 DEF i
<1>12. FixedKept'
  <2> SUFFICES ASSUME NEW w \in stored', w[1] \in Fixed
               PROVE  mem'[offset[w[1]] - w[2]] = w
    BY <1>1 DEF FixedKept
  <2>1. CASE w = <<Here, k>> BY <1>5, <1>7, <2>1 DEF i
  <2>2. CASE w # <<Here, k>>
    <3>1. w \in stored BY <1>1, <2>2
    <3> QED BY <1>1, <1>7, <1>11, <2>2, <3>1 DEF FixedKept
  <2> QED BY <2>1, <2>2
<1>13. TempsKept'
  <2> SUFFICES ASSUME ~ jumps, NEW w \in stored', w[1] \notin Fixed
               PROVE  mem'[offset[w[1]]] = w
    BY <1>1 DEF TempsKept
  <2>1. CASE w = <<Here, k>>
    <3>1. k = 0 /\ i = offset[w[1]] BY <1>2, <2>1 DEF Words, i
    <3> QED BY <1>5, <1>7, <2>1, <3>1
  <2>2. CASE w # <<Here, k>>
    <3>1. w \in stored BY <1>1, <2>2
    <3>2. w[2] = 0 /\ offset[w[1]] \in Nat BY <1>1, <3>1, StoredPlace
    <3>3. mem[offset[w[1]]] = w BY <1>1, <3>1 DEF TempsKept
    <3>4. offset[w[1]] # i /\ offset[w[1]] \in 1 .. MaxDepth BY <1>11, <2>2, <3>1, <3>2
    <3> QED BY <1>7, <3>3, <3>4
  <2> QED BY <2>1, <2>2
<1>14. ReturnsHome' BY <1>1, <1>3, <1>4, <1>7 DEF ReturnsHome, Word
<1>15. Apart' /\ FixedLaid' /\ Pushes' /\ Pushed1st' BY <1>1, LaidOut
<1> QED BY <1>8, <1>9, <1>10, <1>12, <1>13, <1>14, <1>15

LEMMA EndBlockInv == ASSUME IInv, EndBlock PROVE IInv'
<1> USE DEF IInv
<1>1. /\ phase = "run" /\ Done /\ b' \in 1 .. NBlocks /\ l' = 1 /\ b \in 1 .. NBlocks
      /\ ~ jumps => b' = b + 1
      /\ stored' = {w \in stored : w[1] \in Fixed}
      /\ UNCHANGED <<blocks, jumps, phase, sp_offset, offset, pushes, frame, depth, mem>>
  BY DEF EndBlock, Types, code
<1>2. Types' BY <1>1, Bounds DEF Types
<1>3. Follows'
  <2> SUFFICES ASSUME ~ jumps
               PROVE  /\ \A c, m \in Nat : <<c, m>> \in pushes /\ Before(c, m, b', l')
                                           => offset[At(c, m)] <= depth
                      /\ \A w \in stored' : offset[w[1]] <= depth
    BY <1>1 DEF Follows, At, Before
  <2>1. Skip BY <1>1 DEF Skip
  <2>2. ASSUME NEW c \in Nat, NEW m \in Nat, <<c, m>> \in pushes, Before(c, m, b', l')
        PROVE  offset[At(c, m)] <= depth
    <3>1. IsLine(c, m) BY <2>2 DEF Pushes, Push
    <3>2. Before(c, m, b, l) BY <1>1, <2>1, <2>2, <3>1, Advance
    <3> QED BY <1>1, <2>2, <3>2 DEF Follows
  <2> QED BY <1>1, <2>2 DEF Follows
<1>4. Stored' /\ FixedKept' /\ ReturnsHome' /\ TempsKept'
  BY <1>1 DEF Stored, FixedKept, ReturnsHome, TempsKept, Word, Words
<1>5. Apart' /\ FixedLaid' /\ Pushes' /\ Pushed1st' BY <1>1, LaidOut
<1> QED BY <1>2, <1>3, <1>4, <1>5

LEMMA ReturnInv == ASSUME IInv, Return PROVE IInv'
<1> USE DEF IInv
<1>1. /\ phase = "run" /\ phase' = "returned" /\ depth' = 0
      /\ UNCHANGED <<blocks, jumps, b, l, sp_offset, offset, pushes, frame, mem, stored>>
  BY DEF Return, code
<1>2. Types' BY <1>1 DEF Types
<1>3. Stored' /\ Follows' /\ FixedKept' /\ ReturnsHome' /\ TempsKept'
  BY <1>1 DEF Stored, Follows, FixedKept, ReturnsHome, TempsKept, Words
<1>4. Apart' /\ FixedLaid' /\ Pushes' /\ Pushed1st' BY <1>1, LaidOut
<1> QED BY <1>2, <1>3, <1>4

LEMMA StepInv == IInv /\ [Next]_vars => IInv'
<1> SUFFICES ASSUME IInv, [Next]_vars PROVE IInv' OBVIOUS
<1>1. CASE UNCHANGED vars
  <2> USE <1>1 DEF vars, IInv
  <2>1. Types' /\ Apart' /\ FixedLaid'
    BY DEF Types, Apart, FixedLaid, IsLine, Op, At, Before, Words
  <2>2. \A c, m : Push(c, m) => Push(c, m)' BY DEF Push, IsLine, Op, At, Before
  <2>3. Pushes' BY <2>2 DEF Pushes, At
  <2>4. Pushed1st' BY DEF Pushed1st, IsLine, Op, At, Before
  <2>5. Stored' /\ Follows' BY DEF Stored, Follows, At, Before, Words
  <2>6. FixedKept' /\ ReturnsHome' /\ TempsKept' BY DEF FixedKept, ReturnsHome, TempsKept, Word
  <2> QED BY <2>1, <2>3, <2>4, <2>5, <2>6
<1>2. CASE Next
  BY <1>2, PrologueInv, PrologueDoneInv, CompileInv, EnterInv, StoreInv, LoadInv,
     CallInv, EndBlockInv, ReturnInv
     DEF Next
<1> QED BY <1>1, <1>2

LEMMA Invariant == Spec => []IInv
BY InitInv, StepInv, PTL DEF Spec

-----------------------------------------------------------------------------
(* The cursors, the offsets, the frame and $sp keep their types and bounds. *)
THEOREM TypeCorrect == Spec => []TypeOK
<1>1. IInv => TypeOK BY DEF IInv, Types, TypeOK
<1> QED BY Invariant, <1>1, PTL

(* allocate_stack() and Save() never give two operands, of whatever sizes, *)
(* a common word, nor one of the saved registers'.                         *)
THEOREM SlotsDisjoint == Spec => []SlotsApart
<1>1. IInv => SlotsApart
  <2> SUFFICES ASSUME IInv, NEW x \in Operand
               PROVE  /\ Slot(x) \subseteq FRAMESIZE + 1 .. sp_offset
                      /\ \A y \in Operand \ {x} : Slot(x) \cap Slot(y) = {}
    BY DEF SlotsApart
  <2>1. \A z \in Operand : Words(z) \in Nat \ {0} /\ offset[z] \in {-1} \cup Nat
    BY WordsPos DEF IInv, Types
  <2>2. sp_offset \in Nat /\ FRAMESIZE \in Nat BY Bounds DEF IInv, Types
  <2>3. Slot(x) \subseteq FRAMESIZE + 1 .. sp_offset
    <3>1. offset[x] >= 0 => FRAMESIZE <= offset[x] - Words(x) /\ offset[x] <= sp_offset
      BY DEF IInv, Apart
    <3> QED BY <2>1, <2>2, <3>1 DEF Slot
  <2>4. ASSUME NEW y \in Operand \ {x} PROVE Slot(x) \cap Slot(y) = {}
    <3>1. offset[x] >= 0 /\ offset[y] >= 0 =>
            offset[x] <= offset[y] - Words(y) \/ offset[y] <= offset[x] - Words(x)
      BY DEF IInv, Apart
    <3> QED BY <2>1, <3>1 DEF Slot
  <2> QED BY <2>3, <2>4
<1> QED BY Invariant, <1>1, PTL

(* Variables, arrays and structures keep their values in the frame that    *)
(* prologue() lays out, whatever is called, pushed and jumped over.        *)
THEOREM FixedStay == Spec => []FixedKept
<1>1. IInv => FixedKept BY DEF IInv
<1> QED BY Invariant, <1>1, PTL

(* epilogue() always finds $ra and $fp where prologue() put them.          *)
THEOREM AlwaysReturnsHome == Spec => []ReturnsHome
<1>1. IInv => ReturnsHome BY DEF IInv
<1> QED BY Invariant, <1>1, PTL

(* As long as control follows the text, what Save() has pushed stays in    *)
(* its slot; with jumps, see SpAtTop.                                      *)
THEOREM TempsStay == Spec => []TempsKept
<1>1. IInv => TempsKept BY DEF IInv
<1> QED BY Invariant, <1>1, PTL

(* The jumps are what separates $sp from sp_offset: without them SpAtTop   *)
(* holds.                                                                  *)
THEOREM AtTopInTextOrder == Spec => [](~ jumps => SpAtTop)
<1>1. IInv => (~ jumps => SpAtTop) BY DEF IInv, Follows, SpAtTop
<1> QED BY Invariant, <1>1, PTL
=============================================================================
