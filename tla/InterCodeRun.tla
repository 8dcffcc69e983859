---------------------------- MODULE InterCodeRun ----------------------------
(***************************************************************************)
(* The run of intermediate code, instruction by instruction, as            *)
(* Code/generate.c prints it: one frame per call, operands where the       *)
(* register allocator has put them (module RegAlloc).                      *)
(***************************************************************************)
EXTENDS InterCode

VARIABLES
    prog,        \* the program that the code was made from
    code,
    pc,          \* the next instruction; 0 when main has returned
    frames,      \* of the calls that run, the innermost last
    arg_list,    \* last ARG first
    mem, brk,    \* arrays and structures: words by address, and the next one
    in, out, ret

vars == <<prog, code, pc, frames, arg_list, mem, brk, in, out, ret>>

Top == frames[Len(frames)]
Now == code[pc]

(* What operand x holds: a variable that was never written holds anything. *)
Value(x) == IF x[1] = "c" THEN x[2] ELSE At(Top.env, x)

Writes(x, v) == frames' = [frames EXCEPT ![Len(frames)].env = Put(@, x, v)]
Goes(i)      == pc' = i /\ UNCHANGED <<prog, code>>
Straight     == Goes(pc + 1)
Executes(K)  == pc # 0 /\ Now.op \in K

Target(l) == CHOOSE i \in DOMAIN code : code[i].op = "LABEL" /\ code[i].label = l
Entry(f)  == CHOOSE i \in DOMAIN code : code[i].op = "FUNCDEF" /\ code[i].name = f

Assign ==
    /\ Executes({"NORMAL", "GET_ADDRESS", "RIGHT"})
    /\ Writes(Now.x, CASE Now.op = "NORMAL"      -> Value(Now.y)
                       [] Now.op = "GET_ADDRESS" -> Top.slot[Now.y]
                       [] Now.op = "RIGHT"       -> At(mem, Value(Now.y)))
    /\ Straight /\ UNCHANGED <<arg_list, mem, brk, in, out, ret>>

Store ==
    /\ Executes({"LEFT"})
    /\ mem' = Put(mem, Value(Now.x), Value(Now.y))
    /\ Straight /\ UNCHANGED <<frames, arg_list, brk, in, out, ret>>

Arith ==
    /\ Executes({"ADD", "SUB", "MUL", "DIVI"})
    /\ Writes(Now.x, Calculate(Now.op, Value(Now.y), Value(Now.z)))
    /\ Straight /\ UNCHANGED <<arg_list, mem, brk, in, out, ret>>

Branch ==
    /\ Executes({"CJP"})
    /\ Goes(IF Compare(Now.relop, Value(Now.y), Value(Now.z))
             THEN Target(Now.label) ELSE pc + 1)
    /\ UNCHANGED <<frames, arg_list, mem, brk, in, out, ret>>

Goto ==
    /\ Executes({"GOTO"})
    /\ Goes(Target(Now.label))
    /\ UNCHANGED <<frames, arg_list, mem, brk, in, out, ret>>

Pass ==
    /\ Executes({"LABEL", "FUNCDEF"})
    /\ Straight /\ UNCHANGED <<frames, arg_list, mem, brk, in, out, ret>>

(* prologue() gives every array and structure its place in the frame.      *)
Dec ==
    /\ Executes({"DEC"})
    /\ IF Now.x \in DOMAIN Top.slot THEN UNCHANGED <<frames, brk>>
       ELSE /\ frames' = [frames EXCEPT ![Len(frames)].slot = Put(@, Now.x, brk)]
            /\ brk' = brk + Now.size
    /\ Straight /\ UNCHANGED <<arg_list, mem, in, out, ret>>

Arg ==
    /\ Executes({"ARG"})
    /\ arg_list' = <<Value(Now.x)>> \o arg_list
    /\ Straight /\ UNCHANGED <<frames, mem, brk, in, out, ret>>

Frame(args, back, dst) ==
    [env |-> <<>>, slot |-> <<>>, params |-> args, back |-> back, dst |-> dst, base |-> brk]

(* Mutant of Call: the arguments stay in the queue. *)
CallKeepsArgs ==
    /\ Executes({"CALL"})
    /\ frames' = Append(frames, Frame(arg_list, pc + 1, Now.x))
    /\ Goes(Entry(Now.name)) /\ UNCHANGED <<arg_list, mem, brk, in, out, ret>>

Call ==
    /\ Executes({"CALL"})
    /\ frames' = Append(frames, Frame(arg_list, pc + 1, Now.x))
    /\ arg_list' = <<>>
    /\ Goes(Entry(Now.name)) /\ UNCHANGED <<mem, brk, in, out, ret>>

Param ==
    /\ Executes({"PARAM"}) 
    /\ frames' = [frames EXCEPT ![Len(frames)].env = Put(@, Now.x, Head(Top.params)),
                                ![Len(frames)].params = Tail(@)]
    /\ Straight /\ UNCHANGED <<arg_list, mem, brk, in, out, ret>>

Return ==
    /\ Executes({"RETURN"})
    /\ brk' = Top.base
    /\ IF Len(frames) = 1
       THEN /\ Goes(0) /\ ret' = Value(Now.x) /\ frames' = <<>>
       ELSE /\ Goes(Top.back) /\ UNCHANGED ret
            /\ frames' = [SubSeq(frames, 1, Len(frames) - 1)
                             EXCEPT ![Len(frames) - 1].env = Put(@, Top.dst, Value(Now.x))]
    /\ UNCHANGED <<arg_list, mem, in, out>>

Read ==
    /\ Executes({"READ"}) /\ in # <<>>
    /\ Writes(Now.x, Head(in)) /\ in' = Tail(in)
    /\ Straight /\ UNCHANGED <<arg_list, mem, brk, out, ret>>

Write ==
    /\ Executes({"WRITE"})
    /\ out' = Append(out, Value(Now.x))
    /\ Straight /\ UNCHANGED <<frames, arg_list, mem, brk, in, ret>>

(* main is about to be called. *)
Start ==
    /\ pc = Entry("main")
    /\ frames = <<[env |-> <<>>, slot |-> <<>>, params |-> <<>>,
                   back |-> 0, dst |-> NULL, base |-> 0]>>
    /\ arg_list = <<>> /\ mem = <<>> /\ brk = 0
    /\ in = Input /\ out = <<>> /\ ret = NULL

Init == Shaped(code) /\ Start

Next ==
    \/ Assign \/ Store \/ Arith \/ Branch \/ Goto \/ Pass \/ Dec
    \/ Arg \/ Call \/ Param \/ Return \/ Read \/ Write

Spec == Init /\ [][Next]_vars

-----------------------------------------------------------------------------
(* Properties.                                                             *)

(* The program has not begun. *)
AtStart == pc # 0 /\ Len(frames) = 1 /\ Now.op = "FUNCDEF"

(* A call takes as many arguments as it was passed: none is missing when a *)
(* PARAM asks for it, none is left when the body begins, and none of one   *)
(* call is still queued when another instruction runs.                     *)
ArgumentsArrive ==
    pc # 0 => /\ Now.op = "PARAM" => Top.params # <<>>
              /\ Now.op \notin {"PARAM", "FUNCDEF"} => Top.params = <<>>
              /\ Now.op \notin {"ARG", "CALL"} => arg_list = <<>>

(* The code is as InterCode has it; the run stays inside the code and its  *)
(* frames, and hands the arguments over.                                   *)
TypeOK ==
    /\ AtStart => Shaped(code)
    /\ pc \in 0 .. Len(code)
    /\ (pc = 0) = (frames = <<>>)
    /\ \A i \in DOMAIN frames : frames[i].back \in 0 .. Len(code)
    /\ brk \in Nat
    /\ ArgumentsArrive

(* No path of control, through calls, branches and loops, reads a          *)
(* temporary that this call has not written, or takes the address of an    *)
(* array or structure that it has not placed.                              *)
TempsDefined ==
    pc # 0 => /\ Temps(Reads(Now)) \subseteq DOMAIN Top.env
              /\ Now.op = "GET_ADDRESS" => Now.y \in DOMAIN Top.slot

(* The blocks have the shape that RegAlloc takes for granted.  The second  *)
(* operand of an instruction, and the address of a store, is what the      *)
(* instruction before it computed; a variable is only ever copied; a       *)
(* temporary that is passed, compared, returned or written is read nowhere *)
(* else; within a block, a temporary is only redefined in place.           *)
Separates(k) == code[k].op \in {"LABEL", "GOTO", "FUNCDEF"} \/ code[k - 1].op = "CJP"
BlocksAsAllocated ==
    AtStart => \A i \in DOMAIN code :
        LET c == code[i]
        IN  /\ c.op \in Arithmetic \cup {"CJP"} =>
                 Temps({c.z}) \subseteq Defines(code[i - 1]) \/ code[i - 1].op = "LABEL"
            /\ c.op = "LEFT" => c.x \in Defines(code[i - 1])
            /\ Vars(Reads(c)) # {} => c.op = "NORMAL" /\ Vars({c.x}) = {}
            /\ c.op \in {"ARG", "CJP", "RETURN", "WRITE"} =>
                 \A j \in DOMAIN code \ {i} : Temps(Reads(c) \cap Reads(code[j])) = {}
            /\ \A j \in 1 .. i - 1 :
                 Temps((Defines(c) \ Reads(c)) \cap Operands(code[j])) # {}
                 => \E k \in j + 1 .. i : Separates(k)
=============================================================================
