# A verification model of the C-- compiler

The repository is a compiler from C-- (a small C: integers, arrays,
structures, functions) to MIPS assembly, in C, with a flex lexer and a bison
parser. It is sequential; what is hard in it are long-lived mutable structures
(a symbol table crossed by two families of lists, register descriptors, stack
offsets, linked intermediate code) that several passes share, and code
that must be right for every order in which the *compiled* program may run.

## Inventory

| Component | Source | State | Operations | What makes it correct |
|---|---|---|---|---|
| Driver | `main.c`, `debug.h` | `get_syn_error`, `is_semantic_error`, `CST` | run the passes in order | a pass runs only on what the earlier ones accepted |
| Lexer, parser | `lexical.l`, `syntax.y` | line and column, `error_lineno` | tokens, grammar actions, error recovery | one report per line; a tree only for what was accepted |
| Syntax tree | `multitree.c` | the tree | `trans_tree`, `insert_node` | children in order; missing optional children are dropped |
| Symbol table | `symbol.c`, `symbol.h` | `symbol_list`, `envs`, `hash_nxt`, `list_nxt`, `belong` | `symbol_add`, `hash_find`, `hash_delete`, `env_push`, `env_pop` | a lookup finds the innermost declaration; nothing freed is reachable |
| Types | `symbol.c` | `locked`, `func_locked` | `type_malloc`, `type_free`, `type_com`, `type_size` | each type is freed once, after its last use |
| Semantic analysis | `semantic.c` | the table, `is_semantic_error` | one function per production | every error is reported, none crashes |
| Translation | `translate.c` | the table, `temp_num`, `label_num`, the code lists | one function per production, `MergeCodes` | the intermediate code does what the program means |
| Blocks, next uses | `generate.c` | `nxt_code`, `cur_block`, `multi_block` | `JudgeMultiBlock`, `DividingBlock`, `scan_mark` | the passes agree on the blocks; next uses are exact |
| Register allocation | `generate.c` | `reg[]`, `reg_no`, `offset`, `func_status` | `allocate`, `ensure`, `Save`, `Free`, the printers | every printed instruction reads current values |
| Frames | `generate.c` | `sp_offset`, `offset` | `allocate_stack`, `prologue`, `Save`, `CALL`, `epilogue` | slots are disjoint and inside the frame |
| Code printer | `translate.c` 778-908 | none | `PrintInterCodes` | not called |

The passes run one after the other in one thread. `SddProgram` and
`TransProgram` are both clients of the symbol table, which the first must leave
empty for the second. `TransProgram` hands `DividingBlock` a doubly linked list
of instructions whose operands are shared records: `scan_mark` writes next uses
into them, `prologue` and `Save` stack offsets, `allocate` registers. So the
interactions are shared state, and the order of the passes over it.

There is no concurrency, no message, no timeout and nothing persistent. The
hazards (listed at their lines in `PROJECT.json`) are protocol sequences, stale
fields, boundaries (the last register, 40-character names, frames), and the gap
between the order in which code is *printed* and that in which it *runs*.

## Modules

| Module | Models | Proofs |
|---|---|---|
| `RegAlloc` | register allocator and instruction printers, one basic block at a time | `RegAllocProofs`, `RegAllocValues` |
| `NextUse` | `JudgeMultiBlock`, `DividingBlock`, `scan_mark`, the notes `PrintCodes` copies | `NextUseProofs` |
| `SymbolTable` | hash table crossed by environments | `SymbolTableProofs` |
| `ScopedTable` | abstract: a stack of scopes, implemented by `SymbolTable` | `SymbolTableRefines` |
| `Translate` | tree to intermediate code, as operators | |
| `Meaning` | reference: an evaluator of the trees | |
| `InterCode` | what instructions read, define and compute; the shape of a code | |
| `InterCodeRun` | the run of any code of that shape | `InterCodeRunProofs` |
| `TranslatedRun` | the run of what `Translate` makes of a program, against `Meaning` | |
| `Frame` | layout and run of one activation record | `FrameProofs` |
| `IRList` | `code_malloc`, `MergeCodes`, `TransLogic` on the pointers of the lists | `IRListProofs` |
| `Semantic` | semantic analysis, and who owns types | |

**IRList.** Nodes are addresses; `next`, `prev` and `tail` are functions of them,
and a ghost, `lists`, is the set of lists that somebody holds, as sequences. Any
caller may allocate a node or merge two lists at any time, which is what the
functions of `translate.c` do between them. `TransLogic` merges one list twice,
so its merges are steps of their own: after the second one `next` runs in a
circle and the `prev` of a label is the last node of its own list, and
only the third merge, of the label that ends the construct, opens the circle.
No walk happens in between. `Translate` rests on the result: for it a list is a
sequence and a merge a concatenation.

**Semantic.** The program is not given: a step is the next construct that the
pass meets (a definition, a header, the start or end of a body or a block, an
expression that is a statement, a condition or a return value), so a behaviour
is a program and a state what the pass has made of the text so far. Each `Sdd`
and `Check` function is an operator from the state of the pass to the next one;
the type that it returns goes to the field `syn`, as the code calls it. A type
is the tree it is; arrays and structures have an address as well, and the sets
`locked`, `func_locked` and `freed` say what happened to that. What C leaves
undefined stops the pass, with the reason in `fault`: `null`, `freed`, `no field`
(`field_find` found none, and its result is dereferenced) and `empty body`
(`CHILD(5)` of a structure without definitions). `CheckInt1` compares the
`basic` of types of every kind: of an array or a structure it reads half of a
pointer, which is taken not to be `TINT`.

`MC*` modules give constants their small values and symmetries; `NextUse` needs none.

**RegAlloc.** `g` is the generator's state: `reg`, `reg_no`, `nxt_code`,
`offset` (as the set of operands that have a slot), `st_lk`. Beside it the model
keeps what the printed code does when it runs: `holds[r]` is the operand whose
current value is in register `r`, `home` the operands whose current value is in
their slot. Every printer is an operator on that record, composed of `Allocate`,
`Ensure`, `Save` and `Free` in the order of the code; every action is one line of
intermediate code, except `CALL`, which is `Call`, one `PassArg` per argument and
`Jump`. The block is not given: each step picks an instruction and the next
mentions that `scan_mark` can have noted for its operands. Guards restrict the
blocks to those `TransExp` emits (a variable is only copied, a second operand was
computed by the line before, arguments directly precede their call); that the
translation emits no others is the property `BlocksAsAllocated` of the run
`translate`. That the next mentions which it picks are those that `scan_mark` notes
is the theorem `NotesKeepPromises` of `NextUseProofs`. An operand that has not
been mentioned yet in the block reads -1 in the model whatever the code noted:
only operands in registers are ever consulted. Between blocks control may go
anywhere, so `EnterBlock` assumes of the operands that blocks share just what
`HomesAtExit` and `HomesAtBranch` show each block leaves.

**NextUse.** The program is any sequence of instructions of the kinds the passes
tell apart. Each loop is an action, each iteration a step.

**SymbolTable.** Symbols and environments are addresses that `malloc` may hand
out again. `hash_find`, `symbol_add` and `env_pop` are walks, one step per
symbol. An identifier of 40 characters or more has a hash that may differ from
call to call, because `strncpy` leaves it unterminated and the hash reads on. The
clients call in any order.

**Translate, Meaning, InterCode, InterCodeRun, TranslatedRun.** `Translate` renders
each `Trans` function as an operator from a tree to a sequence of instructions;
temporaries and labels are named by their place in the tree instead of by counters.
`InterCode` says what an instruction is, and which shape a code has as a whole
(`Shaped`): a jump has its label and a call its function, ARGs stand in front of
the CALL and are as many as the PARAMs behind the FUNCDEF, only a GOTO or a RETURN
is the last line of a function, and a temporary is defined on every way to the lines
that read it. `InterCodeRun` executes any code of that shape, one instruction per step,
with one frame per call. `TranslatedRun` puts the two together and compares
the run with `Meaning`, which says what the program should write and return. `Meaning`
is the reference and follows C, with operands evaluated from left to right and a
value before the place it is assigned to, which is the order this compiler chose.

**Frame.** One function: its prologue lays out slots, compilation pushes more for
spilled temporaries in the order of the text, then the function runs in any order
of its blocks. Lengths are counted in words. `MaxDepth` is the bound on the stack: a
frame or a push that exceeds it is not taken.

## Runs

| Run | Shows | Bounds, and why they suffice |
|---|---|---|
| `regalloc_fits` | descriptors agree, blocks end empty, and the values the printed code works on are right, when no line needs more registers than there are below `$s7` | 4 registers in two groups, 7 operands, blocks of 6 lines: calls with arguments, stores, in-place updates and branches all fit in 6 lines, registers above and below `T9` are used, and a block uses each of them for several operands |
| `regalloc_no_slot` | finding 1 | 3 registers, 6 operands |
| `regalloc_call_s7` | finding 2 | 4 registers, 5 operands |
| `next_use` | blocks and next uses; the passes end | every program of up to 4 instructions over 2 operands: every pair of neighbouring kinds, blocks of 1 to 4 lines, shared operands |
| `symbol_table` | lists exact, innermost found, calls return, `ScopedTable` implemented | 3 names of which two collide, 3 symbols, 3 environments: shadowing, reuse of addresses, chains across scopes |
| `symbol_table_long` | finding 3 | one short and one long name that collide or not, 2 symbols |
| `translate` | translated programs mean the same and halt; their code has the shape that `InterCode` describes (`TypeOK`) | families that put every expression with and without effects into every position, up to three logical operators deep, calls in arguments, loops, nested blocks, arrays of structures of arrays |
| `frame` | slots are disjoint, variables and the return address survive calls; temporaries too when no block is skipped | 3 blocks of 4 shapes, 16 words |
| `frame_jumps` | finding 4 | the same |
| `ir_list` | lists are whole, in order and end; `prev` is right where it is followed | 6 nodes, symmetric: the circle of `TransLogic` around lists of up to 4 nodes, among other lists |
| `semantic` | balanced scopes, types freed once, reports exact, accepted calls stay right | three menus of constructs, and every program of up to 4 of them (statements not counted): `Ownership` has structures with and without tags, shared, nested, in fields, arrays, parameters and return types, redeclared; `Calls` headers that agree or not, wrong definitions and the NULL types they leave; `Expressions` every operator over operands of every type. Four constructs are what the longest chain to a freed type needs (below) |
| `semantic_tests` | findings 5 and 6 | one program: a structure and two arrays, as in the tests it quotes |

`regalloc_fits` holds under `Fits`, a condition on each line: the operands that are in
registers when it is printed, those it mentions, and the arguments of the call that it
may be about are no more than the registers below `$s7` (the code has 17). A block may
have any number of operands as long as its lines hand registers back. `allocate` takes
the lowest free register, so under `Fits` it evicts nothing, and never comes to
`$s7`; `regalloc_no_slot` and `regalloc_call_s7` show what goes wrong in larger blocks.
The condition cannot be relaxed: with one register more (`Cardinality(Demand) <= S7 +
1`) TLC finds `HomesAtBranch` violated. `FittingSpec` is the specification whose lines
fit. The theorems leave the number of registers open, so the small numbers of the runs
are no loss there. In the run nothing is evicted; that `TypeOK`, `DescriptorSound` and
`ExitsEmpty` hold also when registers are taken away is what their theorems say, which
are of `Spec`, without `Fits`. The run `symbol_table` has no identifier of 40 characters or more;
the theorems of `SymbolTableProofs` allow them in the table (what they say of lookups
and of duplicates is about the short names), and `symbol_table_long` has one.

### Findings

1. `generate.c:93` an operand of the line that is being printed may be evicted,
   and then be loaded from offset -1, against the assertion at line 119. (The
   model also has what line 94 does: `Free` writes back variables and
   operands shared by blocks, not the temporaries of this block.)
2. `generate.c:330` `$s7` is saved by nobody over a call (`report.md:25`).
3. `symbol.c:166` identifiers of 40 characters or more may not be found again.
4. `generate.c:55` after a skipped push, `$sp` is no longer the top of the stack
   (`report.md:24`), and a spilled temporary can be overwritten by a callee.
5. `semantic.c:478` a field that the structure lacks is not reported as error 14, as
   `zzm_test/test9.cmm:14` and `zzm_test/test2.cmm:26` want it: `field_find` returns
   NULL, which is dereferenced before the check that would report it.
6. `symbol.c:100` arrays of different sizes are the same type: `array_com` counts
   dimensions only. `zzm_test/test10.cmm:9` marks an assignment between such arrays as
   error 5.

`AnnotatedReported` says that of the statements of 5 and 6 at least one is reported. So
the one state that violates it shows both.

### What `semantic` shows of wrong and unusual programs

The properties of `Semantic` hold for all programs of the menus; some have an
exception in their statement, and each exception is needed: without it TLC finds
a program.

* `NoUseAfterFree` excepts the programs that share a type (`Shares`, `SharedBy`).
  Memory of a type is freed twice, or read after it was freed, when a structure
  without a tag has several declarators (`struct { int a; } x, y;`, or two fields
  of one structure); when a tag is defined among parameters and used there again
  (`int f(struct T { int a; } p, struct T q);`); when a header comes again with a
  new structure as return type (`semantic.c:177` frees it before the body is
  checked); and when it comes again with a structure younger than the function:
  `int f(struct T { int a; } p); struct U { int a; }; int f(struct U p);
  int g(struct U p);` ends with `g` clearing `func_locked` of `U`, the tag `U`
  being freed, and `f` freeing it again. The usual declaration and definition
  with a structure declared before both is not among them, and is safe.
* `NullAfterError`: a refused tag makes the type NULL, a refused header the
  symbol, a surplus argument the parameter list, and each is dereferenced
  later; but an error was reported before. So a correct program never runs
  into it. (`no field` and `empty body` come unreported.)
* `ChecksExact` excepts a statement that stops the analysis unreported, and says when
  that happens: it asks a structure for a field that it lacks (finding 5; `Lacks` says
  which statements do, from the text and the declarations), or the program shares a
  type, as above. Its reference, `Typing`, lets pass what the code lets pass: a call
  `f()` of a function that has parameters (`semantic.c:454` looks at the arguments
  only if there are any); an assignment on the left of another, `(a = b) = c`
  (`semantic.c:355`); arrays of the same dimensions and different sizes (`array_com`,
  finding 6) and structures whose fields have other names (`field_com`).
* `CallsStayRight` has `f()` as its exception, too.

What the pass accepts is not always translated. A call of a function that is
declared and comes to be defined only further down is accepted, but
`TransFunDec` declares nothing, so `hash_find` of `translate.c` returns NULL; and
`(a = b) = c` is dropped (`translate.c:632`), as is every assignment to a left side in
parentheses; `TransAssign` of the model drops it too. The family of programs of the run
`translate` has none of these.

Deadlock is not checked where the system stops by design: a block ends at its
bound, the passes and the programs end. `symbol_table` does check it.

### Fairness

`NextUse` and `TranslatedRun` have weak fairness on `Next`: the passes, and the
compiled program, run in one thread to their end. `SymbolTable` has it on the
steps of a call that has begun, not on the calls, which the clients may stop
making. `RegAlloc` and `Frame` state safety only.

## Proofs

TLAPS checks, for all values of the constants that satisfy the named assumptions:

* `RegAllocProofs`: `TypeOK`, `DescriptorSound` and `ExitsEmpty` for any number
  of operands and registers, whether lines fit or not. Type correctness
  is proved printer by printer: each maps states to states, because each is a
  composition of `Bind`, `Unbind`, `Save` and `Load`, which do. The three
  are inductive together, with `NextAhead`.
* `RegAllocValues`: as long as lines fit (`Spec /\ [][Fits]_vars`), all that the run
  `regalloc_fits` checks (`DescriptorExact`, `OperandsFresh`, `LoadsHaveHome`,
  `HomesAtExit`, `HomesAtBranch`, `ValuesKept`), and `CallKeepsValues`, which
  `regalloc_call_s7` refutes without `Fits`, for any number of operands and registers
  and blocks of any length. `FittingSpecFits` says that the run's specification is such
  a one, and `SmallBlocksFit` that a program whose blocks mention no more operands than
  there are registers below `$s7` is, which can be seen in the program itself. The
  printer of a line is followed with a set `T` that contains what the line needs
  (`Demand`): if all registers below `$s7` were occupied, `DescriptorSound` would make `reg`
  an injection of them into `T` without the operand that asks (`FreeBelow`), so that
  `allocate` evicts nothing and no value comes to `$s7`, which the loops of `CALL`,
  `CJP` and `RETURN` leave out. Behind the line `T` is forgotten; the next line has its
  own. The invariant `VInv` says what each phase may rely on:
  in a block, every operand that will be read is `Found` (its register holds its value,
  or its slot does) and can be reached (`Placed`); while arguments are passed, whatever
  is still in a register is not needed again, which is what makes it harmless that
  `Save` of an operand without a slot returns silently there; behind a branch, what
  other blocks read is at home. A printer is shown to give registers to its operands
  only and to keep all else found (`Keeps`), and so is each of the parts it is made of.
* `NextUseProofs`: `TypeOK`, `NextUseExact`, `CleanBetweenBlocks` and `MultiBlockExact` for
  programs of any length. The inductive invariant says, of the backward walk,
  that what is noted so far is the next read from the line the walk has reached;
  of the forward walk, that the notes of the lines still to be printed are. For
  `MultiBlockExact` a second invariant (`MInv`) relates the block numbers that
  `JudgeMultiBlock` gives out to the cuts between lines: two lines have one number if
  and only if no cut is between them, and `DividingBlock` stops at the same cuts.
  `NotesKeepPromises` turns `NextUseExact` into what `RegAlloc` assumes of the notes:
  the guards `Promised \subseteq uses`, `uses \subseteq Promised ...`, that an operand that
  is overwritten has no promise, that promises lie ahead, and that there are none
  behind the last line. `PassesEnd` is the part of `AllPrinted` that needs no fairness:
  `Left`, a natural number that begins at 6 `Len(code)` + 1, goes down with every step,
  and all lines are printed when it is 0.
* `SymbolTableProofs`: `TypeOK`, `ChainsExact`, `DeletesHead`, `FindsInnermost`,
  `NoDuplicates` and `NothingLeft` for any sets of names, buckets, symbols and
  environments. The inductive invariant adds to these that the ages `older` and
  `outer` order what is live (`Ordered`), that the symbols of an inner environment
  are younger than those of the ones around it (`Nested`), that short names hash
  as they are looked up (`ShortKeys`), and, for the walk of `hash_find`, that no
  symbol it has left behind has the name it looks for (`Loop`). `DeclarationsFound` is
  `DeclaredFound` for the short identifiers, whatever long ones there are beside them.
  `CallsEnd` is the part of `Returns` that needs no fairness: each step of a call
  returns or leaves fewer symbols to go, because the next of a chain is older and has
  fewer older ones; finiteness of the heap is an invariant of its own, `Sym` may be infinite.
* `SymbolTableRefines`: `Implements`, that is, `SymbolTable` with its pointers
  implements the stack of scopes of `ScopedTable`, if no identifier is long. The
  mapping is the one that TLC uses: an environment's place in the stack is one more than
  the number of environments around it, and a scope binds the names of the live
  symbols that belong to it. Beside `IInv` the proof needs that these depths
  run from 1 to the top (`Deep`); from both follows what the mapped stack looks like
  (`View`), so that a step is judged by what it does to the open environments and to
  what each binds (`Bound`). A lookup, declaration, push and the beginning of a pop map
  to the abstract actions; the walks down the chains and the frees of a pop map to
  stutters.
* `IRListProofs`: `TypeOK`, `Linked` and `PrevInBlocks` for any number of nodes.
  The inductive invariant adds that no node is in two places (`Apart`: a list does
  not meet itself or another), that lists hold allocated nodes only, and what is
  true between the merges of `TransLogic`: the list that begins with `code0` is in
  order, contains `code2`, both have its last node as tail, and its end is open or
  leads back to `code2` (`Circle`). `JoinGood` is the lemma that `MergeCodes` is
  concatenation, also when the first list has no end.
* `FrameProofs`: `TypeOK`, `SlotsApart`, `FixedKept`, `ReturnsHome` and `TempsKept`, for
  any number of blocks, lines and operands of any size; and that `SpAtTop`, which
  `frame_jumps` refutes, holds as long as control follows the text, so that the jumps
  alone are to blame. The assumptions are those of `Frame`: a function has a block, sizes
  are positive, and an index lies inside its array (`Lines`); a program that
  writes outside its arrays can overwrite anything. The inductive invariant says that
  the slots of the prologue fill the frame without overlap (`Apart`, `FixedLaid`), that
  every push lies below the frame, one word below the push before it in the text
  (`Pushes`), at the first store of its temporary (`Pushed1st`), and that the run, in
  text order, has passed exactly the pushes above its `$sp` (`Follows`).

* `InterCodeRunProofs`: `TypeOK` and `TempsDefined` for the run of any code that is
  `Shaped`, whatever program it was made from, with any recursion and any input. What
  is assumed of the code can be read off its text; what is proved is about the run:
  control and frames stay in the code, each call takes exactly the arguments that
  were queued for it, and what a line reads is in the frame of its own call, also
  when it was put there before a call that came in between, or before a
  label that control comes back to. The invariant says for a frame and the
  line where it stands (`Held`) that, for every line j and end m such that control
  comes to the lines behind j, up to m, from j only (`Closed`), a frame that
  stands among them has what j defines or declares; a frame that waits stands
  at its CALL; the arguments queued are as many as ARGs precede
  the line (`ArgsBefore`), and those a frame has left as many as PARAMs follow
  (`ParamsFrom`). `Shaped` demands that functions end with RETURN, which the
  semantic pass does not (a hazard, see `PROJECT.json`). That `Translate` keeps to
  `Shaped` is checked by TLC: the conjunct `AtStart => Shaped(code)` of `TypeOK`
  looks at the code of every program of the run `translate` before it begins.

Only model-checked:

* everything temporal with fairness (`AllPrinted`, `Returns`, `Halts`), which is out
  of the prover's reach; `PassesEnd`, `CallsEnd` and `ArgumentsTaken` prove the parts of
  them that are not about fairness, and what remains of `Halts` is about the loops
  of the compiled program;
* what `TransProgram` makes of a tree (`MeansTheSame`, `BlocksAsAllocated`, and that
  its code is `Shaped`), and the five invariants of `Semantic`: both passes are
  recursive over trees and types of any depth, and a module with RECURSIVE operators
  is closed to the prover. What does not depend on the recursion is in
  `InterCodeRun`, apart from it.

The runs that expect a violation refute what they check without `Fits` (findings
1 and 2), with long names (3) and with jumps (4); each of these conditions is what
the corresponding theorem assumes away. Findings 5 and 6 are about `Semantic`, where
nothing is proved.

## Not modelled

* Lexer and parser: generated automata. With them the error recovery, and so the
  driver: `main.c:28` translates whenever there was no *semantic* error, also
  when a syntax error kept the semantic pass from running, on whatever tree the
  parser left.
* The printer of intermediate code, which is not called; the text of the assembly.
* The construction of syntax trees (`multitree.c`); the models start from trees.
* `hash_pjw`: bit arithmetic over characters. The table's models leave a name's
  bucket abstract. (Its result can be `0x3fff`, the size of the table.)
* In the translation: floats (`TransFloat` yields no code), global variables, the
  assignment of whole arrays and structures, `read()` as a statement, parentheses
  around arrays (`translate.c:499`).
* In the semantic pass: line numbers and texts of reports; memory that is lost.

## Plan

All modules of the first plan are written except the driver, for the reason
above. What would come next: global variables and several functions in `Frame`
(an operand keeps the offset that the first function gave it,
`generate.c:126`), and whole-array assignment in `Translate` and `Meaning`.
