------------------------------ MODULE Semantic ------------------------------
(***************************************************************************)
(* Semantic analysis, Code/semantic.c, on the symbol table and the types   *)
(* of Code/symbol.c.  The program is not given: each step is the next      *)
(* construct that the analysis meets, so a behaviour is a program, and a   *)
(* state what the analysis has made of its text so far: the environments,  *)
(* the types on the heap with their locks, and whether an error was        *)
(* reported.  A step is the whole Sdd function of the construct.           *)
(*                                                                         *)
(* A type is the tree it is; arrays and structures carry their address.    *)
(* The fields of a structure are in the order of its list: the last one    *)
(* declared comes first.  `fault' is where the program stops being         *)
(* defined: a NULL is dereferenced, freed memory read, written or freed.   *)
(***************************************************************************)
EXTENDS Integers, Sequences, SequencesExt

CONSTANTS
    Menus      \* sets of constructs that programs are made of: see Menu

(* A menu: definitions of variables at file level and in functions, headers *)
(* of functions, statements, those that ChecksExact asks about, and how     *)
(* many constructs make a program.                                          *)
(*   specifier   [is : "type", type], [is : "ref", tag], [is : "def", tag, defs] *)
(*   definition  [spec, decs], with decs a sequence of [name, dims, init],   *)
(*               and dims the sizes of an array                              *)
(*   header      [spec, name, params], params a sequence of [spec, dec]      *)
(*   statement   <<"exp", e>>, <<"return", e>>, <<"if", e>>                  *)
VARIABLES
    menu,      \* what this program is made of
    st,        \* the state of the analysis
    phase,     \* "global", "body", "done"
    ret,       \* the type that returns of this body are compared with
    defs,      \* definitions may still come in this block
    left,      \* bound: constructs left
    shared     \* ghost: the program has shared a type, see Shares

vars == <<menu, st, phase, ret, defs, left, shared>>

-----------------------------------------------------------------------------
(* Types.                                                                  *)

NULL       == [kind |-> "NULL"]
INT        == [kind |-> "BASIC", basic |-> "TINT"]
FLOAT      == [kind |-> "BASIC", basic |-> "TFLOAT"]
Error_Type == [kind |-> "BASIC", basic |-> "NONE"]
ArrayOf(i, n, t) == [kind |-> "ARRAY", id |-> i, size |-> n, elem |-> t]
Structure(i, fs) == [kind |-> "STRUCTURE", id |-> i, fields |-> fs]

NoTag  == "no tag"
NoInit == <<"none">>

Id(t) == IF t.kind \in {"ARRAY", "STRUCTURE"} THEN {t.id} ELSE {}
TypesOf(fields) == [i \in DOMAIN fields |-> fields[i].type]

Report(s)   == [s EXCEPT !.error = TRUE]
Return(s, t) == [s EXCEPT !.syn = t]
Fail(s)     == Return(Report(s), Error_Type)
Fault(s, why) == [s EXCEPT !.fault = why]
Stopped(s)  == s.fault # "none"

(* What comes of reading the record of a type. *)
Touch(s, t) ==
    IF t = NULL THEN "null" ELSE IF Id(t) \cap s.freed # {} THEN "freed" ELSE "none"
Live(s, t) == Touch(s, t) = "none"

(* type_free() and field_free(), the tail of a list first; a mutant of the *)
(* locks: those of functions are ignored.                                  *)
LockedByTag(s, t) == t.kind = "BASIC" \/ t.id \in s.locked
Locked(s, t) == t.kind = "BASIC" \/ t.id \in s.locked \cup s.func_locked

RECURSIVE type_free(_, _), field_free(_, _)
type_free(s, t) ==
    IF Stopped(s) THEN s
    ELSE IF ~Live(s, t) THEN Fault(s, Touch(s, t))
    ELSE IF Locked(s, t) THEN s
    ELSE LET inner == IF t.kind = "ARRAY" THEN type_free(s, t.elem)
                      ELSE field_free(s, TypesOf(t.fields))
         IN  [inner EXCEPT !.freed = @ \cup {t.id}]
field_free(s, types) == FoldRight(LAMBDA t, acc : type_free(acc, t), types, s)

fun_unlock(s, types) ==
    IF Stopped(s) THEN s
    ELSE IF \E i \in DOMAIN types : ~Live(s, types[i]) THEN Fault(s, "freed")
    ELSE [s EXCEPT !.func_locked = @ \ UNION {Id(types[i]) : i \in DOMAIN types}]

(* type_com(), array_com() and field_com(): "same", "differ", or the fault *)
(* they run into.  Neither sizes nor names of fields are compared.         *)
RECURSIVE Elem(_), Dims(_)
Elem(t) == IF t.kind = "ARRAY" THEN Elem(t.elem) ELSE t
Dims(t) == IF t.kind = "ARRAY" THEN 1 + Dims(t.elem) ELSE 0

(* One list of fields has come to its end; a mutant lets the other go on. *)
EndsEither(dst, src) == "same"
Ends(dst, src)       == IF dst = src THEN "same" ELSE "differ"

RECURSIVE type_com(_, _, _), field_com(_, _, _)
type_com(s, dst, src) ==
    CASE Error_Type \in {dst, src}  -> "same"
      [] ~Live(s, dst) \/ ~Live(s, src) ->
            IF Live(s, dst) THEN Touch(s, src) ELSE Touch(s, dst)
      [] OTHER ->
            CASE dst.kind # src.kind      -> "differ"
              [] dst.kind = "BASIC"     -> IF dst = src THEN "same" ELSE "differ"
              [] dst.kind = "STRUCTURE" -> field_com(s, TypesOf(dst.fields), TypesOf(src.fields))
              [] dst.kind = "ARRAY"     ->
                    CASE NULL \in {Elem(dst), Elem(src)} -> "null"
                      [] Dims(dst) # Dims(src)           -> "differ"
                      [] OTHER -> type_com(s, Elem(dst), Elem(src))
field_com(s, dst, src) ==
    IF <<>> \in {dst, src} THEN Ends(dst, src)
    ELSE LET first == type_com(s, Head(dst), Head(src))
         IN  IF first = "same" THEN field_com(s, Tail(dst), Tail(src)) ELSE first

(* A comparison, and what is done when the types differ. *)
Compared(s, result, differ) ==
    CASE result = "same"   -> s
      [] result = "differ" -> differ
      [] OTHER             -> Fault(s, result)

-----------------------------------------------------------------------------
(* Environments: innermost first, the newest symbol first in each.         *)

NoSymbol == [kind |-> "NONE"]
Symbol(n, k, t) == [name |-> n, kind |-> k, type |-> t, parameter |-> <<>>, defined |-> FALSE]

hash_find(s, n) ==
    LET found == SelectSeq(FlattenSeq(s.envs), LAMBDA y : y.name = n)
    IN  IF found = <<>> THEN NoSymbol ELSE Head(found)

Taken(s, n) == \E i \in DOMAIN s.envs[1] : s.envs[1][i].name = n
Addable(s, n, t) == t \notin {NULL, Error_Type} /\ ~Taken(s, n)

symbol_add(s, n, k, t) ==
    CASE Addable(s, n, t) -> [s EXCEPT !.envs[1] = <<Symbol(n, k, t)>> \o @]
      [] t \in {NULL, Error_Type} -> s
      [] OTHER -> Report(s)

symbol_free(s, y) ==
    CASE y.kind = "VARIABLE"   -> type_free(s, y.type)
      [] y.kind = "STRUCT_TAG" -> type_free([s EXCEPT !.locked = @ \ Id(y.type)], y.type)
      [] y.kind = "FUNCTION"   ->
            LET s1 == type_free(fun_unlock(s, <<y.type>>), y.type)
            IN  field_free(fun_unlock(s1, y.parameter), y.parameter)

env_push(s) == [s EXCEPT !.envs = <<<<>>>> \o @]
env_pop(s) ==
    IF Stopped(s) THEN s
    ELSE [FoldLeft(symbol_free, s, s.envs[1]) EXCEPT !.envs = Tail(@)]

-----------------------------------------------------------------------------
(* Expressions.  The type goes to syn.                                     *)

(* u.basic is read of any type.  Where it is a pointer, NULL reads as TINT. *)
ReadsTINT(t) == t = INT \/ (t.kind = "ARRAY" /\ t.elem = NULL)

CheckInt1(s, t) ==
    CASE Stopped(s)     -> s
      [] t = Error_Type -> Return(s, Error_Type)
      [] ~Live(s, t)    -> Fault(s, Touch(s, t))
      [] ReadsTINT(t)   -> Return(s, INT)
      [] OTHER          -> Fail(s)

CheckInt2(s, t1, t2) ==
    LET s1 == CheckInt1(s, t1)
    IN  IF Stopped(s1) \/ s1.syn = Error_Type THEN s1 ELSE CheckInt1(s1, t2)

(* Mutant of CheckArithm2: the kinds of equal types are not looked at. *)
CheckArithm2Types(s, t1, t2) ==
    IF Stopped(s) THEN s
    ELSE Compared(Return(s, t1), type_com(s, t1, t2), Fail(s))

CheckArithm2(s, t1, t2) ==
    IF Stopped(s) THEN s
    ELSE LET result == type_com(s, t1, t2)
         IN  Compared(CASE result # "same" -> s
                        [] ~Live(s, t1)      -> Fault(s, Touch(s, t1))
                        [] t1.kind # "BASIC" -> Fail(s)
                        [] Error_Type \in {t1, t2} -> Return(s, Error_Type)
                        [] OTHER -> Return(s, t1),
                      result, Fail(s))

CheckArithm1(s, t) ==
    CASE Stopped(s)  -> s
      [] ~Live(s, t) -> Fault(s, Touch(s, t))
      [] t.kind # "BASIC" -> Fail(s)
      [] OTHER -> Return(s, t)

CheckAssign(s, t1, t2) ==
    CASE Stopped(s) -> s
      [] Error_Type \in {t1, t2} -> Return(s, Error_Type)
      [] OTHER -> Compared(Return(s, t1), type_com(s, t1, t2), Fail(s))

SddId(s, n) ==
    LET y == hash_find(s, n)
    IN  IF y.kind \in {"NONE", "FUNCTION", "STRUCT_TAG"} THEN Fail(s) ELSE Return(s, y.type)

RECURSIVE SddExp(_, _, _), SddArgs(_, _, _)

(* The argument list goes on through tail even where there is none. *)
SddArgs(s, args, params) ==
    LET s1 == SddExp(s, Head(args), FALSE)
        s2 == CASE Stopped(s1)     -> s1
                [] params = <<>> -> Fault(Report(s1), "null")
                [] OTHER -> Compared(s1, type_com(s1, Head(params), s1.syn), Report(s1))
    IN  CASE Stopped(s2)          -> s2
          [] Len(args) > 1      -> SddArgs(s2, Tail(args), Tail(params))
          [] Tail(params) # <<>> -> Report(s2)
          [] OTHER              -> s2

SddExpFun(s, f, args) ==
    LET y == hash_find(s, f)
        s1 == IF args = <<>> THEN s ELSE SddArgs(s, args, y.parameter)
        made == [name |-> f, args |-> [i \in DOMAIN args |-> SddExp(s, args[i], FALSE).syn]]
    IN  CASE y.kind # "FUNCTION" -> Fail(s)
          [] Stopped(s1) -> s1
          [] OTHER -> [Return(s1, y.type) EXCEPT !.call = IF s1.error THEN @ ELSE made]

SddExpArray(s, a, e, isLeft) ==
    LET s1 == SddExp(s, a, isLeft)
        s2 == SddExp(s1, e, FALSE)
    IN  CASE Stopped(s1)               -> s1
          [] ~Live(s1, s1.syn)         -> Fault(s1, Touch(s1, s1.syn))
          [] s1.syn.kind # "ARRAY"     -> Fail(s1)
          [] Stopped(s2)               -> s2
          [] ~Live(s2, s2.syn)         -> Fault(s2, Touch(s2, s2.syn))
          [] s2.syn # INT              -> Fail(s2)
          [] OTHER                     -> Return(s2, s1.syn.elem)

field_find(n, fields) == SelectSeq(fields, LAMBDA f : f.name = n)

SddExpStruct(s, e, n, isLeft) ==
    LET s1 == SddExp(s, e, isLeft)
        found == field_find(n, s1.syn.fields)
    IN  CASE Stopped(s1)               -> s1
          [] ~Live(s1, s1.syn)         -> Fault(s1, Touch(s1, s1.syn))
          [] s1.syn.kind # "STRUCTURE" -> Fail(s1)
          [] found = <<>>              -> Fault(s1, "no field")
          [] Head(found).type = NULL   -> Fail(s1)
          [] OTHER                     -> Return(s1, Head(found).type)

(* What may stand on the left of an assignment, by its production. *)
Assignable == {"assign", "paren", "index", "dot", "id"}

SddExp(s, e, isLeft) ==
    LET s1 == SddExp(s, e[2], e[1] = "assign")
        s2 == SddExp(s1, e[3], FALSE)
    IN  CASE Stopped(s) -> s
          [] isLeft /\ e[1] \notin Assignable -> Fail(s)
          [] e[1] = "assign" -> CheckAssign(s2, s1.syn, s2.syn)
          [] e[1] \in {"and", "or"} -> CheckInt2(s2, s1.syn, s2.syn)
          [] e[1] = "rel"    -> LET s3 == CheckArithm2(s2, s1.syn, s2.syn)
                                IN  IF Stopped(s3) THEN s3 ELSE Return(s3, INT)
          [] e[1] = "arith"  -> CheckArithm2(s2, s1.syn, s2.syn)
          [] e[1] = "paren"  -> SddExp(s, e[2], isLeft)
          [] e[1] = "minus"  -> CheckArithm1(s1, s1.syn)
          [] e[1] = "not"    -> CheckInt1(s1, s1.syn)
          [] e[1] = "call"   -> SddExpFun(s, e[2], e[3])
          [] e[1] = "index"  -> SddExpArray(s, e[2], e[3], isLeft)
          [] e[1] = "dot"    -> SddExpStruct(s, e[2], e[3], isLeft)
          [] e[1] = "id"     -> SddId(s, e[2])
          [] e[1] = "int"    -> Return(s, INT)
          [] e[1] = "float"  -> Return(s, FLOAT)

(* An expression where a type is expected. *)
Expect(s, type) ==
    IF Stopped(s) THEN s ELSE Compared(s, type_com(s, type, s.syn), Report(s))

SddReturn(s, e, type) == Expect(SddExp(s, e, FALSE), type)

(* SddStmt(), but for blocks and the statements within this one. *)
SddStmt(s, stmt, type) ==
    LET s1 == SddExp(s, stmt[2], FALSE)
    IN  CASE stmt[1] = "exp"    -> s1
          [] stmt[1] = "return" -> SddReturn(s, stmt[2], type)
          [] stmt[1] = "if"     -> CheckInt1(s1, s1.syn)

-----------------------------------------------------------------------------
(* Definitions.  inside: they are the body of a structure.                 *)

RECURSIVE SddVarDec(_, _, _, _)
SddVarDec(s, dec, inh, inside) ==
    CASE Stopped(s) -> s
      [] dec.dims # <<>> ->
            SddVarDec([s EXCEPT !.next = @ + 1], [dec EXCEPT !.dims = Front(@)],
                      ArrayOf(s.next, Last(dec.dims), inh), inside)
      [] ~inside -> symbol_add(s, dec.name, "VARIABLE", inh)
      [] field_find(dec.name, s.structure) # <<>> -> Report(s)
      [] OTHER -> [s EXCEPT !.structure = <<[name |-> dec.name, type |-> inh]>> \o @]

(* No initial value in a structure; one of an array is compared as if it   *)
(* were for an element.                                                    *)
SddDec(s, dec, inh, inside) ==
    IF dec.init # NoInit /\ ~inside
    THEN Expect(SddExp(SddVarDec(s, dec, inh, FALSE), dec.init, FALSE), inh)
    ELSE SddVarDec(IF dec.init # NoInit THEN Report(s) ELSE s, dec, inh, inside)

SddDecList(s, decs, inside) ==
    FoldLeft(LAMBDA acc, dec : IF Stopped(acc) THEN acc ELSE SddDec(acc, dec, s.syn, inside),
             s, decs)

RECURSIVE SddSpecifier(_, _)
SddDef(s, def, inside) == SddDecList(SddSpecifier(s, def.spec), def.decs, inside)

(* The tag of a structure is in use; and a mutant that does not report it. *)
DuplicateSilent(s, t) == Return(type_free(s, t), NULL)
Duplicate(s, t)       == Return(type_free(Report(s), t), NULL)

(* SddStructSpecifier(): the structure is new, then its tag.  An empty body *)
(* is taken for another production, and its missing children are read.     *)
Begin(s, tag) ==
    [s EXCEPT !.next = @ + 1, !.structure = <<>>,
              !.locked = IF tag = NoTag THEN @ ELSE @ \cup {s.next}]
Tagged(s, t, tag) ==
    CASE tag = NoTag   -> Return(s, t)
      [] Taken(s, tag) -> Duplicate(s, t)
      [] OTHER         -> Return(symbol_add(s, tag, "STRUCT_TAG", t), t)
End(s, outer, tag) ==
    IF Stopped(s) THEN s
    ELSE Tagged([s EXCEPT !.structure = outer.structure], Structure(outer.next, s.structure), tag)
SddStructSpecifier(s, tag, body) ==
    IF body = <<>> THEN Fault(s, "empty body")
    ELSE End(FoldLeft(LAMBDA acc, def : SddDef(acc, def, TRUE), Begin(s, tag), body), s, tag)

SddSpecifier(s, spec) ==
    CASE Stopped(s) -> s
      [] spec.is = "type" -> Return(s, spec.type)
      [] spec.is = "def"  -> SddStructSpecifier(s, spec.tag, spec.defs)
      [] spec.is = "ref"  ->
            LET y == hash_find(s, spec.tag)
            IN  IF y.kind = "STRUCT_TAG" THEN Return(s, y.type) ELSE Fail(s)

-----------------------------------------------------------------------------
(* Functions.                                                              *)

SddParamDec(s, p) == SddDecList(SddSpecifier(s, p.spec), <<p.dec>>, FALSE)

Parameters(s) == TypesOf(Reverse(SelectSeq(s.envs[1], LAMBDA y : y.kind = "VARIABLE")))

(* SddFunVar_(): the parameters in an environment of their own; their      *)
(* types, and those of tags among them, are locked.                        *)
LockAll(s) ==
    IF Stopped(s) THEN s
    ELSE [s EXCEPT !.func_locked =
             @ \cup UNION {Id(s.envs[1][i].type) : i \in DOMAIN s.envs[1]}]
SddFunVar_(s, params) == LockAll(FoldLeft(SddParamDec, env_push(s), params))

(* Functions are in the outermost environment. *)
Named(env, f) == CHOOSE i \in DOMAIN env : env[i].name = f
SetParameter(s, f, field) ==
    [s EXCEPT !.envs[Len(s.envs)][Named(s.envs[Len(s.envs)], f)].parameter = field]
SetDefined(s, f) ==
    [s EXCEPT !.envs[Len(s.envs)][Named(s.envs[Len(s.envs)], f)].defined = TRUE]

(* The header is in conflict with an earlier one: its parameters go, with  *)
(* their environment, which a mutant leaves.                               *)
ConflictNoPop(s, field) == field_free(fun_unlock(Report(s), field), field)
Conflict(s, field)      == field_free(fun_unlock(env_pop(Report(s)), field), field)

(* SddFun_(), with syn # NULL where it returns the function y.             *)
Replace(s, y, field) ==
    Return(SetParameter(field_free(fun_unlock(s, y.parameter), y.parameter), y.name, field), y.type)
Agree(s, y) ==
    LET field  == Parameters(s)
        result == field_com(s, y.parameter, field)
    IN  CASE Stopped(s)         -> s
          [] result = "same"   -> Replace(s, y, field)
          [] result = "differ" -> Return(Conflict(s, field), NULL)
          [] OTHER             -> Fault(s, result)

Declare(s, f, inh) == IF Stopped(s) THEN s ELSE Return(SetParameter(s, f, Parameters(s)), inh)

SddFun_(s, h, inh) ==
    LET y == hash_find(s, h.name)
        result == type_com(s, y.type, inh)
    IN  CASE y # NoSymbol /\ result = "same" -> Agree(SddFunVar_(type_free(s, inh), h.params), y)
          [] y # NoSymbol /\ result # "same" -> Return(Compared(s, result, Report(s)), NULL)
          [] inh \in {NULL, Error_Type}      -> Fault(s, "null")
          [] OTHER ->
                Declare(SddFunVar_([symbol_add(s, h.name, "FUNCTION", inh) EXCEPT
                                       !.func_locked = @ \cup Id(inh)], h.params), h.name, inh)

Added(s) == ~Stopped(s) /\ s.syn # NULL

SddFunDec(s, h) ==
    LET y == hash_find(s, h.name)
        Leave(s1) == IF Added(s1) THEN env_pop(s1) ELSE s1
    IN  CASE Stopped(s) -> s
          [] y.kind \notin {"NONE", "FUNCTION"} -> Report(s)
          [] OTHER -> Leave(SddFun_(s, h, s.syn))

(* SddFunDef() up to the body, which is analysed if syn # NULL.            *)
SddFunDef(s, h) ==
    LET y == hash_find(s, h.name)
        Enter(s1) == IF Added(s1) THEN SetDefined(s1, h.name) ELSE s1
    IN  CASE Stopped(s) -> s
          [] y # NoSymbol /\ (y.kind # "FUNCTION" \/ y.defined) -> Return(Report(s), NULL)
          [] OTHER -> Enter(SddFun_(s, h, s.syn))

CheckFun(s) ==
    IF \E i \in DOMAIN s.envs[1] : s.envs[1][i].kind = "FUNCTION" /\ ~s.envs[1][i].defined
    THEN Report(s) ELSE s

-----------------------------------------------------------------------------
(* Where a program shares a type that nothing protects (ghost): structures *)
(* without a tag, of several declarators; a tag defined among parameters   *)
(* and used there again; and a header that comes again with a new          *)
(* structure, or with one younger than the function.                       *)

New(spec) == spec.is = "def"
Anonymous(spec) == New(spec) /\ spec.tag = NoTag

RECURSIVE SharedBy(_)
SharedBy(def) ==
    \/ Anonymous(def.spec) /\ Len(def.decs) > 1
    \/ New(def.spec) /\ \E i \in DOMAIN def.spec.defs : SharedBy(def.spec.defs[i])

AmongParams(params) ==
    \/ \E i \in DOMAIN params : SharedBy([spec |-> params[i].spec, decs |-> <<params[i].dec>>])
    \/ \E i, j \in DOMAIN params :
          /\ i < j /\ New(params[i].spec) /\ params[j].spec.is = "ref"
          /\ params[i].spec.tag = params[j].spec.tag

Younger(s, n, f) ==
    \E i, j \in DOMAIN s.envs[1] :
        i < j /\ s.envs[1][i].name = n /\ s.envs[1][j].name = f

Again(s, h) ==
    /\ hash_find(s, h.name).kind = "FUNCTION"
    /\ \/ Anonymous(h.spec)
       \/ \E i \in DOMAIN h.params :
             h.params[i].spec.is = "ref" /\ Younger(s, h.params[i].spec.tag, h.name)

Shares(s, h) ==
    AmongParams(h.params) \/ Again(s, h) \/ SharedBy([spec |-> h.spec, decs |-> <<>>])

-----------------------------------------------------------------------------
(* The constructs of a program.                                            *)

Run(s) == st' = IF Stopped(s) THEN [s EXCEPT !.syn = NULL, !.structure = <<>>]
                ELSE Return(s, NULL)
Going == phase # "done" /\ ~Stopped(st)
Construct == left > 0 /\ left' = left - 1 /\ UNCHANGED menu

(* ExtDef with an ExtDecList, or with a specifier alone. *)
ExtVariables(def) ==
    /\ Going /\ phase = "global" /\ Construct
    /\ Run(SddDef(st, def, FALSE))
    /\ shared' = (shared \/ SharedBy(def))
    /\ UNCHANGED <<phase, ret, defs>>

FunDec(h) ==
    /\ Going /\ phase = "global" /\ Construct
    /\ Run(SddFunDec(SddSpecifier(st, h.spec), h))
    /\ shared' = (shared \/ Shares(st, h))
    /\ UNCHANGED <<phase, ret, defs>>

(* The body that follows is analysed, or left out. *)
Body(s, inh) ==
    /\ Run(s)
    /\ phase' = IF Added(s) THEN "body" ELSE "global"
    /\ ret' = IF Added(s) THEN inh ELSE NULL
    /\ defs' = Added(s)
FunDefFrom(s, h) == Body(SddFunDef(s, h), s.syn)

FunDef(h) ==
    /\ Going /\ phase = "global" /\ Construct
    /\ FunDefFrom(SddSpecifier(st, h.spec), h)
    /\ shared' = (shared \/ Shares(st, h))

LocalDef(def) ==
    /\ Going /\ phase = "body" /\ defs /\ Construct
    /\ Run(SddDef(st, def, FALSE))
    /\ shared' = (shared \/ SharedBy(def))
    /\ UNCHANGED <<phase, ret, defs>>

Statement(stmt) ==
    /\ Going /\ phase = "body"
    /\ Run(SddStmt(st, stmt, ret))
    /\ defs' = FALSE
    /\ UNCHANGED <<menu, phase, ret, left, shared>>

(* SddCompSt() of a block within a body. *)
OpenBlock ==
    /\ Going /\ phase = "body" /\ Construct
    /\ Run(env_push(st)) /\ defs' = TRUE
    /\ UNCHANGED <<phase, ret, shared>>

CloseBlock ==
    /\ Going /\ phase = "body" /\ Len(st.envs) > 2
    /\ Run(env_pop(st)) /\ defs' = FALSE
    /\ UNCHANGED <<menu, phase, ret, left, shared>>

EndBody ==
    /\ Going /\ phase = "body" /\ Len(st.envs) = 2
    /\ Run(env_pop(st))
    /\ phase' = "global" /\ ret' = NULL /\ defs' = FALSE
    /\ UNCHANGED <<menu, left, shared>>

(* The end of SddProgram(). *)
Finish ==
    /\ Going /\ phase = "global"
    /\ Run(env_pop(CheckFun(st)))
    /\ phase' = "done"
    /\ UNCHANGED <<menu, ret, defs, left, shared>>

(* env_init(): read() and write(). *)
Builtin(n, params) == [Symbol(n, "FUNCTION", INT) EXCEPT !.parameter = params, !.defined = TRUE]

Init ==
    /\ menu \in Menus
    /\ st = [envs |-> <<<<Builtin("write", <<INT>>), Builtin("read", <<>>)>>>>,
             next |-> 1, locked |-> {}, func_locked |-> {}, freed |-> {},
             error |-> FALSE, fault |-> "none", syn |-> NULL, structure |-> <<>>,
             call |-> [name |-> "none", args |-> <<>>]]
    /\ phase = "global" /\ ret = NULL /\ defs = FALSE
    /\ left = menu.length /\ shared = FALSE

Next ==
    \/ \E def \in menu.globals : ExtVariables(def)
    \/ \E h \in menu.headers : FunDec(h) \/ FunDef(h)
    \/ \E def \in menu.locals : LocalDef(def)
    \/ \E stmt \in menu.statements : Statement(stmt)
    \/ OpenBlock \/ CloseBlock \/ EndBody \/ Finish

Spec == Init /\ [][Next]_vars

-----------------------------------------------------------------------------
(* Properties.                                                             *)

(* Whatever was reported on the way, each construct leaves as many         *)
(* environments as it found.                                               *)
TypeOK ==
    /\ phase \in {"global", "body", "done"}
    /\ ~Stopped(st) =>
        CASE phase = "global" -> Len(st.envs) = 1
          [] phase = "body"   -> Len(st.envs) > 1
          [] phase = "done"   -> st.envs = <<>>
    /\ st.locked \cup st.func_locked \cup st.freed \subseteq 1 .. st.next - 1
    /\ st.fault \in {"none", "null", "freed", "no field", "empty body"}
    /\ st.structure = <<>> /\ st.syn = NULL
    /\ ret.kind \in {"NULL", "BASIC", "STRUCTURE"}

(* Memory of a type is not used again once freed, except by the programs   *)
(* that share a type.                                                      *)
NoUseAfterFree == st.fault = "freed" => shared

(* A NULL type comes of an error that was reported, so a program without   *)
(* one never makes the analysis dereference it.                            *)
NullAfterError == st.fault = "null" => st.error

(* Reference: the types that an expression can have, none if it is ill     *)
(* typed.  As in the code, sizes of arrays do not matter, and two things   *)
(* are let pass: arguments that a call f() leaves out, and an assignment   *)
(* on the left of another.                                                 *)
RECURSIVE Shape(_)
Shape(t) ==
    CASE t.kind = "ARRAY"     -> <<"array", Shape(t.elem)>>
      [] t.kind = "STRUCTURE" -> <<"struct", [i \in DOMAIN t.fields |-> Shape(t.fields[i].type)]>>
      [] OTHER                -> <<t.basic>>
Same(t, u) == Shape(t) = Shape(u)

RECURSIVE Place(_)
Place(e) == e[1] = "id" \/ (e[1] \in Assignable /\ Place(e[2]))

RECURSIVE Typing(_)
Fits(args, params) ==
    /\ Len(args) = Len(params)
    /\ \A i \in DOMAIN args : \E t \in Typing(args[i]) : Same(t, params[i])
Typing(e) ==
    LET IsInt(x) == INT \in Typing(x)
        Number(t) == t.kind = "BASIC"
        y == hash_find(st, e[2])
    IN  CASE e[1] = "int"    -> {INT}
          [] e[1] = "float"  -> {FLOAT}
          [] e[1] = "id"     -> IF y.kind = "VARIABLE" THEN {y.type} ELSE {}
          [] e[1] = "paren"  -> Typing(e[2])
          [] e[1] = "minus"  -> {t \in Typing(e[2]) : Number(t)}
          [] e[1] = "not"    -> {t \in {INT} : IsInt(e[2])}
          [] e[1] \in {"and", "or"} -> {t \in {INT} : IsInt(e[2]) /\ IsInt(e[3])}
          [] e[1] = "arith"  -> {t \in Typing(e[2]) : Number(t) /\ t \in Typing(e[3])}
          [] e[1] = "rel"    -> {t \in {INT} : \E u \in Typing(e[2]) : Number(u) /\ u \in Typing(e[3])}
          [] e[1] = "assign" -> {t \in Typing(e[2]) : Place(e[2]) /\ \E u \in Typing(e[3]) : Same(t, u)}
          [] e[1] = "index"  -> {t.elem : t \in {u \in Typing(e[2]) : u.kind = "ARRAY" /\ IsInt(e[3])}}
          [] e[1] = "dot"    ->
                UNION {{f.type : f \in {t.fields[i] : i \in {j \in DOMAIN t.fields : t.fields[j].name = e[3]}}} :
                       t \in {u \in Typing(e[2]) : u.kind = "STRUCTURE"}}
          [] e[1] = "call"   ->
                IF y.kind = "FUNCTION" /\ (e[3] = <<>> \/ Fits(e[3], y.parameter)) THEN {y.type} ELSE {}

WellTyped(stmt) ==
    \E t \in Typing(stmt[2]) :
        CASE stmt[1] = "exp"    -> TRUE
          [] stmt[1] = "if"     -> t = INT
          [] stmt[1] = "return" -> Same(t, ret)

Operands(e) ==
    CASE e[1] \in {"id", "int", "float"} -> {}
      [] e[1] = "call" -> Range(e[3])
      [] e[1] = "dot"  -> {e[2]}
      [] OTHER         -> Range(Tail(e))

(* Somewhere a structure is asked for a field that it lacks. *)
RECURSIVE Lacks(_)
Lacks(e) ==
    \/ e[1] = "dot" /\ \E t \in Typing(e[2]) :
                          t.kind = "STRUCTURE" /\ field_find(e[3], t.fields) = <<>>
    \/ \E x \in Operands(e) : Lacks(x)

(* In a program without an error so far, a statement is reported if, and   *)
(* only if, it is ill typed, unless it stops the analysis.  Unreported it  *)
(* stops it for two reasons only: it asks a structure for a field that it  *)
(* lacks, which line 478 dereferences before line 480 would report it; or  *)
(* the program shares a type and freed memory is read.                     *)
ChecksExact ==
    phase = "body" /\ ~st.error /\ ~Stopped(st) =>
        \A stmt \in menu.asked :
            LET s == SddStmt(st, stmt, ret)
            IN  CASE s.fault = "no field" -> Lacks(stmt[2])
                  [] s.fault = "freed"    -> shared
                  [] OTHER                -> s.error <=> ~WellTyped(stmt)

(* The tests mark a field that the structure lacks as error 14 (test9.cmm  *)
(* line 14) and an assignment between arrays of different sizes as error 5 *)
(* (test10.cmm line 9).  Asked for both, the analysis reports at least one *)
(* of them.  We expect this to be violated: it reports neither.            *)
AnnotatedReported ==
    phase = "body" /\ ~st.error /\ ~Stopped(st) =>
        \E stmt \in menu.asked : SddStmt(st, stmt, ret).error

(* A call that was accepted stays right: the headers that come after it    *)
(* ask for the same types, and if none is reported at the end, the         *)
(* function called is defined.  (The call f() is never compared.)          *)
CallsStayRight ==
    LET y == hash_find(st, st.call.name)
    IN  ~st.error /\ ~Stopped(st) /\ phase # "done" /\ st.call.name # "none" =>
            /\ y.kind = "FUNCTION"
            /\ st.call.args # <<>> =>
                  /\ Len(st.call.args) = Len(y.parameter)
                  /\ \A i \in DOMAIN st.call.args : Same(st.call.args[i], y.parameter[i])
            /\ phase = "global" /\ ~CheckFun(st).error => y.defined
=============================================================================
