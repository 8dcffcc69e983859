---------------------------- MODULE SymbolTable ----------------------------
(***************************************************************************)
(* The symbol table of Code/symbol.c: a hash table of symbols, chained by  *)
(* hash_nxt, crossed by the list of open environments, each of which       *)
(* chains its own symbols by list_nxt.  Semantic analysis and translation  *)
(* are its clients: env_push(), env_pop(), symbol_add() and hash_find() in *)
(* any order in which envs is not NULL when they need it.                  *)
(*                                                                         *)
(* Symbols and environments are addresses, which malloc() may hand out     *)
(* again after free().  The loops of hash_find() and env_pop() take one    *)
(* step per symbol.                                                        *)
(***************************************************************************)
EXTENDS Naturals, FiniteSets

CONSTANTS
    Name,     \* identifiers; one of 40 characters or more stands for its first 40
    Long,     \* those of 40 characters or more
    Bucket,   \* indices of symbol_list
    Hash,     \* hash_pjw() of a short name
    Sym,      \* addresses of symbols; bound: symbols that are live at once
    Env,      \* addresses of environments; bound: environments open at once
    NULL

ASSUME Names   == Long \subseteq Name /\ Hash \in [Name -> Bucket]
ASSUME NotNull == NULL \notin Sym \cup Env

VARIABLES
    symbol_list,                             \* heads of the hash chains
    name, key, hash_nxt, list_nxt, belong,   \* fields of the symbols; key is
                                             \* hash_pjw() of the field name
    envs,                                    \* innermost environment
    env_sym, env_nxt,                        \* fields of the environments
    pc, want, cur,      \* the call that runs, its argument and its cursor
    ret,                \* what the last symbol_add() or hash_find() returned
    live, open,         \* ghosts: what malloc() has handed out
    older, outer        \* ghosts: what was live, or open, before this was

heap  == <<symbol_list, name, key, hash_nxt, list_nxt, belong, live, older>>
stack == <<envs, env_sym, env_nxt, open, outer>>
call  == <<pc, want, cur, ret>>
vars  == <<heap, stack, call>>

-----------------------------------------------------------------------------
(* A lookup hashes the whole identifier, hash_insert() and hash_delete()   *)
(* hash the field name, which strncpy() leaves without a terminator when   *)
(* the identifier has 40 characters or more: what follows it in the symbol *)
(* is hashed too.                                                          *)
HashOf(n) == IF n \in Long THEN Bucket ELSE {Hash[n]}

(* hash_find(), called on its own or by symbol_add(). *)
Call(p, n) ==
    /\ pc = "idle"
    /\ \E b \in HashOf(n) : cur' = symbol_list[b]
    /\ pc' = p /\ want' = n
    /\ UNCHANGED <<heap, stack, ret>>

hash_find(n)  == Call("find", n)
symbol_add(n) == envs # NULL /\ live # Sym /\ Call("add", n)

(* The loop of hash_find(). *)
Done == cur # NULL => name[cur] = want

(* Mutant of Follow: belong, a void pointer, is taken for the next symbol. *)
FollowBelong ==
    /\ pc \in {"find", "add"} /\ ~ Done
    /\ cur' = belong[cur]
    /\ UNCHANGED <<heap, stack, pc, want, ret>>

Follow ==
    /\ pc \in {"find", "add"} /\ ~ Done
    /\ cur' = hash_nxt[cur]
    /\ UNCHANGED <<heap, stack, pc, want, ret>>

Return(r) ==
    pc' = "idle" /\ want' = NULL /\ cur' = NULL /\ ret' = r

Found ==
    /\ pc = "find" /\ Done
    /\ Return(cur) /\ UNCHANGED <<heap, stack>>

(* symbol_add(): redefined in the same environment, 150-164. *)
Redefined ==
    /\ pc = "add" /\ Done
    /\ cur # NULL /\ belong[cur] = envs
    /\ Return(NULL) /\ UNCHANGED <<heap, stack>>

(* Mutant of Insert: the new symbol goes to the end of its hash chain. *)
InsertLast ==
    /\ pc = "add" /\ Done
    /\ cur # NULL => belong[cur] # envs
    /\ \E s \in Sym \ live, b \in HashOf(want) :
        /\ name'        = [name EXCEPT ![s] = want]
        /\ key'         = [key EXCEPT ![s] = b]
        /\ list_nxt'    = [list_nxt EXCEPT ![s] = env_sym[envs]]
        /\ env_sym'     = [env_sym EXCEPT ![envs] = s]
        /\ belong'      = [belong EXCEPT ![s] = envs]
        /\ hash_nxt'    = [t \in Sym |->
                              IF t \in live /\ key[t] = b /\ hash_nxt[t] = NULL
                              THEN s ELSE hash_nxt[t]]
        /\ symbol_list' = [symbol_list EXCEPT ![b] = IF @ = NULL THEN s ELSE @]
        /\ live'        = live \cup {s}
        /\ older'       = [older EXCEPT ![s] = live]
        /\ Return(s)
    /\ UNCHANGED <<envs, env_nxt, open, outer>>

(* env_insert_sym() and hash_insert(): the new symbol becomes the head of  *)
(* both of its lists.                                                      *)
Insert ==
    /\ pc = "add" /\ Done
    /\ cur # NULL => belong[cur] # envs
    /\ \E s \in Sym \ live, b \in HashOf(want) :
        /\ name'        = [name EXCEPT ![s] = want]
        /\ key'         = [key EXCEPT ![s] = b]
        /\ list_nxt'    = [list_nxt EXCEPT ![s] = env_sym[envs]]
        /\ env_sym'     = [env_sym EXCEPT ![envs] = s]
        /\ belong'      = [belong EXCEPT ![s] = envs]
        /\ hash_nxt'    = [hash_nxt EXCEPT ![s] = symbol_list[b]]
        /\ symbol_list' = [symbol_list EXCEPT ![b] = s]
        /\ live'        = live \cup {s}
        /\ older'       = [older EXCEPT ![s] = live]
        /\ Return(s)
    /\ UNCHANGED <<envs, env_nxt, open, outer>>

env_push ==
    /\ pc = "idle"
    /\ \E e \in Env \ open :
        /\ env_sym' = [env_sym EXCEPT ![e] = NULL]
        /\ env_nxt' = [env_nxt EXCEPT ![e] = envs]
        /\ envs'    = e
        /\ open'    = open \cup {e}
        /\ outer'   = [outer EXCEPT ![e] = open]
    /\ UNCHANGED <<heap, call>>

(* Mutant of hash_delete: the freed symbol stays in its chain. *)
hash_deleteNothing(s) == [head |-> symbol_list, nxt |-> hash_nxt]

(* hash_delete(): from the head of the chain, or from behind the symbol    *)
(* that the walk down the chain finds before it.                           *)
hash_delete(s) ==
    IF symbol_list[key[s]] = s
    THEN [head |-> [symbol_list EXCEPT ![key[s]] = hash_nxt[s]],
          nxt  |-> hash_nxt]
    ELSE [head |-> symbol_list,
          nxt  |-> [t \in Sym |->
                        IF t \in live /\ key[t] = key[s] /\ hash_nxt[t] = s
                        THEN hash_nxt[s] ELSE hash_nxt[t]]]

env_pop ==
    /\ pc = "idle" /\ envs # NULL
    /\ pc' = "pop" /\ UNCHANGED <<heap, stack, want, cur, ret>>

(* The loop of env_pop(): the youngest symbol of the environment leaves    *)
(* both lists and is freed.  NULL stands for what freed memory holds.      *)
PopSymbol ==
    /\ pc = "pop" /\ env_sym[envs] # NULL
    /\ LET s == env_sym[envs]
       IN  /\ env_sym' = [env_sym EXCEPT ![envs] = list_nxt[s]]
           /\ symbol_list' = hash_delete(s).head
           /\ hash_nxt' = [hash_delete(s).nxt EXCEPT ![s] = NULL]
           /\ live' = live \ {s}
           /\ name' = [name EXCEPT ![s] = NULL]
           /\ key' = [key EXCEPT ![s] = NULL]
           /\ list_nxt' = [list_nxt EXCEPT ![s] = NULL]
           /\ belong' = [belong EXCEPT ![s] = NULL]
           /\ older' = [older EXCEPT ![s] = {}]
    /\ UNCHANGED <<envs, env_nxt, open, outer, call>>

(* Mutant of PopEnv: the environment is freed while it has symbols. *)
PopEnvEarly ==
    /\ pc = "pop"
    /\ envs' = env_nxt[envs] /\ open' = open \ {envs}
    /\ env_nxt' = [env_nxt EXCEPT ![envs] = NULL]
    /\ outer' = [outer EXCEPT ![envs] = {}]
    /\ Return(ret) /\ UNCHANGED <<heap, env_sym>>

(* Its end: the environment itself is freed. *)
PopEnv ==
    /\ pc = "pop" /\ env_sym[envs] = NULL
    /\ envs' = env_nxt[envs] /\ open' = open \ {envs}
    /\ env_nxt' = [env_nxt EXCEPT ![envs] = NULL]
    /\ outer' = [outer EXCEPT ![envs] = {}]
    /\ Return(ret) /\ UNCHANGED <<heap, env_sym>>

Init ==
    /\ symbol_list = [b \in Bucket |-> NULL]
    /\ name = [s \in Sym |-> NULL] /\ key = [s \in Sym |-> NULL]
    /\ hash_nxt = [s \in Sym |-> NULL] /\ list_nxt = [s \in Sym |-> NULL]
    /\ belong = [s \in Sym |-> NULL]
    /\ envs = NULL
    /\ env_sym = [e \in Env |-> NULL] /\ env_nxt = [e \in Env |-> NULL]
    /\ pc = "idle" /\ want = NULL /\ cur = NULL /\ ret = NULL
    /\ live = {} /\ open = {}
    /\ older = [s \in Sym |-> {}] /\ outer = [e \in Env |-> {}]

(* What a call does once it has begun. *)
Step == Follow \/ Found \/ Redefined \/ Insert \/ PopSymbol \/ PopEnv

Next ==
    \/ \E n \in Name : hash_find(n) \/ symbol_add(n)
    \/ env_push \/ env_pop
    \/ Step

(* One thread runs each call to its end; its clients promise nothing. *)
Spec == Init /\ [][Next]_vars /\ WF_vars(Step)

-----------------------------------------------------------------------------
(* Properties.                                                             *)

TypeOK ==
    /\ symbol_list \in [Bucket -> Sym \cup {NULL}]
    /\ name \in [Sym -> Name \cup {NULL}]
    /\ key \in [Sym -> Bucket \cup {NULL}]
    /\ hash_nxt \in [Sym -> Sym \cup {NULL}]
    /\ list_nxt \in [Sym -> Sym \cup {NULL}]
    /\ belong \in [Sym -> Env \cup {NULL}]
    /\ envs \in Env \cup {NULL}
    /\ env_sym \in [Env -> Sym \cup {NULL}]
    /\ env_nxt \in [Env -> Env \cup {NULL}]
    /\ pc \in {"idle", "find", "add", "pop"}
    /\ want \in Name \cup {NULL}
    /\ cur \in Sym \cup {NULL} /\ ret \in Sym \cup {NULL}
    /\ live \subseteq Sym /\ open \subseteq Env
    /\ older \in [Sym -> SUBSET Sym] /\ outer \in [Env -> SUBSET Env]

(* p is the youngest member of S, or NULL if S is empty. *)
Youngest(p, S, before) ==
    IF p = NULL THEN S = {} ELSE p \in S /\ S \ {p} \subseteq before[p]

(* Each chain of the hash table leads from the youngest live symbol of its *)
(* bucket to the oldest and misses none, each chain of an environment does *)
(* so for its own symbols, and the environments for what is open: no       *)
(* pointer leads to a symbol or an environment that has been freed.        *)
ChainsExact ==
    /\ \A b \in Bucket : Youngest(symbol_list[b], {s \in live : key[s] = b}, older)
    /\ \A s \in live :
        /\ Youngest(hash_nxt[s], {t \in older[s] : key[t] = key[s]}, older)
        /\ Youngest(list_nxt[s], {t \in older[s] : belong[t] = belong[s]}, older)
    /\ \A e \in open :
        /\ Youngest(env_sym[e], {s \in live : belong[s] = e}, older)
        /\ Youngest(env_nxt[e], outer[e], outer)
    /\ Youngest(envs, open, outer)

(* The symbol that env_pop() removes is the head of its hash chain: both   *)
(* of its lists shrink from the front, and the walk that hash_delete() has *)
(* for other symbols is never taken.                                       *)
DeletesHead ==
    pc = "pop" /\ env_sym[envs] # NULL =>
        symbol_list[key[env_sym[envs]]] = env_sym[envs]

(* The loop of hash_find() ends on the declaration of a short identifier   *)
(* in the innermost environment that has one, and on NULL if there is none *)
(* although it only walks one hash chain and never looks at environments.  *)
Declared(n) == {s \in live : name[s] = n}
FindsInnermost ==
    pc \in {"find", "add"} /\ Done /\ want \notin Long =>
        IF cur = NULL THEN Declared(want) = {}
        ELSE /\ cur \in Declared(want)
             /\ \A s \in Declared(want) \ {cur} : belong[s] \in outer[belong[cur]]

(* A declaration is found by the lookup that follows it: get_variable(),   *)
(* which the code of an initialised declaration starts with, asserts that  *)
(* it is.  The identifier may be a long one.                               *)
DeclaredFound ==
    (/\ pc = "find" /\ Done
     /\ ret \in live /\ name[ret] = want /\ belong[ret] = envs) => cur # NULL

(* An environment declares no short identifier twice. *)
NoDuplicates ==
    \A s, t \in live :
        s # t /\ name[s] = name[t] /\ name[s] \notin Long => belong[s] # belong[t]

(* A symbol lives as long as its environment, so that the address of a new *)
(* environment never matches the field belong of an old symbol, and the    *)
(* pass that starts after the last env_pop() finds the table empty.        *)
NothingLeft ==
    /\ \A s \in live : belong[s] \in open
    /\ envs = NULL => \A b \in Bucket : symbol_list[b] = NULL

(* Every call returns: the chains that it walks have an end. *)
Returns == pc # "idle" ~> pc = "idle"

-----------------------------------------------------------------------------
(* The table implements ScopedTable, if no identifier is long.  While      *)
(* env_pop() runs, its environment no longer counts.                       *)

Shown     == IF pc = "pop" THEN open \ {envs} ELSE open
Depth(e)  == Cardinality(outer[e]) + 1
Own(e, n) == CHOOSE s \in live : belong[s] = e /\ name[s] = n
ScopeAt(i) ==
    LET e == CHOOSE e \in Shown : Depth(e) = i
    IN  [n \in {name[s] : s \in {s \in live : belong[s] = e}} |-> Own(e, n)]

Scoped == INSTANCE ScopedTable
          WITH scopes <- [i \in 1 .. Cardinality(Shown) |-> ScopeAt(i)],
               answer <- ret

(* Every lookup and declaration is answered as a stack of environments     *)
(* would answer it, although symbols, chains and addresses are reused.     *)
Implements == Scoped!Spec
=============================================================================
