-------------------------- MODULE SymbolTableProofs -------------------------
(***************************************************************************)
(* Proofs about SymbolTable, for every set of identifiers, every hash      *)
(* function and any number of symbols and environments.                    *)
(***************************************************************************)
EXTENDS SymbolTable, FiniteSetTheorems, TLAPS

(* before[s] is what S held when s was made: a strict total order of S. *)
Ordered(S, before) ==
    /\ \A s \in S : before[s] \subseteq S /\ s \notin before[s]
    /\ \A s \in S : \A t \in before[s] : before[t] \subseteq before[s]
    /\ \A s, t \in S : s = t \/ s \in before[t] \/ t \in before[s]

(* A symbol belongs to an open environment, and an older one to the same   *)
(* environment or to one around it.                                        *)
Nested ==
    /\ \A s \in live : belong[s] \in open /\ key[s] \in Bucket
    /\ \A s \in live : \A t \in older[s] :
          belong[t] = belong[s] \/ belong[t] \in outer[belong[s]]

ShortKeys == \A s \in live : name[s] \notin Long => key[s] = Hash[name[s]]

(* What hash_find() has yet to see contains every declaration of want.     *)
Loop ==
    /\ pc \in {"find", "add"} =>
        /\ want \in Name /\ cur \in live \cup {NULL}
        /\ want \notin Long =>
            IF cur = NULL THEN Declared(want) = {}
            ELSE key[cur] = Hash[want] /\ Declared(want) \subseteq older[cur] \cup {cur}
    /\ pc \in {"add", "pop"} => envs # NULL

IInv ==
    /\ TypeOK
    /\ Ordered(live, older) /\ Ordered(open, outer)
    /\ ChainsExact
    /\ Nested /\ ShortKeys /\ NoDuplicates
    /\ Loop

-----------------------------------------------------------------------------

LEMMA InitInv == Init => IInv
BY NotNull DEF Init, IInv, TypeOK, Ordered, ChainsExact, Youngest, Nested, ShortKeys,
               NoDuplicates, Loop

(* The innermost environment is inside all the others. *)
LEMMA Innermost ==
  ASSUME IInv, envs # NULL
  PROVE  /\ envs \in open /\ open \ {envs} = outer[envs]
         /\ \A e \in open : envs \notin outer[e]
<1>1. envs \in open /\ open \ {envs} \subseteq outer[envs]
  BY DEF IInv, ChainsExact, Youngest
<1>2. outer[envs] \subseteq open \ {envs}
  BY <1>1 DEF IInv, Ordered
<1>3. \A e \in open : envs \notin outer[e]
  BY <1>1, <1>2 DEF IInv, Ordered
<1> QED BY <1>1, <1>2, <1>3

(* The youngest symbol of the innermost environment is the youngest of     *)
(* all, and the head of its hash chain.                                    *)
LEMMA YoungestOfAll ==
  ASSUME IInv, envs # NULL, env_sym[envs] # NULL
  PROVE  LET s == env_sym[envs]
         IN  /\ s \in live /\ belong[s] = envs
             /\ live \ {s} = older[s]
             /\ \A t \in live : s \notin older[t]
             /\ symbol_list[key[s]] = s
<1> DEFINE s == env_sym[envs]
<1>0. envs \in open /\ open \ {envs} = outer[envs] /\ \A e \in open : envs \notin outer[e]
  BY Innermost
<1>1. s \in live /\ belong[s] = envs /\ {t \in live : belong[t] = envs} \ {s} \subseteq older[s]
  BY <1>0 DEF IInv, ChainsExact, Youngest
<1>2. \A t \in live : s \notin older[t]
  <2> SUFFICES ASSUME NEW t \in live, s \in older[t] PROVE FALSE OBVIOUS
  <2>1. belong[t] \in open /\ (belong[t] = envs \/ envs \in outer[belong[t]])
    BY <1>1 DEF IInv, Nested
  <2>2. belong[t] = envs BY <1>0, <2>1
  <2>3. t # s BY <1>1 DEF IInv, Ordered
  <2>4. t \in older[s] BY <1>1, <2>2, <2>3
  <2>5. older[t] \subseteq older[s] /\ s \notin older[s]
    BY <1>1, <2>4 DEF IInv, Ordered
  <2> QED BY <2>5
<1>3. live \ {s} = older[s]
  BY <1>1, <1>2 DEF IInv, Ordered
<1>4. symbol_list[key[s]] = s
  <2>1. key[s] \in Bucket BY <1>1 DEF IInv, Nested
  <2>2. Youngest(symbol_list[key[s]], {t \in live : key[t] = key[s]}, older)
    BY <2>1 DEF IInv, ChainsExact
  <2> QED BY <1>1, <1>2, <2>2 DEF Youngest
<1> QED BY <1>1, <1>2, <1>3, <1>4

LEMMA CallInv ==
  ASSUME IInv, NEW n \in Name, NEW p \in {"find", "add"}, Call(p, n),
         p = "add" => envs # NULL
  PROVE  IInv'
<1>1. PICK b \in HashOf(n) : cur' = symbol_list[b]
  BY DEF Call
<1>2. b \in Bucket /\ (n \notin Long => b = Hash[n])
  BY <1>1, Names DEF HashOf
<1>3. pc' = p /\ want' = n /\ UNCHANGED <<heap, stack, ret>>
  BY DEF Call
<1>4. Youngest(symbol_list[b], {s \in live : key[s] = b}, older)
  BY <1>2 DEF IInv, ChainsExact
<1>5. cur' \in live \cup {NULL}
  BY <1>1, <1>4 DEF Youngest
<1>6. TypeOK'
  BY <1>3, <1>5 DEF IInv, TypeOK, heap, stack
<1>7. Loop'
  <2>1. ASSUME n \notin Long, NEW s \in Declared(n) PROVE s \in live /\ key[s] = b
    BY <1>2, <2>1 DEF Declared, IInv, ShortKeys
  <2>2. ASSUME n \notin Long
        PROVE  IF cur' = NULL THEN Declared(n) = {}
               ELSE key[cur'] = Hash[n] /\ Declared(n) \subseteq older[cur'] \cup {cur'}
    BY <1>1, <1>2, <1>4, <2>1, <2>2 DEF Youngest
  <2> QED BY <1>3, <1>5, <2>2 DEF Loop, Declared, heap, stack
<1> QED BY <1>3, <1>6, <1>7 DEF IInv, heap, stack, Ordered, ChainsExact, Youngest, Nested,
                               ShortKeys, NoDuplicates

LEMMA FollowInv == ASSUME IInv, Follow PROVE IInv'
<1>1. /\ cur # NULL /\ name[cur] # want /\ cur' = hash_nxt[cur]
      /\ UNCHANGED <<heap, stack, pc, want, ret>> /\ pc \in {"find", "add"}
  BY DEF Follow, Done
<1>2. want \in Name /\ cur \in live
  BY <1>1 DEF IInv, Loop
<1>3. Youngest(hash_nxt[cur], {t \in older[cur] : key[t] = key[cur]}, older)
  BY <1>2 DEF IInv, ChainsExact
<1>4. older[cur] \subseteq live
  BY <1>2 DEF IInv, Ordered
<1>5. cur' \in live \cup {NULL}
  BY <1>1, <1>3, <1>4 DEF Youngest
<1>6. TypeOK'
  BY <1>1, <1>5 DEF IInv, TypeOK, heap, stack
<1>7. ASSUME want \notin Long
      PROVE  IF cur' = NULL THEN Declared(want) = {}
             ELSE key[cur'] = Hash[want] /\ Declared(want) \subseteq older[cur'] \cup {cur'}
  <2>1. key[cur] = Hash[want] /\ Declared(want) \subseteq older[cur] \cup {cur}
    BY <1>1, <1>7 DEF IInv, Loop
  <2>2. \A s \in Declared(want) : s \in older[cur] /\ key[s] = key[cur]
    BY <1>1, <1>7, <2>1 DEF Declared, IInv, ShortKeys
  <2> QED BY <1>1, <1>3, <2>1, <2>2 DEF Youngest
<1>8. Loop'
  BY <1>1, <1>2, <1>5, <1>7 DEF Loop, Declared, heap, stack, IInv
<1> QED BY <1>1, <1>6, <1>8 DEF IInv, heap, stack, Ordered, ChainsExact, Youngest, Nested,
                               ShortKeys, NoDuplicates

(* Found and Redefined change nothing in the table. *)
LEMMA ReturnInv ==
  ASSUME IInv, Found \/ Redefined PROVE IInv'
<1>1. /\ UNCHANGED <<heap, stack>> /\ pc' = "idle" /\ want' = NULL /\ cur' = NULL
      /\ ret' \in {cur, NULL}
  BY DEF Found, Redefined, Return
<1>2. TypeOK' BY <1>1 DEF IInv, TypeOK, heap, stack
<1>3. Loop' BY <1>1 DEF Loop
<1> QED BY <1>1, <1>2, <1>3 DEF IInv, heap, stack, Ordered, ChainsExact, Youngest, Nested,
                               ShortKeys, NoDuplicates

LEMMA InsertInv == ASSUME IInv, Insert PROVE IInv'
<1>1. PICK s \in Sym \ live, b \in HashOf(want) :
        /\ name'        = [name EXCEPT ![s] = want]
        /\ key'         = [key EXCEPT ![s] = b]
        /\ list_nxt'    = [list_nxt EXCEPT ![s] = env_sym[envs]]
        /\ env_sym'     = [env_sym EXCEPT ![envs] = s]
        /\ belong'      = [belong EXCEPT ![s] = envs]
        /\ hash_nxt'    = [hash_nxt EXCEPT ![s] = symbol_list[b]]
        /\ symbol_list' = [symbol_list EXCEPT ![b] = s]
        /\ live'        = live \cup {s}
        /\ older'       = [older EXCEPT ![s] = live]
        /\ Return(s)
  BY DEF Insert
<1>2. /\ UNCHANGED <<envs, env_nxt, open, outer>> /\ pc = "add" /\ envs # NULL
      /\ (cur # NULL => name[cur] = want /\ belong[cur] # envs)
  BY DEF Insert, Done, IInv, Loop
<1>3. /\ want \in Name /\ b \in Bucket /\ (want \notin Long => b = Hash[want])
      /\ s # NULL /\ s \in Sym /\ s \notin live /\ cur \in live \cup {NULL}
  BY <1>2, Names, NotNull DEF HashOf, IInv, Loop
<1>4. envs \in open /\ open \ {envs} = outer[envs] /\ \A e \in open : envs \notin outer[e]
  BY <1>2, Innermost
<1>5. /\ name'[s] = want /\ key'[s] = b /\ list_nxt'[s] = env_sym[envs]
      /\ belong'[s] = envs /\ hash_nxt'[s] = symbol_list[b] /\ older'[s] = live
  BY <1>1, <1>3 DEF IInv, TypeOK
<1>6. \A t \in live : /\ name'[t] = name[t] /\ key'[t] = key[t] /\ belong'[t] = belong[t]
                      /\ list_nxt'[t] = list_nxt[t] /\ hash_nxt'[t] = hash_nxt[t]
                      /\ older'[t] = older[t] /\ t # s
  BY <1>1, <1>3 DEF IInv, TypeOK
<1>7. TypeOK'
  <2>1. env_sym[envs] \in Sym \cup {NULL} /\ symbol_list[b] \in Sym \cup {NULL}
    BY <1>3, <1>4 DEF IInv, TypeOK
  <2> QED BY <1>1, <1>2, <1>3, <1>4, <2>1 DEF IInv, TypeOK, Return
<1>8. Ordered(live, older)'
  BY <1>1, <1>5, <1>6 DEF IInv, Ordered
<1>9. Ordered(open, outer)'
  BY <1>2 DEF IInv, Ordered
<1>10. Nested'
  <2>1. \A t \in live' : belong'[t] \in open' /\ key'[t] \in Bucket
    BY <1>1, <1>2, <1>3, <1>4, <1>5, <1>6 DEF IInv, Nested
  <2>2. \A t \in live : belong[t] = envs \/ belong[t] \in outer[envs]
    BY <1>4 DEF IInv, Nested
  <2>3. \A t \in live : older[t] \subseteq live
    BY DEF IInv, Ordered
  <2>4. \A t \in live' : \A u \in older'[t] :
           belong'[u] = belong'[t] \/ belong'[u] \in outer'[belong'[t]]
    <3> SUFFICES ASSUME NEW t \in live', NEW u \in older'[t]
                 PROVE  belong'[u] = belong'[t] \/ belong'[u] \in outer'[belong'[t]]
      OBVIOUS
    <3>1. CASE t = s BY <1>2, <1>5, <1>6, <2>2, <3>1
    <3>2. CASE t # s
      <4>1. t \in live /\ u \in older[t] /\ u \in live BY <1>1, <1>6, <2>3, <3>2
      <4> QED BY <1>2, <1>6, <4>1 DEF IInv, Nested
    <3> QED BY <3>1, <3>2
  <2> QED BY <2>1, <2>4 DEF Nested
<1>11. ShortKeys'
  BY <1>1, <1>3, <1>5, <1>6 DEF IInv, ShortKeys
<1>12. NoDuplicates'
  <2> SUFFICES ASSUME NEW t \in live, name[t] = want, want \notin Long
               PROVE  belong[t] # envs
    BY <1>1, <1>5, <1>6 DEF IInv, NoDuplicates
  <2>1. t \in Declared(want) BY DEF Declared
  <2>2. cur # NULL /\ t \in older[cur] \cup {cur} /\ cur \in live
    BY <1>2, <1>3, <2>1 DEF IInv, Loop
  <2>3. belong[cur] \in open /\ belong[cur] # envs
    BY <1>2, <2>2 DEF IInv, Nested
  <2>4. belong[t] = belong[cur] \/ belong[t] \in outer[belong[cur]]
    BY <2>2 DEF IInv, Nested
  <2> QED BY <1>4, <2>3, <2>4
<1>13. ChainsExact'
  <2>1. \A t \in live : older[t] \subseteq live BY DEF IInv, Ordered
  <2>2. \A c \in Bucket : Youngest(symbol_list[c], {t \in live : key[t] = c}, older)'
    <3> SUFFICES ASSUME NEW c \in Bucket
                 PROVE  Youngest(symbol_list'[c], {t \in live' : key'[t] = c}, older')
      BY DEF Youngest
    <3>1. CASE c = b
      <4>1. symbol_list'[c] = s BY <1>1, <1>3, <3>1 DEF IInv, TypeOK
      <4> QED BY <1>1, <1>3, <1>5, <3>1, <4>1 DEF Youngest
    <3>2. CASE c # b
      <4>1. symbol_list'[c] = symbol_list[c] BY <1>1, <3>2 DEF IInv, TypeOK
      <4>2. {t \in live' : key'[t] = c} = {t \in live : key[t] = c}
        BY <1>1, <1>5, <1>6, <3>2
      <4>3. Youngest(symbol_list[c], {t \in live : key[t] = c}, older)
        BY DEF IInv, ChainsExact
      <4> QED BY <1>6, <4>1, <4>2, <4>3 DEF Youngest
    <3> QED BY <3>1, <3>2
  <2>3. Youngest(hash_nxt'[s], {t \in older'[s] : key'[t] = key'[s]}, older')
    <3>1. Youngest(symbol_list[b], {t \in live : key[t] = b}, older)
      BY <1>3 DEF IInv, ChainsExact
    <3>2. {t \in older'[s] : key'[t] = key'[s]} = {t \in live : key[t] = b}
      BY <1>5, <1>6
    <3> QED BY <1>5, <1>6, <3>1, <3>2 DEF Youngest
  <2>4. Youngest(list_nxt'[s], {t \in older'[s] : belong'[t] = belong'[s]}, older')
    <3>1. Youngest(env_sym[envs], {t \in live : belong[t] = envs}, older)
      BY <1>4 DEF IInv, ChainsExact
    <3>2. {t \in older'[s] : belong'[t] = belong'[s]} = {t \in live : belong[t] = envs}
      BY <1>5, <1>6
    <3> QED BY <1>5, <1>6, <3>1, <3>2 DEF Youngest
  <2>5. ASSUME NEW u \in live
        PROVE  /\ Youngest(hash_nxt'[u], {t \in older'[u] : key'[t] = key'[u]}, older')
               /\ Youngest(list_nxt'[u], {t \in older'[u] : belong'[t] = belong'[u]}, older')
    <3>1. {t \in older'[u] : key'[t] = key'[u]} = {t \in older[u] : key[t] = key[u]}
      BY <1>6, <2>1
    <3>2. {t \in older'[u] : belong'[t] = belong'[u]} = {t \in older[u] : belong[t] = belong[u]}
      BY <1>6, <2>1
    <3>3. /\ Youngest(hash_nxt[u], {t \in older[u] : key[t] = key[u]}, older)
          /\ Youngest(list_nxt[u], {t \in older[u] : belong[t] = belong[u]}, older)
      BY DEF IInv, ChainsExact
    <3>4. older[u] \subseteq live BY <2>1
    <3> QED BY <1>6, <3>1, <3>2, <3>3, <3>4 DEF Youngest
  <2>6. \A u \in live' :
          /\ Youngest(hash_nxt[u], {t \in older[u] : key[t] = key[u]}, older)'
          /\ Youngest(list_nxt[u], {t \in older[u] : belong[t] = belong[u]}, older)'
    BY <1>1, <2>3, <2>4, <2>5 DEF Youngest
  <2>7. \A e \in open : Youngest(env_sym[e], {t \in live : belong[t] = e}, older)'
    <3> SUFFICES ASSUME NEW e \in open
                 PROVE  Youngest(env_sym'[e], {t \in live' : belong'[t] = e}, older')
      BY DEF Youngest
    <3>1. CASE e = envs
      <4>1. env_sym'[e] = s BY <1>1, <1>4, <3>1 DEF IInv, TypeOK
      <4> QED BY <1>1, <1>3, <1>5, <3>1, <4>1 DEF Youngest
    <3>2. CASE e # envs
      <4>1. env_sym'[e] = env_sym[e] BY <1>1, <3>2 DEF IInv, TypeOK
      <4>2. {t \in live' : belong'[t] = e} = {t \in live : belong[t] = e}
        BY <1>1, <1>5, <1>6, <3>2
      <4>3. Youngest(env_sym[e], {t \in live : belong[t] = e}, older)
        BY DEF IInv, ChainsExact
      <4> QED BY <1>6, <4>1, <4>2, <4>3 DEF Youngest
    <3> QED BY <3>1, <3>2
  <2>8. (\A e \in open : Youngest(env_nxt[e], outer[e], outer))'
    BY <1>2 DEF IInv, ChainsExact, Youngest
  <2>9. Youngest(envs, open, outer)'
    BY <1>2 DEF IInv, ChainsExact, Youngest
  <2> QED BY <1>2, <2>2, <2>6, <2>7, <2>8, <2>9 DEF ChainsExact
<1>14. Loop'
  BY <1>1 DEF Loop, Return
<1> QED BY <1>7, <1>8, <1>9, <1>10, <1>11, <1>12, <1>13, <1>14 DEF IInv

LEMMA PushInv == ASSUME IInv, env_push PROVE IInv'
<1>1. PICK e \in Env \ open :
        /\ env_sym' = [env_sym EXCEPT ![e] = NULL]
        /\ env_nxt' = [env_nxt EXCEPT ![e] = envs]
        /\ envs' = e /\ open' = open \cup {e}
        /\ outer' = [outer EXCEPT ![e] = open]
  BY DEF env_push
<1>2. UNCHANGED <<heap, call>> /\ pc = "idle"
  BY DEF env_push
<1>3. e \in Env /\ e \notin open /\ e # NULL
  BY <1>1, NotNull
<1>4. /\ env_sym'[e] = NULL /\ env_nxt'[e] = envs /\ outer'[e] = open
      /\ \A f \in open : /\ env_sym'[f] = env_sym[f] /\ env_nxt'[f] = env_nxt[f]
                         /\ outer'[f] = outer[f] /\ f # e
  BY <1>1, <1>3 DEF IInv, TypeOK
<1>5. TypeOK'
  BY <1>1, <1>2, <1>3 DEF IInv, TypeOK, heap, call
<1>6. Ordered(live, older)' /\ ShortKeys' /\ NoDuplicates'
  BY <1>2 DEF IInv, Ordered, ShortKeys, NoDuplicates, heap
<1>7. Ordered(open, outer)'
  BY <1>1, <1>4 DEF IInv, Ordered
<1>8. Nested'
  <2>1. \A s \in live : belong[s] \in open BY DEF IInv, Nested
  <2> QED BY <1>1, <1>2, <1>4, <2>1 DEF IInv, Nested, heap, Ordered
<1>9. ChainsExact'
  <2>1. \A f \in open : outer[f] \subseteq open BY DEF IInv, Ordered
  <2>2. \A s \in live : belong[s] # e BY <1>3 DEF IInv, Nested
  <2>3. \A f \in open' : Youngest(env_sym[f], {s \in live : belong[s] = f}, older)'
    BY <1>1, <1>2, <1>4, <2>2 DEF IInv, ChainsExact, Youngest, heap
  <2>4. \A f \in open' : Youngest(env_nxt[f], outer[f], outer)'
    <3> SUFFICES ASSUME NEW f \in open' PROVE Youngest(env_nxt'[f], outer'[f], outer')
      BY DEF Youngest
    <3>1. CASE f = e
      <4>1. Youngest(envs, open, outer) BY DEF IInv, ChainsExact
      <4> QED BY <1>4, <3>1, <4>1 DEF Youngest
    <3>2. CASE f # e
      <4>1. f \in open BY <1>1, <3>2
      <4>2. Youngest(env_nxt[f], outer[f], outer) BY <4>1 DEF IInv, ChainsExact
      <4>3. outer[f] \subseteq open BY <2>1, <4>1
      <4> QED BY <1>4, <4>1, <4>2, <4>3 DEF Youngest
    <3> QED BY <3>1, <3>2
  <2>5. Youngest(envs, open, outer)'
    BY <1>1, <1>3, <1>4 DEF Youngest
  <2>6. (\A b \in Bucket : Youngest(symbol_list[b], {s \in live : key[s] = b}, older))'
    BY <1>2 DEF IInv, ChainsExact, Youngest, heap
  <2>7. (\A s \in live :
          /\ Youngest(hash_nxt[s], {t \in older[s] : key[t] = key[s]}, older)
          /\ Youngest(list_nxt[s], {t \in older[s] : belong[t] = belong[s]}, older))'
    BY <1>2 DEF IInv, ChainsExact, Youngest, heap
  <2> QED BY <2>3, <2>4, <2>5, <2>6, <2>7 DEF ChainsExact
<1>10. Loop'
  BY <1>2 DEF Loop, call
<1> QED BY <1>5, <1>6, <1>7, <1>8, <1>9, <1>10 DEF IInv

LEMMA PopSymbolInv == ASSUME IInv, PopSymbol PROVE IInv'
<1>1. PICK s \in Sym : s = env_sym[envs] /\ s \in live /\ envs # NULL
  BY YoungestOfAll DEF PopSymbol, IInv, Loop, TypeOK
<1>2. /\ belong[s] = envs /\ live \ {s} = older[s]
      /\ \A t \in live : s \notin older[t]
      /\ symbol_list[key[s]] = s
  BY <1>1, YoungestOfAll DEF PopSymbol
<1>3. key[s] \in Bucket /\ envs \in open /\ envs \in Env /\ s # NULL
  BY <1>1, <1>2, NotNull DEF IInv, Nested, TypeOK
<1>4. /\ env_sym' = [env_sym EXCEPT ![envs] = list_nxt[s]]
      /\ symbol_list' = [symbol_list EXCEPT ![key[s]] = hash_nxt[s]]
      /\ hash_nxt' = [hash_nxt EXCEPT ![s] = NULL]
      /\ live' = live \ {s}
      /\ name' = [name EXCEPT ![s] = NULL] /\ key' = [key EXCEPT ![s] = NULL]
      /\ list_nxt' = [list_nxt EXCEPT ![s] = NULL]
      /\ belong' = [belong EXCEPT ![s] = NULL]
      /\ older' = [older EXCEPT ![s] = {}]
      /\ UNCHANGED <<envs, env_nxt, open, outer, call>> /\ pc = "pop"
  BY <1>1, <1>2 DEF PopSymbol, hash_delete
<1>5. \A t \in live' : /\ name'[t] = name[t] /\ key'[t] = key[t] /\ belong'[t] = belong[t]
                       /\ list_nxt'[t] = list_nxt[t] /\ hash_nxt'[t] = hash_nxt[t]
                       /\ older'[t] = older[t] /\ t \in live /\ older[t] \subseteq live'
  BY <1>2, <1>4 DEF IInv, TypeOK, Ordered
<1>6. TypeOK'
  <2>1. list_nxt[s] \in Sym \cup {NULL} /\ hash_nxt[s] \in Sym \cup {NULL}
    BY DEF IInv, TypeOK
  <2> QED BY <1>3, <1>4, <2>1 DEF IInv, TypeOK, call
<1>7. Ordered(live, older)'
  BY <1>4, <1>5 DEF IInv, Ordered
<1>8. Ordered(open, outer)'
  BY <1>4 DEF IInv, Ordered
<1>9. Nested' /\ ShortKeys' /\ NoDuplicates'
  BY <1>4, <1>5 DEF IInv, Nested, ShortKeys, NoDuplicates
<1>10. ChainsExact'
  <2>1. \A b \in Bucket : Youngest(symbol_list[b], {t \in live : key[t] = b}, older)'
    <3> SUFFICES ASSUME NEW b \in Bucket
                 PROVE  Youngest(symbol_list'[b], {t \in live' : key'[t] = b}, older')
      BY DEF Youngest
    <3>1. Youngest(symbol_list[b], {t \in live : key[t] = b}, older)
      BY DEF IInv, ChainsExact
    <3>2. CASE b = key[s]
      <4>1. symbol_list'[b] = hash_nxt[s] BY <1>3, <1>4, <3>2 DEF IInv, TypeOK
      <4>2. Youngest(hash_nxt[s], {t \in older[s] : key[t] = key[s]}, older)
        BY <1>1 DEF IInv, ChainsExact
      <4>3. {t \in live' : key'[t] = b} = {t \in older[s] : key[t] = key[s]}
        BY <1>2, <1>4, <1>5, <3>2
      <4>4. older[s] = live' BY <1>2, <1>4
      <4> QED BY <1>5, <4>1, <4>2, <4>3, <4>4 DEF Youngest
    <3>3. CASE b # key[s]
      <4>1. symbol_list'[b] = symbol_list[b] BY <1>4, <3>3 DEF IInv, TypeOK
      <4>2. {t \in live' : key'[t] = b} = {t \in live : key[t] = b}
        BY <1>4, <1>5, <3>3
      <4> QED BY <1>5, <3>1, <4>1, <4>2 DEF Youngest
    <3> QED BY <3>2, <3>3
  <2>2. ASSUME NEW u \in live'
        PROVE  /\ Youngest(hash_nxt'[u], {t \in older'[u] : key'[t] = key'[u]}, older')
               /\ Youngest(list_nxt'[u], {t \in older'[u] : belong'[t] = belong'[u]}, older')
    <3>1. {t \in older'[u] : key'[t] = key'[u]} = {t \in older[u] : key[t] = key[u]}
      BY <1>5
    <3>2. {t \in older'[u] : belong'[t] = belong'[u]} = {t \in older[u] : belong[t] = belong[u]}
      BY <1>5
    <3>3. /\ Youngest(hash_nxt[u], {t \in older[u] : key[t] = key[u]}, older)
          /\ Youngest(list_nxt[u], {t \in older[u] : belong[t] = belong[u]}, older)
      BY <1>5 DEF IInv, ChainsExact
    <3>4. older[u] \subseteq live' BY <1>5
    <3> QED BY <1>5, <3>1, <3>2, <3>3, <3>4 DEF Youngest
  <2>3. \A e \in open : Youngest(env_sym[e], {t \in live : belong[t] = e}, older)'
    <3> SUFFICES ASSUME NEW e \in open
                 PROVE  Youngest(env_sym'[e], {t \in live' : belong'[t] = e}, older')
      BY DEF Youngest
    <3>1. CASE e = envs
      <4>1. env_sym'[e] = list_nxt[s] BY <1>3, <1>4, <3>1 DEF IInv, TypeOK
      <4>2. Youngest(list_nxt[s], {t \in older[s] : belong[t] = belong[s]}, older)
        BY <1>1 DEF IInv, ChainsExact
      <4>3. {t \in live' : belong'[t] = e} = {t \in older[s] : belong[t] = belong[s]}
        BY <1>2, <1>4, <1>5, <3>1
      <4>4. older[s] = live' BY <1>2, <1>4
      <4> QED BY <1>5, <4>1, <4>2, <4>3, <4>4 DEF Youngest
    <3>2. CASE e # envs
      <4>1. env_sym'[e] = env_sym[e] BY <1>4, <3>2 DEF IInv, TypeOK
      <4>2. {t \in live' : belong'[t] = e} = {t \in live : belong[t] = e}
        BY <1>2, <1>4, <1>5, <3>2
      <4>3. Youngest(env_sym[e], {t \in live : belong[t] = e}, older)
        BY DEF IInv, ChainsExact
      <4> QED BY <1>5, <4>1, <4>2, <4>3 DEF Youngest
    <3> QED BY <3>1, <3>2
  <2>4. (\A e \in open : Youngest(env_nxt[e], outer[e], outer))'
        /\ Youngest(envs, open, outer)'
    BY <1>4 DEF IInv, ChainsExact, Youngest
  <2>5. \A u \in live' :
          /\ Youngest(hash_nxt[u], {t \in older[u] : key[t] = key[u]}, older)'
          /\ Youngest(list_nxt[u], {t \in older[u] : belong[t] = belong[u]}, older)'
    BY <2>2 DEF Youngest
  <2> QED BY <1>4, <2>1, <2>3, <2>4, <2>5 DEF ChainsExact
<1>11. Loop'
  BY <1>1, <1>4 DEF Loop, call
<1> QED BY <1>6, <1>7, <1>8, <1>9, <1>10, <1>11 DEF IInv

LEMMA PopEnvInv == ASSUME IInv, PopEnv PROVE IInv'
<1>1. /\ env_sym[envs] = NULL /\ envs # NULL /\ envs' = env_nxt[envs]
      /\ open' = open \ {envs}
      /\ env_nxt' = [env_nxt EXCEPT ![envs] = NULL]
      /\ outer' = [outer EXCEPT ![envs] = {}]
      /\ Return(ret) /\ UNCHANGED <<heap, env_sym>>
  BY DEF PopEnv, IInv, Loop
<1>2. envs \in open /\ open \ {envs} = outer[envs] /\ \A e \in open : envs \notin outer[e]
  BY <1>1, Innermost
<1>3. \A s \in live : belong[s] # envs
  <2>1. Youngest(env_sym[envs], {s \in live : belong[s] = envs}, older)
    BY <1>2 DEF IInv, ChainsExact
  <2> QED BY <1>1, <2>1 DEF Youngest
<1>4. \A e \in open' : /\ env_nxt'[e] = env_nxt[e] /\ outer'[e] = outer[e] /\ e \in open
                       /\ outer[e] \subseteq open'
  BY <1>1, <1>2 DEF IInv, TypeOK, Ordered
<1>5. TypeOK'
  BY <1>1, <1>2 DEF IInv, TypeOK, Return, heap
<1>6. Ordered(live, older)' /\ ShortKeys' /\ NoDuplicates'
  BY <1>1 DEF IInv, Ordered, ShortKeys, NoDuplicates, heap
<1>7. Ordered(open, outer)'
  BY <1>1, <1>4 DEF IInv, Ordered
<1>8. Nested'
  <2>1. \A s \in live : belong[s] \in open' BY <1>1, <1>3 DEF IInv, Nested
  <2> QED BY <1>1, <1>4, <2>1 DEF IInv, Nested, heap
<1>9. ChainsExact'
  <2>1. \A e \in open' : Youngest(env_sym[e], {s \in live : belong[s] = e}, older)'
    BY <1>1, <1>4 DEF IInv, ChainsExact, Youngest, heap
  <2>2. \A e \in open' : Youngest(env_nxt[e], outer[e], outer)'
    BY <1>1, <1>4 DEF IInv, ChainsExact, Youngest
  <2>3. Youngest(envs, open, outer)'
    <3>1. Youngest(env_nxt[envs], outer[envs], outer)
      BY <1>2 DEF IInv, ChainsExact
    <3> QED BY <1>1, <1>2, <1>4, <3>1 DEF Youngest
  <2>4. (\A b \in Bucket : Youngest(symbol_list[b], {s \in live : key[s] = b}, older))'
    BY <1>1 DEF IInv, ChainsExact, Youngest, heap
  <2>5. (\A s \in live :
          /\ Youngest(hash_nxt[s], {t \in older[s] : key[t] = key[s]}, older)
          /\ Youngest(list_nxt[s], {t \in older[s] : belong[t] = belong[s]}, older))'
    BY <1>1 DEF IInv, ChainsExact, Youngest, heap
  <2> QED BY <2>1, <2>2, <2>3, <2>4, <2>5 DEF ChainsExact
<1>10. Loop'
  BY <1>1 DEF Loop, Return
<1> QED BY <1>5, <1>6, <1>7, <1>8, <1>9, <1>10 DEF IInv

LEMMA StepInv == IInv /\ [Next]_vars => IInv'
<1> SUFFICES ASSUME IInv, [Next]_vars PROVE IInv' OBVIOUS
<1>1. CASE UNCHANGED vars
  BY <1>1 DEF vars, heap, stack, call, IInv, TypeOK, Ordered, ChainsExact, Youngest,
              Nested, ShortKeys, NoDuplicates, Loop, Declared
<1>2. ASSUME NEW n \in Name, hash_find(n) PROVE IInv'
  BY <1>2, CallInv DEF hash_find
<1>3. ASSUME NEW n \in Name, symbol_add(n) PROVE IInv'
  BY <1>3, CallInv DEF symbol_add
<1>4. CASE env_pop
  BY <1>4 DEF env_pop, heap, stack, IInv, TypeOK, Ordered, ChainsExact, Youngest,
              Nested, ShortKeys, NoDuplicates, Loop
<1>5. CASE Step
  BY <1>5, FollowInv, ReturnInv, InsertInv, PopSymbolInv, PopEnvInv DEF Step
<1>6. CASE env_push
  BY <1>6, PushInv
<1> QED BY <1>1, <1>2, <1>3, <1>4, <1>5, <1>6 DEF Next

(* Where the walk stops is the innermost declaration. *)
LEMMA Finds == IInv => FindsInnermost
<1> SUFFICES ASSUME IInv, pc \in {"find", "add"}, Done, want \notin Long, cur # NULL
             PROVE  /\ cur \in Declared(want)
                    /\ \A s \in Declared(want) \ {cur} : belong[s] \in outer[belong[cur]]
  BY DEF FindsInnermost, IInv, Loop
<1>1. cur \in live /\ name[cur] = want /\ Declared(want) \subseteq older[cur] \cup {cur}
  BY DEF IInv, Loop, Done
<1>2. ASSUME NEW s \in Declared(want) \ {cur} PROVE belong[s] \in outer[belong[cur]]
  <2>1. s \in live /\ s \in older[cur] /\ name[s] = want
    BY <1>1 DEF Declared
  <2>2. belong[s] # belong[cur]
    BY <1>1, <2>1 DEF IInv, NoDuplicates
  <2> QED BY <1>1, <2>1, <2>2 DEF IInv, Nested
<1> QED BY <1>1, <1>2 DEF Declared

-----------------------------------------------------------------------------
(* Pointers lead to addresses of the right kind, or to NULL. *)
THEOREM TypeCorrect == Spec => []TypeOK
<1>1. IInv => TypeOK BY DEF IInv
<1> QED BY InitInv, StepInv, <1>1, PTL DEF Spec

(* No chain ever misses a live symbol, repeats one or leads to a freed one. *)
THEOREM ChainsStayExact == Spec => []ChainsExact
<1>1. IInv => ChainsExact BY DEF IInv
<1> QED BY InitInv, StepInv, <1>1, PTL DEF Spec

(* Popping an environment removes heads of hash chains only. *)
THEOREM DeletesOnlyHeads == Spec => []DeletesHead
<1>1. IInv => DeletesHead
  BY YoungestOfAll DEF DeletesHead, IInv, Loop
<1> QED BY InitInv, StepInv, <1>1, PTL DEF Spec

(* A lookup of a short identifier ends on its innermost declaration, in    *)
(* whatever bucket the hash function puts it and whoever shares it.        *)
THEOREM LookupsFindInnermost == Spec => []FindsInnermost
BY InitInv, StepInv, Finds, PTL DEF Spec

(* No environment declares a short identifier twice. *)
THEOREM DeclarationsUnique == Spec => []NoDuplicates
<1>1. IInv => NoDuplicates BY DEF IInv
<1> QED BY InitInv, StepInv, <1>1, PTL DEF Spec

(* No symbol outlives its environment, and the last pop empties the table. *)
THEOREM NothingStays == Spec => []NothingLeft
<1>1. IInv => NothingLeft
  <2> SUFFICES ASSUME IInv
               PROVE  envs = NULL => \A b \in Bucket : symbol_list[b] = NULL
    BY DEF NothingLeft, IInv, Nested
  <2>1. ASSUME envs = NULL PROVE live = {}
    BY <2>1 DEF IInv, ChainsExact, Youngest, Nested
  <2> QED BY <2>1 DEF IInv, ChainsExact, Youngest
<1> QED BY InitInv, StepInv, <1>1, PTL DEF Spec

(* A declaration is found by the lookup that follows it, whatever has been *)
(* declared, looked up and popped before: the symbol that get_variable()   *)
(* asserts is there.  Only an identifier that is too long for its symbol   *)
(* can be missed, and it disturbs no other.                                *)
THEOREM DeclarationsFound == Spec => [](want \notin Long => DeclaredFound)
<1>1. IInv => (want \notin Long => DeclaredFound)
  <2> SUFFICES ASSUME IInv, want \notin Long, pc = "find", ret \in live, name[ret] = want,
                      cur = NULL
               PROVE  FALSE
    BY DEF DeclaredFound
  <2>1. Declared(want) = {} BY DEF IInv, Loop
  <2> QED BY <2>1 DEF Declared
<1> QED BY InitInv, StepInv, <1>1, PTL DEF Spec

-----------------------------------------------------------------------------
(* The loops of hash_find() and env_pop() come to an end.                  *)

Finite == IsFiniteSet(live)

(* What the call that runs has yet to visit.                               *)
Left == IF pc = "pop" THEN Cardinality(live)
        ELSE IF cur = NULL THEN 0 ELSE Cardinality(older[cur]) + 1

Within == pc # "idle" => Left \in 0 .. Cardinality(live)

InStep == pc # "idle" => pc' = "idle" \/ Left' < Left

LEMMA StepFinite == IInv /\ Finite /\ [Next]_vars => Finite'
<1> SUFFICES ASSUME IInv, Finite, [Next]_vars PROVE Finite' OBVIOUS
<1>1. CASE live' = live BY <1>1 DEF Finite
<1>2. CASE Insert
  <2>1. PICK s \in Sym \ live : live' = live \cup {s} BY <1>2 DEF Insert
  <2> QED BY <2>1, FS_AddElement DEF Finite
<1>3. CASE PopSymbol
  <2>1. live' = live \ {env_sym[envs]} BY <1>3 DEF PopSymbol
  <2> QED BY <2>1, FS_RemoveElement DEF Finite
<1> QED
  BY <1>1, <1>2, <1>3 DEF Next, Step, hash_find, symbol_add, Call, env_push, env_pop,
     Follow, Found, Redefined, PopEnv, vars, heap

(* A symbol that the cursor has reached has fewer older ones than are      *)
(* live, and an older one fewer than that.                                 *)
LEMMA OlderFewer ==
  ASSUME IInv, Finite, NEW s \in live
  PROVE  /\ IsFiniteSet(older[s]) /\ Cardinality(older[s]) \in Nat
         /\ Cardinality(live) \in Nat /\ Cardinality(older[s]) + 1 <= Cardinality(live)
         /\ \A t \in older[s] : /\ Cardinality(older[t]) \in Nat
                               /\ Cardinality(older[t]) + 1 <= Cardinality(older[s])
<1>1. ASSUME NEW S, IsFiniteSet(S), NEW t \in S, older[t] \subseteq S, t \notin older[t]
      PROVE  /\ IsFiniteSet(older[t]) /\ Cardinality(older[t]) \in Nat
             /\ Cardinality(S) \in Nat /\ Cardinality(older[t]) + 1 <= Cardinality(S)
  <2>1. IsFiniteSet(S \ {t}) /\ Cardinality(S \ {t}) = Cardinality(S) - 1
    BY <1>1, FS_RemoveElement
  <2>2. older[t] \in SUBSET (S \ {t}) BY <1>1
  <2>3. IsFiniteSet(older[t]) /\ Cardinality(older[t]) <= Cardinality(S \ {t})
    BY <2>1, <2>2, FS_Subset
  <2>4. Cardinality(older[t]) \in Nat /\ Cardinality(S) \in Nat
    BY <1>1, <2>3, FS_CardinalityType
  <2> QED BY <2>1, <2>3, <2>4
<1>2. older[s] \subseteq live /\ s \notin older[s] BY DEF IInv, Ordered
<1>3. /\ IsFiniteSet(older[s]) /\ Cardinality(older[s]) \in Nat
      /\ Cardinality(live) \in Nat /\ Cardinality(older[s]) + 1 <= Cardinality(live)
  BY <1>1, <1>2 DEF Finite
<1>4. ASSUME NEW t \in older[s]
      PROVE  /\ Cardinality(older[t]) \in Nat
             /\ Cardinality(older[t]) + 1 <= Cardinality(older[s])
  <2>1. older[t] \subseteq older[s] /\ t \notin older[t] BY <1>2 DEF IInv, Ordered
  <2> QED BY <1>1, <1>3, <2>1
<1> QED BY <1>3, <1>4

LEMMA LeftWithin == ASSUME IInv, Finite PROVE Within
<1>1. Cardinality(live) \in Nat BY FS_CardinalityType DEF Finite
<1>2. CASE pc = "pop" BY <1>1, <1>2 DEF Within, Left
<1>3. CASE pc \in {"find", "add"}
  <2>1. CASE cur = NULL BY <1>1, <1>3, <2>1 DEF Within, Left
  <2>2. CASE cur # NULL
    <3>1. cur \in live BY <1>3, <2>2 DEF IInv, Loop
    <3>2. Left = Cardinality(older[cur]) + 1 BY <1>3, <2>2 DEF Left
    <3> QED BY <3>1, <3>2, OlderFewer DEF Within
  <2> QED BY <2>1, <2>2
<1> QED BY <1>2, <1>3 DEF Within, IInv, TypeOK

LEMMA LeftLess == ASSUME IInv, Finite, Next PROVE InStep
<1>1. CASE Follow
  <2>1. /\ pc \in {"find", "add"} /\ cur # NULL /\ cur' = hash_nxt[cur]
        /\ pc' = pc /\ older' = older
    BY <1>1 DEF Follow, Done, heap
  <2>2. cur \in live BY <2>1 DEF IInv, Loop
  <2>3. Left = Cardinality(older[cur]) + 1 /\ Cardinality(older[cur]) \in Nat
    BY <2>1, <2>2, OlderFewer DEF Left
  <2>4. CASE cur' = NULL
    <3>1. Left' = 0 BY <2>1, <2>4 DEF Left
    <3> QED BY <2>3, <3>1 DEF InStep
  <2>5. CASE cur' # NULL
    <3>1. Youngest(hash_nxt[cur], {t \in older[cur] : key[t] = key[cur]}, older)
      BY <2>2 DEF IInv, ChainsExact
    <3>2. cur' \in older[cur] BY <2>1, <2>5, <3>1 DEF Youngest
    <3>3. Left' = Cardinality(older[cur']) + 1 BY <2>1, <2>5 DEF Left
    <3>4. /\ Cardinality(older[cur']) \in Nat
          /\ Cardinality(older[cur']) + 1 <= Cardinality(older[cur])
      BY <2>2, <3>2, OlderFewer
    <3> QED BY <2>3, <3>3, <3>4 DEF InStep
  <2> QED BY <2>4, <2>5
<1>2. CASE PopSymbol
  <2>1. pc = "pop" /\ pc' = "pop" /\ live' = live \ {env_sym[envs]}
        /\ env_sym[envs] # NULL
    BY <1>2 DEF PopSymbol, call
  <2>2. env_sym[envs] \in live BY <1>2, YoungestOfAll DEF PopSymbol, IInv, Loop, TypeOK
  <2>3. Left = Cardinality(live) /\ Left' = Cardinality(live') BY <2>1 DEF Left
  <2>4. Cardinality(live') = Cardinality(live) - 1 /\ Cardinality(live) \in Nat
    BY <2>1, <2>2, FS_RemoveElement, FS_CardinalityType DEF Finite
  <2> QED BY <2>3, <2>4 DEF InStep
<1>3. CASE Found \/ Redefined \/ Insert \/ PopEnv
  <2>1. pc' = "idle" BY <1>3 DEF Found, Redefined, Insert, PopEnv, Return
  <2> QED BY <2>1 DEF InStep
<1>4. CASE env_push \/ env_pop \/ \E n \in Name : hash_find(n) \/ symbol_add(n)
  <2>1. pc = "idle" BY <1>4 DEF env_push, env_pop, hash_find, symbol_add, Call
  <2> QED BY <2>1 DEF InStep
<1> QED BY <1>1, <1>2, <1>3, <1>4 DEF Next, Step

(* A call returns after at most one step per live symbol: the cursor of    *)
(* hash_find() moves to a symbol that has fewer older ones, and env_pop()  *)
(* frees a symbol in every step, whatever the chains look like.  What      *)
(* Returns adds is that a call that has begun goes on.                     *)
THEOREM CallsEnd == Spec => [](Within) /\ [][InStep]_vars
<1>1. Init => Finite BY FS_EmptySet DEF Init, Finite
<1>2. IInv /\ Finite /\ [Next]_vars => [InStep]_vars BY LeftLess
<1> QED BY InitInv, StepInv, <1>1, StepFinite, LeftWithin, <1>2, PTL DEF Spec
=============================================================================
