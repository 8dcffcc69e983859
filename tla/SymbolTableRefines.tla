------------------------- MODULE SymbolTableRefines -------------------------
(***************************************************************************)
(* SymbolTable implements ScopedTable, for every set of short identifiers, *)
(* every hash function and any number of symbols and environments.         *)
(***************************************************************************)
EXTENDS SymbolTableProofs, Sequences, FiniteSetTheorems

Height == Cardinality(Shown)
Scopes == [i \in 1 .. Height |-> ScopeAt(i)]
Bound(e) == {<<name[s], s>> : s \in {s \in live : belong[s] = e}}

(* Every depth up to that of the innermost environment is that of one.     *)
Deep ==
    /\ IsFiniteSet(open)
    /\ \A i \in 1 .. Cardinality(open) : \E e \in open : Depth(e) = i

(* What the stack of scopes shows of the environments.                     *)
IsScope(f, B) ==
    /\ f = [n \in DOMAIN f |-> f[n]]
    /\ \A n : n \in DOMAIN f <=> \E s : <<n, s>> \in B
    /\ \A n, s : <<n, s>> \in B => f[n] = s

View ==
    /\ Height \in Nat
    /\ Scopes = [i \in 1 .. Height |-> Scopes[i]]
    /\ \A e \in Shown : Depth(e) \in 1 .. Height /\ IsScope(Scopes[Depth(e)], Bound(e))
    /\ \A i \in 1 .. Height : \E e \in Shown : Depth(e) = i
    /\ \A e, f \in Shown : e \in outer[f] => Depth(e) < Depth(f)

-----------------------------------------------------------------------------

LEMMA Depths ==
  ASSUME IInv, Deep
  PROVE  /\ \A e \in open : IsFiniteSet(outer[e]) /\ Depth(e) \in 1 .. Cardinality(open)
         /\ \A e, f \in open : e \in outer[f] => Depth(e) < Depth(f)
         /\ \A e, f \in open : Depth(e) = Depth(f) => e = f
<1>1. ASSUME NEW e \in open PROVE IsFiniteSet(outer[e]) /\ Depth(e) \in 1 .. Cardinality(open)
  <2>1. outer[e] \subseteq open \ {e} BY DEF IInv, Ordered
  <2>2. IsFiniteSet(open \ {e}) /\ Cardinality(open \ {e}) = Cardinality(open) - 1
    BY FS_RemoveElement DEF Deep
  <2>3. IsFiniteSet(outer[e]) /\ Cardinality(outer[e]) <= Cardinality(open) - 1
    BY <2>1, <2>2, FS_Subset
  <2> QED BY <2>3, FS_CardinalityType DEF Depth, Deep
<1>2. ASSUME NEW e \in open, NEW f \in open, e \in outer[f] PROVE Depth(e) < Depth(f)
  <2>1. outer[e] \subseteq outer[f] \ {e} BY <1>2 DEF IInv, Ordered
  <2>2. IsFiniteSet(outer[f]) /\ IsFiniteSet(outer[e]) BY <1>1
  <2>3. IsFiniteSet(outer[f] \ {e}) /\ Cardinality(outer[f] \ {e}) = Cardinality(outer[f]) - 1
    BY <1>2, <2>2, FS_RemoveElement
  <2>4. Cardinality(outer[e]) <= Cardinality(outer[f]) - 1 BY <2>1, <2>3, FS_Subset
  <2>5. Cardinality(outer[e]) \in Nat /\ Cardinality(outer[f]) \in Nat
    BY <2>2, FS_CardinalityType
  <2> QED BY <2>4, <2>5 DEF Depth
<1>3. \A e, f \in open : e = f \/ e \in outer[f] \/ f \in outer[e]
  BY DEF IInv, Ordered
<1>4. ASSUME NEW e \in open, NEW f \in open, Depth(e) = Depth(f) PROVE e = f
  <2>1. Depth(e) \in Int /\ Depth(f) \in Int BY <1>1
  <2>2. e \notin outer[f] /\ f \notin outer[e] BY <1>2, <1>4, <2>1
  <2> QED BY <1>3, <2>2
<1> QED BY <1>1, <1>2, <1>4

(* While env_pop() runs, the innermost environment is on top of what is    *)
(* shown.                                                                  *)
LEMMA Showing ==
  ASSUME IInv, Deep
  PROVE  /\ Shown \subseteq open /\ IsFiniteSet(Shown) /\ Height \in Nat
         /\ \A e \in Shown : Depth(e) \in 1 .. Height
         /\ \A i \in 1 .. Height : \E e \in Shown : Depth(e) = i
<1>1. CASE pc # "pop"
  BY <1>1, Depths, FS_CardinalityType DEF Shown, Height, Deep
<1>2. CASE pc = "pop"
  <2>1. envs # NULL /\ Shown = open \ {envs} BY <1>2 DEF IInv, Loop, Shown
  <2>2. envs \in open /\ open \ {envs} = outer[envs] BY <2>1, Innermost
  <2>3. IsFiniteSet(Shown) /\ Height = Cardinality(open) - 1
    BY <2>1, <2>2, FS_RemoveElement DEF Height, Deep
  <2>4. Height \in Nat BY <2>3, FS_CardinalityType DEF Height
  <2>5. Depth(envs) = Height + 1 BY <2>1, <2>2 DEF Depth, Height
  <2>6. ASSUME NEW e \in Shown PROVE Depth(e) \in 1 .. Height
    <3>1. e \in open /\ e \in outer[envs] BY <2>1, <2>2
    <3> QED BY <2>2, <2>4, <2>5, <3>1, Depths
  <2>7. ASSUME NEW i \in 1 .. Height PROVE \E e \in Shown : Depth(e) = i
    <3>1. i \in 1 .. Cardinality(open) BY <2>3, <2>4, FS_CardinalityType DEF Deep
    <3>2. PICK e \in open : Depth(e) = i BY <3>1 DEF Deep
    <3>3. e # envs BY <2>4, <2>5, <3>2
    <3> QED BY <2>1, <3>2, <3>3
  <2> QED BY <2>1, <2>3, <2>4, <2>6, <2>7
<1> QED BY <1>1, <1>2

LEMMA Viewed == ASSUME IInv, Deep, Long = {} PROVE View
<1>1. /\ Shown \subseteq open /\ Height \in Nat
      /\ \A e \in Shown : Depth(e) \in 1 .. Height
      /\ \A i \in 1 .. Height : \E e \in Shown : Depth(e) = i
  BY Showing
<1>2. ASSUME NEW e \in Shown PROVE IsScope(Scopes[Depth(e)], Bound(e))
  <2>1. (CHOOSE f \in Shown : Depth(f) = Depth(e)) = e
    BY <1>1, Depths
  <2>2. ScopeAt(Depth(e)) = [n \in {name[s] : s \in {s \in live : belong[s] = e}} |-> Own(e, n)]
    BY <2>1 DEF ScopeAt
  <2>3. Scopes[Depth(e)] = ScopeAt(Depth(e)) BY <1>1 DEF Scopes
  <2>4. ASSUME NEW n, NEW s, <<n, s>> \in Bound(e) PROVE Own(e, n) = s
    <3>1. \A t \in live : belong[t] = e /\ name[t] = n => t = s
      BY <2>4 DEF Bound, IInv, NoDuplicates
    <3> QED BY <2>4, <3>1 DEF Own, Bound
  <2> HIDE DEF Own
  <2>5. \A n : n \in DOMAIN Scopes[Depth(e)] <=> \E s : <<n, s>> \in Bound(e)
    BY <2>2, <2>3 DEF Bound
  <2>6. \A n, s : <<n, s>> \in Bound(e) => Scopes[Depth(e)][n] = s
    BY <2>2, <2>3, <2>4 DEF Bound
  <2>7. Scopes[Depth(e)] = [n \in DOMAIN Scopes[Depth(e)] |-> Scopes[Depth(e)][n]]
    BY <2>2, <2>3
  <2> QED BY <2>5, <2>6, <2>7 DEF IsScope
<1>3. \A e, f \in Shown : e \in outer[f] => Depth(e) < Depth(f)
  BY <1>1, Depths
<1>4. Scopes = [i \in 1 .. Height |-> Scopes[i]] BY DEF Scopes
<1> QED BY <1>1, <1>2, <1>3, <1>4 DEF View

-----------------------------------------------------------------------------
(* Deep is an invariant. *)

LEMMA InitDeep == Init => Deep
BY FS_EmptySet DEF Init, Deep

LEMMA PushDeep == ASSUME IInv, Deep, env_push PROVE Deep'
<1>1. PICK e \in Env \ open : open' = open \cup {e} /\ outer' = [outer EXCEPT ![e] = open]
  BY DEF env_push
<1>2. /\ IsFiniteSet(open') /\ Cardinality(open') = Cardinality(open) + 1
      /\ Cardinality(open) \in Nat
  BY <1>1, FS_AddElement, FS_CardinalityType DEF Deep
<1>3. \A f \in open : Depth(f)' = Depth(f)
  BY <1>1 DEF Depth, IInv, TypeOK
<1>4. Depth(e)' = Cardinality(open) + 1
  BY <1>1 DEF Depth, IInv, TypeOK
<1>5. ASSUME NEW i \in 1 .. Cardinality(open') PROVE \E f \in open' : Depth(f)' = i
  <2>1. CASE i = Cardinality(open) + 1 BY <1>1, <1>4, <2>1
  <2>2. CASE i \in 1 .. Cardinality(open) BY <1>1, <1>3, <2>2 DEF Deep
  <2> QED BY <1>2, <2>1, <2>2
<1> QED BY <1>2, <1>5 DEF Deep

LEMMA PopDeep == ASSUME IInv, Deep, PopEnv PROVE Deep'
<1>1. /\ envs # NULL /\ open' = open \ {envs} /\ outer' = [outer EXCEPT ![envs] = {}]
  BY DEF PopEnv, IInv, Loop
<1>2. envs \in open /\ open \ {envs} = outer[envs] BY <1>1, Innermost
<1>3. /\ IsFiniteSet(open') /\ Cardinality(open') = Cardinality(open) - 1
      /\ Cardinality(open) \in Nat
  BY <1>1, <1>2, FS_RemoveElement, FS_CardinalityType DEF Deep
<1>4. \A f \in open' : Depth(f)' = Depth(f)
  BY <1>1 DEF Depth, IInv, TypeOK
<1>5. Depth(envs) = Cardinality(open') + 1 BY <1>1, <1>2 DEF Depth
<1>6. ASSUME NEW i \in 1 .. Cardinality(open') PROVE \E f \in open' : Depth(f)' = i
  <2>1. PICK f \in open : Depth(f) = i BY <1>3 DEF Deep
  <2>2. f # envs BY <1>3, <1>5, <2>1
  <2> QED BY <1>1, <1>4, <2>1, <2>2
<1> QED BY <1>3, <1>6 DEF Deep

LEMMA StepDeep == IInv /\ Deep /\ [Next]_vars => Deep'
<1> SUFFICES ASSUME IInv, Deep, [Next]_vars PROVE Deep' OBVIOUS
<1>1. CASE env_push BY <1>1, PushDeep
<1>2. CASE PopEnv BY <1>2, PopDeep
<1>3. ASSUME UNCHANGED <<open, outer>> PROVE Deep'
  BY <1>3 DEF Deep, Depth
<1>4. CASE UNCHANGED vars BY <1>3, <1>4 DEF vars, stack
<1>5. CASE \E n \in Name : hash_find(n) \/ symbol_add(n)
  BY <1>3, <1>5 DEF hash_find, symbol_add, Call, stack
<1>6. CASE env_pop BY <1>3, <1>6 DEF env_pop, stack
<1>7. CASE Follow \/ Found \/ Redefined \/ Insert \/ PopSymbol
  BY <1>3, <1>7 DEF Follow, Found, Redefined, Insert, PopSymbol, stack
<1> QED BY <1>1, <1>2, <1>4, <1>5, <1>6, <1>7 DEF Next, Step

(* What a step does to the scopes follows from what it does to the         *)
(* environments that are shown and to what they bind.                      *)
LEMMA ScopeSame ==
  ASSUME NEW f, NEW h, NEW B, IsScope(f, B), IsScope(h, B) PROVE f = h
BY DEF IsScope

LEMMA Stutters ==
  ASSUME View, View', Shown' = Shown,
         \A e \in Shown : Depth(e)' = Depth(e) /\ Bound(e)' = Bound(e)
  PROVE  Scopes' = Scopes
<1>1. Height' = Height BY DEF Height
<1>2. ASSUME NEW i \in 1 .. Height PROVE Scopes'[i] = Scopes[i]
  <2>1. PICK e \in Shown : Depth(e) = i BY DEF View
  <2>2. IsScope(Scopes[i], Bound(e)) BY <2>1 DEF View
  <2>3. IsScope(Scopes'[i], Bound(e)) BY <2>1 DEF View
  <2> QED BY <2>2, <2>3, ScopeSame
<1>3. Scopes = [i \in 1 .. Height |-> Scopes[i]] BY DEF View
<1>4. Scopes' = [i \in 1 .. Height |-> Scopes'[i]] BY <1>1 DEF View
<1> QED BY <1>2, <1>3, <1>4

(* hash_find() looks the identifier up from the innermost scope on. *)
LEMMA FindsScope ==
  ASSUME IInv, View, FindsInnermost, Long = {}, pc \in {"find", "add"}, Done
  PROVE  Scoped!Declaration(want, cur)
<1> USE DEF Scopes
<1>1. ASSUME cur = NULL PROVE \A i \in 1 .. Height : want \notin DOMAIN Scopes[i]
  <2>1. Declared(want) = {} BY <1>1 DEF FindsInnermost
  <2> SUFFICES ASSUME NEW i \in 1 .. Height PROVE want \notin DOMAIN Scopes[i] OBVIOUS
  <2>2. PICK e \in Shown : Depth(e) = i BY DEF View
  <2>3. IsScope(Scopes[i], Bound(e)) BY <2>2 DEF View
  <2>4. \A s : <<want, s>> \notin Bound(e) BY <2>1 DEF Bound, Declared
  <2> QED BY <2>3, <2>4 DEF IsScope
<1>2. ASSUME cur # NULL
      PROVE  \E i \in 1 .. Height :
                /\ want \in DOMAIN Scopes[i] /\ Scopes[i][want] = cur
                /\ \A j \in 1 .. Height : j > i => want \notin DOMAIN Scopes[j]
  <2> DEFINE c == belong[cur]  i == Depth(c)
  <2>1. /\ cur \in live /\ name[cur] = want
        /\ \A s \in live : name[s] = want => s = cur \/ belong[s] \in outer[c]
    BY <1>2 DEF FindsInnermost, Declared
  <2>2. c \in Shown BY <2>1 DEF IInv, Nested, Shown
  <2>3. i \in 1 .. Height /\ IsScope(Scopes[i], Bound(c)) BY <2>2 DEF View
  <2>4. <<want, cur>> \in Bound(c) BY <2>1 DEF Bound
  <2>5. ASSUME NEW j \in 1 .. Height, j > i, want \in DOMAIN Scopes[j] PROVE FALSE
    <3>1. PICK e \in Shown : Depth(e) = j BY DEF View
    <3>2. IsScope(Scopes[j], Bound(e)) BY <3>1 DEF View
    <3>3. PICK s : <<want, s>> \in Bound(e) BY <2>5, <3>2 DEF IsScope
    <3>4. s \in live /\ belong[s] = e /\ name[s] = want BY <3>3 DEF Bound
    <3>5. e = c \/ e \in outer[c] BY <2>1, <3>4
    <3>6. Depth(e) <= i BY <2>2, <2>3, <3>1, <3>5 DEF View
    <3> QED BY <2>3, <2>5, <3>1, <3>6
  <2> QED BY <2>3, <2>4, <2>5 DEF IsScope
<1>3. DOMAIN [i \in 1 .. Height |-> ScopeAt(i)] = 1 .. Height OBVIOUS
<1> QED BY <1>1, <1>2, <1>3 DEF Scoped!Declaration, Height

LEMMA ScopesLen == ASSUME View PROVE DOMAIN Scopes = 1 .. Height /\ Len(Scopes) = Height
<1>1. Scopes = [i \in 1 .. Height |-> Scopes[i]] /\ Height \in Nat BY DEF View
<1>2. Scopes \in Seq({Scopes[i] : i \in 1 .. Height}) BY <1>1
<1> QED BY <1>1, <1>2

(* The innermost environment is the last scope, unless it is being popped. *)
LEMMA InnerScope ==
  ASSUME IInv, View, pc # "pop", envs # NULL
  PROVE  /\ Shown = open /\ envs \in open /\ Depth(envs) = Height /\ Height >= 1
         /\ Scopes # <<>> /\ Scoped!Inner = Scopes[Height]
         /\ IsScope(Scopes[Height], Bound(envs))
<1>1. envs \in open /\ Shown = open BY Innermost DEF Shown
<1>2. \A f \in open : f # envs => f \in outer[envs] BY Innermost
<1>3. Depth(envs) \in 1 .. Height /\ Height \in Nat BY <1>1 DEF View
<1>4. PICK e \in Shown : Depth(e) = Height BY <1>3 DEF View
<1>5. e = envs BY <1>1, <1>2, <1>3, <1>4 DEF View
<1>6. DOMAIN Scopes = 1 .. Height /\ Len(Scopes) = Height BY ScopesLen
<1>7. Scopes # <<>> BY <1>3, <1>6
<1>8. Scoped!Inner = Scopes[Height] BY <1>6 DEF Scoped!Inner, Scopes, Height
<1>9. IsScope(Scopes[Height], Bound(envs)) BY <1>1, <1>4, <1>5 DEF View
<1> QED BY <1>1, <1>3, <1>4, <1>5, <1>7, <1>8, <1>9

LEMMA RefusesScope ==
  ASSUME IInv, View, View', Redefined
  PROVE  Scoped!Refuse(want)
<1>1. /\ cur \in live /\ name[cur] = want /\ belong[cur] = envs /\ ret' = NULL
      /\ pc = "add" /\ pc' = "idle" /\ envs # NULL /\ UNCHANGED <<heap, stack>>
  BY DEF Redefined, Done, Return, IInv, Loop
<1>2. Scopes' = Scopes
  BY <1>1, Stutters DEF Shown, Depth, Bound, heap, stack
<1>3. Scopes # <<>> /\ Scoped!Inner = Scopes[Height] /\ IsScope(Scopes[Height], Bound(envs))
  BY <1>1, InnerScope
<1>4. want \in DOMAIN Scopes[Height]
  BY <1>1, <1>3 DEF IsScope, Bound
<1> QED BY <1>1, <1>2, <1>3, <1>4 DEF Scoped!Refuse, Scopes, Height

LEMMA LooksUpScope ==
  ASSUME IInv, View, View', FindsInnermost, Long = {}, Found
  PROVE  want \in Name /\ Scoped!Lookup(want)
<1>1. /\ pc = "find" /\ pc' = "idle" /\ Done /\ ret' = cur /\ UNCHANGED <<heap, stack>>
      /\ want \in Name /\ cur \in Sym \cup {NULL}
  BY DEF Found, Return, IInv, Loop, TypeOK
<1>2. Scopes' = Scopes
  BY <1>1, Stutters DEF Shown, Depth, Bound, heap, stack
<1>3. Scoped!Declaration(want, cur) BY <1>1, FindsScope
<1> QED BY <1>1, <1>2, <1>3 DEF Scoped!Lookup, Scopes, Height

LEMMA EntersScope == ASSUME IInv, Deep, View, View', env_push PROVE Scoped!Enter
<1>1. PICK e \in Env \ open :
        /\ pc = "idle" /\ open' = open \cup {e} /\ outer' = [outer EXCEPT ![e] = open]
        /\ UNCHANGED <<heap, call>>
  BY DEF env_push
<1>2. Shown = open /\ Shown' = open \cup {e} BY <1>1 DEF Shown, call
<1>3. Height \in Nat /\ Height' = Height + 1
  BY <1>1, <1>2, FS_AddElement, FS_CardinalityType DEF Height, Deep
<1>4. \A f \in open : Depth(f)' = Depth(f) /\ Bound(f)' = Bound(f)
  BY <1>1 DEF Depth, Bound, IInv, TypeOK, heap
<1>5. Depth(e)' = Height + 1 /\ Bound(e)' = {}
  BY <1>1, <1>2 DEF Depth, Bound, IInv, TypeOK, Nested, heap, Height
<1>6. ASSUME NEW i \in 1 .. Height PROVE Scopes'[i] = Scopes[i]
  <2>1. PICK f \in Shown : Depth(f) = i BY DEF View
  <2>2. IsScope(Scopes[i], Bound(f)) BY <2>1 DEF View
  <2>3. IsScope(Scopes'[i], Bound(f)) BY <1>2, <1>4, <2>1 DEF View
  <2> QED BY <2>2, <2>3, ScopeSame
<1>7. Scopes'[Height + 1] = [m \in {} |-> NULL]
  <2>1. IsScope(Scopes'[Height + 1], {}) BY <1>2, <1>5 DEF View
  <2> QED BY <2>1 DEF IsScope
<1>8. Scopes \in Seq({Scopes[i] : i \in 1 .. Height}) /\ Len(Scopes) = Height
  BY ScopesLen DEF View
<1>9. Scopes' = [i \in 1 .. Height + 1 |-> Scopes'[i]] BY <1>3 DEF View
<1>10. Scopes' = Append(Scopes, [m \in {} |-> NULL])
  BY <1>3, <1>6, <1>7, <1>8, <1>9
<1> QED BY <1>1, <1>10 DEF Scoped!Enter, Scopes, Height, call

LEMMA LeavesScope == ASSUME IInv, Deep, View, View', env_pop PROVE Scoped!Leave
<1>1. /\ pc = "idle" /\ envs # NULL /\ pc' = "pop" /\ UNCHANGED <<heap, stack, ret>>
  BY DEF env_pop
<1>2. Shown = open /\ Shown' = open \ {envs} /\ envs \in open
  BY <1>1, Innermost DEF Shown, stack
<1>3. Height \in Nat /\ Height' = Height - 1 /\ Height >= 1 /\ Scopes # <<>>
  BY <1>1, <1>2, InnerScope, FS_RemoveElement, FS_CardinalityType DEF Height, Deep
<1>4. \A f : Depth(f)' = Depth(f) /\ Bound(f)' = Bound(f)
  BY <1>1 DEF Depth, Bound, heap, stack
<1>5. ASSUME NEW i \in 1 .. Height - 1 PROVE Scopes'[i] = Scopes[i]
  <2>1. i \in 1 .. Height' BY <1>3
  <2>2. PICK f \in Shown' : Depth(f)' = i BY <2>1 DEF View
  <2>3. f \in Shown /\ Depth(f) = i BY <1>2, <1>4, <2>2
  <2>4. IsScope(Scopes[i], Bound(f)) BY <2>3 DEF View
  <2>5. IsScope(Scopes'[i], Bound(f)) BY <1>4, <2>2 DEF View
  <2> QED BY <2>4, <2>5, ScopeSame
<1>6. Scopes \in Seq({Scopes[i] : i \in 1 .. Height}) /\ Len(Scopes) = Height
  BY ScopesLen DEF View
<1>7. Scopes' = [i \in 1 .. Height - 1 |-> Scopes'[i]] BY <1>3 DEF View
<1>8. Scopes' = SubSeq(Scopes, 1, Len(Scopes) - 1)
  BY <1>3, <1>5, <1>6, <1>7
<1> QED BY <1>1, <1>3, <1>8 DEF Scoped!Leave, Scopes, Height

LEMMA DeclaresScope ==
  ASSUME IInv, View, View', FindsInnermost, Long = {}, Insert
  PROVE  want \in Name /\ \E s \in Sym : Scoped!Declare(want, s)
<1>1. PICK s \in Sym \ live :
        /\ name' = [name EXCEPT ![s] = want] /\ belong' = [belong EXCEPT ![s] = envs]
        /\ live' = live \cup {s} /\ ret' = s
  BY DEF Insert, Return
<1>2. /\ pc = "add" /\ pc' = "idle" /\ Done /\ envs # NULL /\ want \in Name
      /\ (cur # NULL => belong[cur] # envs) /\ UNCHANGED <<envs, open, outer>>
  BY DEF Insert, Return, IInv, Loop
<1>3. /\ Shown = open /\ envs \in open /\ Depth(envs) = Height /\ Height >= 1
      /\ Scopes # <<>> /\ Scoped!Inner = Scopes[Height]
      /\ IsScope(Scopes[Height], Bound(envs))
  BY <1>2, InnerScope
<1>4. Shown' = Shown /\ Height' = Height /\ \A e : Depth(e)' = Depth(e)
  BY <1>2 DEF Shown, Height, Depth
<1>5. ASSUME NEW e \in open PROVE Bound(e)' = IF e = envs THEN Bound(e) \cup {<<want, s>>} ELSE Bound(e)
  <2>1. \A t \in live : name'[t] = name[t] /\ belong'[t] = belong[t]
    BY <1>1 DEF IInv, TypeOK
  <2>2. name'[s] = want /\ belong'[s] = envs
    BY <1>1 DEF IInv, TypeOK
  <2> QED BY <1>1, <2>1, <2>2 DEF Bound
<1>6. want \notin DOMAIN Scopes[Height]
  <2> SUFFICES ASSUME want \in DOMAIN Scopes[Height] PROVE FALSE OBVIOUS
  <2>1. PICK t : <<want, t>> \in Bound(envs) BY <1>3 DEF IsScope
  <2>2. t \in Declared(want) /\ belong[t] = envs BY <2>1 DEF Bound, Declared
  <2>3. cur # NULL /\ cur \in live /\ belong[t] \in outer[belong[cur]]
    BY <1>2, <2>2 DEF FindsInnermost, Declared
  <2>4. belong[cur] \in open BY <2>3 DEF IInv, Nested
  <2> QED BY <1>2, <2>2, <2>3, <2>4, Innermost
<1>7. ASSUME NEW i \in 1 .. Height, NEW m \in DOMAIN Scopes[i] PROVE Scopes[i][m] # s
  <2>1. PICK e \in Shown : Depth(e) = i BY DEF View
  <2>2. IsScope(Scopes[i], Bound(e)) BY <2>1 DEF View
  <2>3. PICK t : <<m, t>> \in Bound(e) /\ Scopes[i][m] = t BY <2>2 DEF IsScope
  <2> QED BY <1>1, <2>3 DEF Bound
<1>8. ASSUME NEW i \in 1 .. Height, i # Height PROVE Scopes'[i] = Scopes[i]
  <2>1. PICK e \in Shown : Depth(e) = i BY DEF View
  <2>2. IsScope(Scopes[i], Bound(e)) /\ e # envs BY <1>3, <1>8, <2>1 DEF View
  <2>3. IsScope(Scopes'[i], Bound(e)) BY <1>3, <1>4, <1>5, <2>1, <2>2 DEF View
  <2> QED BY <2>2, <2>3, ScopeSame
<1> DEFINE new == [m \in DOMAIN Scopes[Height] \cup {want} |->
                      IF m = want THEN s ELSE Scopes[Height][m]]
<1>9. Scopes'[Height] = new
  <2>1. IsScope(Scopes'[Height], Bound(envs) \cup {<<want, s>>})
    BY <1>3, <1>4, <1>5 DEF View
  <2>2. IsScope(new, Bound(envs) \cup {<<want, s>>})
    <3>1. \A n : n \in DOMAIN new <=> \E t : <<n, t>> \in Bound(envs) \cup {<<want, s>>}
      BY <1>3 DEF IsScope
    <3>2. \A t : <<want, t>> \notin Bound(envs) BY <1>3, <1>6 DEF IsScope
    <3>3. ASSUME NEW n, NEW t, <<n, t>> \in Bound(envs) \cup {<<want, s>>} PROVE new[n] = t
      BY <1>3, <3>2, <3>3 DEF IsScope
    <3>4. new = [n \in DOMAIN new |-> new[n]] OBVIOUS
    <3> HIDE DEF new
    <3> QED BY <3>1, <3>3, <3>4 DEF IsScope
  <2> HIDE DEF new
  <2> QED BY <2>1, <2>2, ScopeSame
<1> HIDE DEF new
<1>10. Scopes = [i \in 1 .. Height |-> Scopes[i]] /\ Scopes' = [i \in 1 .. Height |-> Scopes'[i]]
  BY <1>4 DEF View
<1>11. Scopes' = [Scopes EXCEPT ![Len(Scopes)] = new]
  BY <1>3, <1>8, <1>9, <1>10, ScopesLen
<1>12. \A i \in DOMAIN Scopes : \A m \in DOMAIN Scopes[i] : Scopes[i][m] # s
  BY <1>7, ScopesLen
<1>13. new = [m \in DOMAIN Scoped!Inner \cup {want} |->
                 IF m = want THEN s ELSE Scoped!Inner[m]]
  BY <1>3 DEF new
<1>14. want \notin DOMAIN Scoped!Inner /\ ret' = s /\ Scopes # <<>>
  BY <1>1, <1>3, <1>6
<1>15. Scoped!Declare(want, s)
  BY <1>11, <1>12, <1>13, <1>14 DEF Scoped!Declare, Scopes, Height
<1> QED BY <1>1, <1>2, <1>15

-----------------------------------------------------------------------------

LEMMA InitScope == Init => Scoped!Init
<1> SUFFICES ASSUME Init PROVE Scoped!Init OBVIOUS
<1>1. Shown = {} /\ ret = NULL BY DEF Init, Shown
<1>2. Cardinality(Shown) = 0 BY <1>1, FS_EmptySet
<1>3. [i \in 1 .. Cardinality(Shown) |-> ScopeAt(i)] = <<>>
  <2>1. 1 .. Cardinality(Shown) = {} BY <1>2
  <2> QED BY <2>1
<1> QED BY <1>1, <1>3 DEF Scoped!Init

LEMMA StepScope ==
  ASSUME Long = {}, IInv, Deep, View, View', FindsInnermost, [Next]_vars
  PROVE  Scoped!Next \/ UNCHANGED <<Scopes, ret>>
<1>1. ASSUME UNCHANGED <<heap, stack, ret>>, pc = "pop" <=> pc' = "pop"
      PROVE  UNCHANGED <<Scopes, ret>>
  BY <1>1, Stutters DEF Shown, Depth, Bound, heap, stack
<1>2. CASE UNCHANGED vars BY <1>1, <1>2 DEF vars, call
<1>3. CASE \E n \in Name : hash_find(n) \/ symbol_add(n)
  BY <1>1, <1>3 DEF hash_find, symbol_add, Call
<1>4. CASE Follow BY <1>1, <1>4 DEF Follow
<1>5. CASE env_push BY <1>5, EntersScope DEF Scoped!Next
<1>6. CASE env_pop BY <1>6, LeavesScope DEF Scoped!Next
<1>7. CASE Found BY <1>7, LooksUpScope DEF Scoped!Next
<1>8. CASE Redefined
  BY <1>8, RefusesScope DEF Scoped!Next, Redefined, IInv, Loop
<1>9. CASE Insert BY <1>9, DeclaresScope DEF Scoped!Next
<1>10. CASE PopSymbol
  <2>1. /\ pc = "pop" /\ envs # NULL /\ env_sym[envs] # NULL
        /\ live' = live \ {env_sym[envs]}
        /\ name' = [name EXCEPT ![env_sym[envs]] = NULL]
        /\ belong' = [belong EXCEPT ![env_sym[envs]] = NULL]
        /\ UNCHANGED <<envs, open, outer, call>>
    BY <1>10 DEF PopSymbol, IInv, Loop
  <2>2. env_sym[envs] \in live /\ belong[env_sym[envs]] = envs BY <2>1, YoungestOfAll
  <2>3. Shown' = Shown /\ envs \notin Shown /\ \A e : Depth(e)' = Depth(e)
    BY <2>1 DEF Shown, Depth, call
  <2>4. ASSUME NEW e \in Shown PROVE Bound(e)' = Bound(e)
    BY <2>1, <2>2, <2>3 DEF Bound, IInv, TypeOK
  <2> QED BY <2>1, <2>3, <2>4, Stutters DEF call
<1>11. CASE PopEnv
  <2>1. /\ pc = "pop" /\ pc' = "idle" /\ open' = open \ {envs} /\ ret' = ret
        /\ outer' = [outer EXCEPT ![envs] = {}] /\ UNCHANGED heap
    BY <1>11 DEF PopEnv, Return
  <2>2. Shown' = Shown /\ envs \notin Shown BY <2>1 DEF Shown
  <2>3. \A e \in Shown : Depth(e)' = Depth(e) /\ Bound(e)' = Bound(e)
    BY <2>1, <2>2 DEF Depth, Bound, Shown, IInv, TypeOK, heap
  <2> QED BY <2>1, <2>2, <2>3, Stutters
<1> QED BY <1>2, <1>3, <1>4, <1>5, <1>6, <1>7, <1>8, <1>9, <1>10, <1>11 DEF Next, Step

(* As long as no identifier is long, every lookup, declaration, push and   *)
(* pop is one of a stack of scopes, whatever the hash function puts into   *)
(* one bucket and whatever addresses malloc() hands out again; the walks   *)
(* down the chains and the frees are steps that the clients do not see.    *)
THEOREM TableImplements == ASSUME Long = {} PROVE Spec => Implements
<1>1. IInv => FindsInnermost BY Finds
<1>2. IInv /\ Deep => View BY Viewed
<1>3. Init => Deep /\ IInv /\ Scoped!Init BY InitInv, InitDeep, InitScope
<1>4. IInv /\ Deep /\ View /\ View' /\ FindsInnermost /\ [Next]_vars
      => [Scoped!Next]_<<Scopes, ret>>
  BY StepScope
<1> QED
  BY <1>1, <1>2, <1>3, <1>4, StepInv, StepDeep, PTL DEF Spec, Implements, Scoped!Spec, Scopes, Height
=============================================================================
