--------------------------- MODULE KeyPoolProofs ---------------------------
(***************************************************************************)
(* The theorems about KeyPool, for any tokens and any number of keys.      *)
(***************************************************************************)
EXTENDS KeyPool, FiniteSetTheorems, TLAPS

\* The reference count counts the keys that hold the pool, and there is a pool while it
\* counts any; a key that holds one has a token.
Counted ==
    /\ \A t \in Tokens : /\ refs[t] = Cardinality(Holders(t))
                         /\ t \in pools <=> Holders(t) # {}
    /\ \A h \in Handles : state[h] \in {"looking", "open", "closed"} => token[h] \in Tokens

LEMMA HoldersFinite ==
    \A t : IsFiniteSet(Holders(t)) /\ Cardinality(Holders(t)) \in Nat
  BY HandlesAssumption, FS_Subset, FS_CardinalityType DEF Holders

\* A key takes a pool.
LEMMA AcquireCounts ==
    ASSUME TypeOK, Counted, NEW t \in Tokens, NEW h \in Handles, h \notin Holders(t),
           Acquire(t), Holders(t)' = Holders(t) \cup {h},
           \A u \in Tokens \ {t} : Holders(u)' = Holders(u)
    PROVE  /\ pools' \subseteq Tokens /\ refs' \in [Tokens -> Nat]
           /\ \A u \in Tokens : /\ refs'[u] = Cardinality(Holders(u)')
                                /\ u \in pools' <=> Holders(u)' # {}
<1>1. Cardinality(Holders(t)') = Cardinality(Holders(t)) + 1
    BY HoldersFinite, FS_AddElement
<1>2. refs'[t] = refs[t] + 1
  <2>1. CASE t \in pools
      BY <2>1 DEF Acquire, TypeOK
  <2>2. CASE t \notin pools
    <3>1. refs[t] = 0
        BY <2>2, FS_EmptySet DEF Counted
    <3> QED
        BY <2>2, <3>1 DEF Acquire, TypeOK
  <2> QED
      BY <2>1, <2>2
<1>3. refs[t] \in Nat /\ refs' \in [Tokens -> Nat] /\ pools' \subseteq Tokens
    BY DEF Acquire, TypeOK
<1>4. refs'[t] = Cardinality(Holders(t)') /\ t \in pools' /\ Holders(t)' # {}
    BY <1>1, <1>2 DEF Acquire, Counted
<1>5. \A u \in Tokens \ {t} : refs'[u] = refs[u] /\ (u \in pools' <=> u \in pools)
    BY DEF Acquire, TypeOK
<1> QED
    BY <1>3, <1>4, <1>5 DEF Counted

\* A key gives its pool back.
LEMMA ReleaseCounts ==
    ASSUME TypeOK, Counted, NEW t \in Tokens, NEW h \in Handles, h \in Holders(t),
           Release(t), Holders(t)' = Holders(t) \ {h},
           \A u \in Tokens \ {t} : Holders(u)' = Holders(u)
    PROVE  /\ pools' \subseteq Tokens /\ refs' \in [Tokens -> Nat]
           /\ \A u \in Tokens : /\ refs'[u] = Cardinality(Holders(u)')
                                /\ u \in pools' <=> Holders(u)' # {}
<1>1. /\ Cardinality(Holders(t)') = Cardinality(Holders(t)) - 1
      /\ IsFiniteSet(Holders(t) \ {h})
    BY HoldersFinite, FS_RemoveElement
<1>2. t \in pools /\ refs[t] = Cardinality(Holders(t)) /\ refs[t] \in Nat
    BY DEF Counted, TypeOK
<1>3. refs[t] # 0
    BY <1>2, HoldersFinite, FS_EmptySet
<1>4. /\ refs' = [refs EXCEPT ![t] = @ - 1]
      /\ pools' = IF refs[t] > 1 THEN pools ELSE pools \ {t}
    BY <1>2 DEF Release
<1>5. refs' \in [Tokens -> Nat] /\ pools' \subseteq Tokens /\ refs'[t] = Cardinality(Holders(t)')
    BY <1>1, <1>2, <1>3, <1>4 DEF TypeOK
<1>6. Holders(t)' = {} <=> Cardinality(Holders(t)') = 0
    BY <1>1, FS_EmptySet
<1>7. t \in pools' <=> Holders(t)' # {}
    BY <1>1, <1>2, <1>3, <1>4, <1>6
<1>8. \A u \in Tokens \ {t} : refs'[u] = refs[u] /\ (u \in pools' <=> u \in pools)
    BY <1>4 DEF TypeOK
<1> QED
    BY <1>5, <1>7, <1>8 DEF Counted

LEMMA CountedInit == Init => TypeOK /\ Counted
<1> SUFFICES ASSUME Init PROVE TypeOK /\ Counted
    OBVIOUS
<1>1. \A t : Holders(t) = {}
    BY DEF Init, Holders
<1>2. TypeOK
    BY DEF Init, TypeOK
<1> QED
    BY <1>1, <1>2, FS_EmptySet DEF Init, Counted

LEMMA CountedStep == TypeOK /\ Counted /\ [Next]_vars => (TypeOK /\ Counted)'
<1> SUFFICES ASSUME TypeOK, Counted, [Next]_vars PROVE (TypeOK /\ Counted)'
    OBVIOUS
<1>1. ASSUME NEW h \in Handles, NEW t \in Tokens, Resolve(h, t)
      PROVE  (TypeOK /\ Counted)'
  <2>1. /\ Acquire(t) /\ state[h] \in {"unused", "closed", "failed"}
        /\ token' = [token EXCEPT ![h] = t] /\ state' = [state EXCEPT ![h] = "looking"]
      BY <1>1 DEF Resolve
  <2>2. h \notin Holders(t) /\ Holders(t)' = Holders(t) \cup {h}
      BY <2>1 DEF Holders, TypeOK
  <2>3. \A u \in Tokens \ {t} : Holders(u)' = Holders(u)
      BY <2>1 DEF Holders, TypeOK
  <2>4. /\ token' \in [Handles -> Tokens \cup {NoToken}]
        /\ state' \in [Handles -> {"unused", "looking", "open", "closed", "failed"}]
        /\ \A k \in Handles : state'[k] \in {"looking", "open", "closed"} => token'[k] \in Tokens
      BY <2>1 DEF TypeOK, Counted
  <2> QED
      BY <2>1, <2>2, <2>3, <2>4, AcquireCounts DEF TypeOK, Counted
<1>2. ASSUME NEW h \in Handles, state[h] \in {"looking", "open"}, Release(token[h]),
             token' = token, NEW s \in {"closed", "failed"}, state' = [state EXCEPT ![h] = s]
      PROVE  (TypeOK /\ Counted)'
  <2>1. token[h] \in Tokens /\ h \in Holders(token[h])
      BY <1>2 DEF Counted, Holders
  <2>2. Holders(token[h])' = Holders(token[h]) \ {h}
      BY <1>2 DEF Holders, TypeOK
  <2>3. \A u \in Tokens \ {token[h]} : Holders(u)' = Holders(u)
      BY <1>2 DEF Holders, TypeOK
  <2>4. /\ token' \in [Handles -> Tokens \cup {NoToken}]
        /\ state' \in [Handles -> {"unused", "looking", "open", "closed", "failed"}]
        /\ \A k \in Handles : state'[k] \in {"looking", "open", "closed"} => token'[k] \in Tokens
      BY <1>2, <2>1 DEF TypeOK, Counted
  <2> DEFINE t == token[h]
  <2>5. t \in Tokens /\ h \in Holders(t) /\ Release(t) /\ Holders(t)' = Holders(t) \ {h}
      BY <1>2, <2>1, <2>2
  <2> QED
      BY <1>2, <2>1, <2>2, <2>3, <2>4, ReleaseCounts DEF TypeOK, Counted
<1>3. ASSUME NEW h \in Handles, Found(h) PROVE (TypeOK /\ Counted)'
  <2>1. \A t : Holders(t)' = Holders(t)
      BY <1>3 DEF Found, Holders, TypeOK
  <2> QED
      BY <1>3, <2>1 DEF Found, TypeOK, Counted
<1>4. ASSUME NEW h \in Handles, NotFound(h) PROVE (TypeOK /\ Counted)'
    BY <1>2, <1>4 DEF NotFound
<1>5. ASSUME NEW h \in Handles, Close(h) PROVE (TypeOK /\ Counted)'
  <2>1. CASE state[h] = "open"
      BY <1>2, <1>5, <2>1 DEF Close
  <2>2. CASE state[h] # "open"
    <3>1. UNCHANGED <<pools, refs, token>> /\ state' = state
        BY <1>5, <2>2 DEF Close, TypeOK
    <3> QED
        BY <3>1 DEF TypeOK, Counted, Holders
  <2> QED
      BY <2>1, <2>2
<1>6. CASE UNCHANGED vars
    BY <1>6 DEF vars, TypeOK, Counted, Holders
<1> QED
    BY <1>1, <1>3, <1>4, <1>5, <1>6 DEF Next

\* Every variable keeps its type: no reference count ever falls below zero.
THEOREM TypeCorrect == Spec => []TypeOK
  BY CountedInit, CountedStep, PTL DEF Spec

LEMMA PoolsCounted == Spec => [](TypeOK /\ Counted)
  BY CountedInit, CountedStep, PTL DEF Spec

\* Whatever is resolved, not found, closed or closed twice, in any order, an open key has
\* its pool...
THEOREM OpenKeysHavePools == Spec => []OpenKeysWork
<1>1. TypeOK /\ Counted => OpenKeysWork
    BY DEF TypeOK, Counted, OpenKeysWork
<1> QED
    BY <1>1, PoolsCounted, PTL

\* ...and a pool that is open is in use.
THEOREM PoolsAreThoseInUse == Spec => []NothingLeaks
<1>1. TypeOK /\ Counted => NothingLeaks
    BY DEF TypeOK, Counted, NothingLeaks
<1> QED
    BY <1>1, PoolsCounted, PTL
=============================================================================
