------------------------- MODULE SchemaCacheProofs -------------------------
(***************************************************************************)
(* Proofs about SchemaCache: for any number of threads, of descriptors, of *)
(* names and of calls, and any bound of the cache.                         *)
(***************************************************************************)
EXTENDS SchemaCache, FiniteSetTheorems, TLAPS

SchemasOK ==
  /\ DOMAIN schemas \subseteq Keys
  /\ \A k \in DOMAIN schemas :
       /\ DOMAIN schemas[k] \subseteq Names
       /\ schemas[k] \in [DOMAIN schemas[k] -> Nat]

\* Storing a schema adds its kind to the cache and touches no other.
LEMMA InsertEffect ==
  ASSUME SchemasOK, NEW e \in Kinds, NEW s \in Nat, Insert(e, s)
  PROVE  /\ SchemasOK'
         /\ Cached' = Cached \cup {e}
         /\ IsCached(e)' /\ SchemaFor(e)' = s
         /\ \A f \in Cached : f # e => IsCached(f)' /\ SchemaFor(f)' = SchemaFor(f)
<1> DEFINE old == IF e[1] \in DOMAIN schemas THEN schemas[e[1]] ELSE <<>>
           new == With(old, e[2], s)
<1>1. e \in Keys \X Names /\ e[1] \in Keys /\ e[2] \in Names /\ e = <<e[1], e[2]>>
  BY DEF Kinds
<1>2. schemas' = With(schemas, e[1], new)
  BY DEF Insert
<1>3. /\ DOMAIN schemas' = DOMAIN schemas \cup {e[1]}
      /\ schemas'[e[1]] = new
      /\ \A k \in DOMAIN schemas : k # e[1] => schemas'[k] = schemas[k]
  <2> HIDE DEF new
  <2> QED BY <1>2 DEF With
<1>4. DOMAIN old \subseteq Names /\ \A n \in DOMAIN old : old[n] \in Nat
  BY DEF SchemasOK
<1>5. /\ DOMAIN new = DOMAIN old \cup {e[2]}
      /\ new[e[2]] = s
      /\ \A n \in DOMAIN old : n # e[2] => new[n] = old[n]
  <2> HIDE DEF old
  <2> QED BY DEF With, new
<1>6. new \in [DOMAIN new -> Nat]
  <2>1. new = [n \in DOMAIN old \cup {e[2]} |-> IF n = e[2] THEN s ELSE old[n]]
    BY DEF With
  <2> HIDE DEF old, new
  <2> QED BY <2>1, <1>4, <1>5
<1>7. SchemasOK'
  <2> HIDE DEF old, new
  <2> QED BY <1>1, <1>3, <1>4, <1>5, <1>6 DEF SchemasOK
<1>8. \A f \in Keys \X Names :
        /\ IsCached(f)' <=> IsCached(f) \/ f = e
        /\ IsCached(f) /\ f # e => SchemaFor(f)' = SchemaFor(f)
  <2> TAKE f \in Keys \X Names
  <2>1. CASE f[1] # e[1]
    BY <2>1, <1>3 DEF IsCached, SchemaFor
  <2>2. CASE f[1] = e[1]
    <3>1. f = e <=> f[2] = e[2]
      BY <1>1, <2>2
    <3>2. IsCached(f) <=> f[2] \in DOMAIN old
      BY <2>2 DEF IsCached
    <3>3. IsCached(f)' <=> f[2] \in DOMAIN new
      BY <2>2, <1>3 DEF IsCached
    <3>4. SchemaFor(f)' = new[f[2]] /\ (IsCached(f) => SchemaFor(f) = old[f[2]])
      BY <2>2, <1>3 DEF IsCached, SchemaFor
    <3> HIDE DEF old, new
    <3> QED BY <3>1, <3>2, <3>3, <3>4, <1>5
  <2> QED BY <2>1, <2>2
<1>9. SchemaFor(e)' = s /\ IsCached(e)'
  <2> HIDE DEF old, new
  <2> QED BY <1>3, <1>5 DEF SchemaFor, IsCached
<1> QED BY <1>1, <1>7, <1>8, <1>9 DEF Cached

\* A full cache takes the key, and nothing else.
LEMMA FullEffect ==
  ASSUME SchemasOK, NEW k \in Keys,
         schemas' = With(schemas, k, IF k \in DOMAIN schemas THEN schemas[k] ELSE <<>>)
  PROVE  /\ SchemasOK'
         /\ Cached' = Cached
         /\ \A f \in Cached : SchemaFor(f)' = SchemaFor(f)
<1> DEFINE old == IF k \in DOMAIN schemas THEN schemas[k] ELSE <<>>
<1>1. /\ DOMAIN schemas' = DOMAIN schemas \cup {k}
      /\ schemas'[k] = old
      /\ \A j \in DOMAIN schemas : j # k => schemas'[j] = schemas[j]
  <2> HIDE DEF old
  <2>1. schemas' = With(schemas, k, old)
    BY DEF old
  <2> QED BY <2>1 DEF With
<1>2. k \notin DOMAIN schemas => DOMAIN old = {} /\ old \in [{} -> Nat]
  OBVIOUS
<1>3. \A j \in DOMAIN schemas : schemas'[j] = schemas[j]
  BY <1>1
<1>4. SchemasOK'
  BY <1>1, <1>2, <1>3 DEF SchemasOK
<1>5. \A f \in Keys \X Names : IsCached(f)' <=> IsCached(f)
  BY <1>1, <1>2, <1>3 DEF IsCached
<1> QED BY <1>3, <1>4, <1>5 DEF Cached, IsCached, SchemaFor
-----------------------------------------------------------------------------
(* The inductive invariant *)

LEMMA InvariantInit == Init => IInv
<1> SUFFICES ASSUME Init PROVE IInv
  OBVIOUS
<1>1. Cached = {}
  BY DEF Init, Cached, IsCached
<1>2. DOMAIN schemas = {} /\ len = 0 /\ answers = {}
  BY DEF Init
<1>3. TypeOK
  BY <1>2, BoundsAssumption, SMT DEF Init, TypeOK, BoundsAssumption, Kinds
<1>4. LenIsSum /\ IsFiniteSet(Cached)
  BY <1>1, <1>2, FS_EmptySet, BoundsAssumption DEF LenIsSum, BoundsAssumption
<1>5. InHand
  BY DEF Init, InHand
<1> QED BY <1>1, <1>2, <1>3, <1>4, <1>5 DEF IInv, CachedFit, AnswersFit, AnswersShare

\* Nothing but Store touches the cache.
LEMMA CacheUnchanged ==
  ASSUME UNCHANGED cache
  PROVE  /\ Cached' = Cached
         /\ \A e : (IsCached(e)' <=> IsCached(e)) /\ SchemaFor(e)' = SchemaFor(e)
BY DEF cache, Cached, IsCached, SchemaFor

LEMMA CallStep == ASSUME IInv, NEW t \in Threads, Call(t) PROVE IInv'
<1> USE DEF IInv
<1>1. UNCHANGED cache /\ UNCHANGED <<decoded, answers>>
  BY DEF Call, cache
<1>2. TypeOK'
  BY <1>1, BoundsAssumption DEF Call, TypeOK, cache, BoundsAssumption
<1>3. InHand'
  BY DEF Call, InHand, TypeOK
<1> QED
  BY <1>1, <1>2, <1>3, CacheUnchanged
  DEF cache, CachedFit, AnswersFit, AnswersShare, LenIsSum

LEMMA BuildStep == ASSUME IInv, NEW t \in Threads, Build(t) PROVE IInv'
<1> USE DEF IInv
<1>1. UNCHANGED cache /\ answers' = answers
  BY DEF Build, cache
<1>2. /\ request[t] \in Kinds
      /\ decoded' \in Seq(Kinds)
      /\ Len(decoded) \in Nat
      /\ Len(decoded') = Len(decoded) + 1
      /\ decoded'[Len(decoded) + 1] = request[t]
      /\ \A i \in 1 .. Len(decoded) : decoded'[i] = decoded[i]
  BY DEF Build, TypeOK
<1>3. TypeOK'
  BY <1>1, <1>2 DEF Build, TypeOK, cache
<1>4. InHand'
  BY <1>2 DEF Build, InHand, TypeOK
<1>5. CachedFit' /\ AnswersFit'
  BY <1>1, <1>2, CacheUnchanged DEF CachedFit, AnswersFit
<1> QED
  BY <1>1, <1>3, <1>4, <1>5, CacheUnchanged DEF cache, AnswersShare, LenIsSum

LEMMA BuildFailsStep == ASSUME IInv, NEW t \in Threads, BuildFails(t) PROVE IInv'
<1> USE DEF IInv
<1>1. UNCHANGED cache /\ UNCHANGED <<decoded, answers>>
  BY DEF BuildFails, cache
<1>2. TypeOK'
  BY <1>1 DEF BuildFails, TypeOK, cache
<1>3. InHand'
  BY DEF BuildFails, InHand, TypeOK
<1> QED
  BY <1>1, <1>2, <1>3, CacheUnchanged
  DEF cache, CachedFit, AnswersFit, AnswersShare, LenIsSum

LEMMA ProbeStep == ASSUME IInv, NEW t \in Threads, Probe(t) PROVE IInv'
<1> USE DEF IInv
<1> DEFINE e == request[t]
<1>1. UNCHANGED cache /\ UNCHANGED <<decoded, request, calls>>
  BY DEF Probe, cache
<1>2. e \in Kinds /\ e \in Keys \X Names
  BY DEF TypeOK, Kinds
<1>3. CASE IsCached(e)
  <2>1. e \in Cached /\ SchemaFor(e) \in 1 .. Len(decoded) /\ decoded[SchemaFor(e)] = e
    BY <1>2, <1>3 DEF Cached, CachedFit
  <2>2. /\ answers' = answers \cup {<<e, SchemaFor(e)>>}
        /\ pc' = [pc EXCEPT ![t] = "idle"]
        /\ built' = [built EXCEPT ![t] = 0]
    BY <1>3 DEF Probe, Return
  <2>3. SchemaFor(e) \in Nat
    BY <2>1 DEF TypeOK
  <2>4. TypeOK'
    BY <1>1, <1>2, <2>2, <2>3 DEF TypeOK, cache
  <2>5. InHand'
    BY <1>1, <2>2 DEF InHand, TypeOK
  <2>6. AnswersFit'
    BY <1>1, <2>1, <2>2 DEF AnswersFit
  <2>7. AnswersShare'
    BY <1>1, <1>3, <2>2, CacheUnchanged DEF AnswersShare, cache
  <2> QED
    BY <1>1, <2>4, <2>5, <2>6, <2>7, CacheUnchanged DEF cache, CachedFit, LenIsSum
<1>4. CASE ~IsCached(e)
  <2>1. pc' = [pc EXCEPT ![t] = "build"] /\ UNCHANGED <<built, answers>>
    BY <1>4 DEF Probe
  <2>2. TypeOK'
    BY <1>1, <2>1 DEF TypeOK, cache
  <2>3. InHand'
    BY <1>1, <2>1 DEF InHand, TypeOK
  <2> QED
    BY <1>1, <2>1, <2>2, <2>3, CacheUnchanged
    DEF cache, CachedFit, AnswersFit, AnswersShare, LenIsSum
<1> QED BY <1>3, <1>4

\* What one call of Store does, in its three cases.
LEMMA StoreStep == ASSUME IInv, NEW t \in Threads, Store(t) PROVE IInv'
<1> USE DEF IInv
<1>1. UNCHANGED <<decoded, request, calls>> /\ pc[t] = "store"
  BY DEF Store
<1>2. PICK e \in Kinds : e = request[t]
  BY DEF TypeOK
<1>3. PICK s \in 1 .. Len(decoded) : s = built[t] /\ decoded[s] = e
  BY <1>1, <1>2 DEF InHand
<1>4. SchemasOK /\ Len(decoded) \in Nat /\ s \in Nat /\ len \in Nat /\ MaxCached \in Nat
  BY BoundsAssumption DEF SchemasOK, TypeOK, BoundsAssumption
<1> e \in Keys \X Names /\ e[1] \in Keys
  BY DEF Kinds
<1>5. \* Whatever is returned, typing and the schemas in hand follow.
      ASSUME NEW r \in 1 .. Len(decoded), Return(t, r), SchemasOK', len' \in 0 .. MaxCached
      PROVE  TypeOK' /\ InHand'
  <2>1. /\ answers' = answers \cup {<<e, r>>}
        /\ pc' = [pc EXCEPT ![t] = "idle"]
        /\ built' = [built EXCEPT ![t] = 0]
    BY <1>2, <1>5 DEF Return
  <2>2. r \in Nat
    BY <1>4
  <2> QED BY <1>1, <1>2, <1>5, <2>1, <2>2 DEF TypeOK, InHand, SchemasOK
<1>6. CASE IsCached(e)
  <2>1. Return(t, SchemaFor(e)) /\ UNCHANGED cache
    BY <1>2, <1>6 DEF Store
  <2>2. SchemaFor(e) \in 1 .. Len(decoded) /\ decoded[SchemaFor(e)] = e
    BY <1>2, <1>6 DEF Cached, CachedFit
  <2>3. TypeOK' /\ InHand'
    BY <1>4, <1>5, <2>1, <2>2 DEF SchemasOK, cache, TypeOK
  <2>4. answers' = answers \cup {<<e, SchemaFor(e)>>}
    BY <1>2, <2>1 DEF Return
  <2> QED
    BY <1>1, <1>6, <2>1, <2>2, <2>3, <2>4, CacheUnchanged
    DEF cache, CachedFit, AnswersFit, AnswersShare, LenIsSum
<1>7. CASE ~IsCached(e) /\ len < MaxCached
  <2>1. Insert(e, s) /\ len' = len + 1 /\ Return(t, s)
    BY <1>2, <1>3, <1>4, <1>7 DEF Store
  <2>2. /\ SchemasOK'
        /\ Cached' = Cached \cup {e}
        /\ IsCached(e)' /\ SchemaFor(e)' = s
        /\ \A f \in Cached : f # e => IsCached(f)' /\ SchemaFor(f)' = SchemaFor(f)
    BY <1>2, <1>4, <2>1, InsertEffect
  <2>3. e \notin Cached
    BY <1>7 DEF Cached
  <2>4. IsFiniteSet(Cached') /\ Cardinality(Cached') = Cardinality(Cached) + 1
    BY <2>2, <2>3, FS_AddElement
  <2>5. LenIsSum' /\ len' \in 0 .. MaxCached
    BY <1>7, <2>1, <2>4, BoundsAssumption DEF LenIsSum, TypeOK, BoundsAssumption
  <2>6. TypeOK' /\ InHand'
    BY <1>3, <1>5, <2>1, <2>2, <2>5
  <2>7. answers' = answers \cup {<<e, s>>}
    BY <1>2, <2>1 DEF Return
  <2>8. CachedFit'
    BY <1>1, <1>3, <2>2 DEF CachedFit
  <2>9. AnswersFit'
    BY <1>1, <1>3, <2>7 DEF AnswersFit
  <2>10. AnswersShare'
    <3>1. \A a \in answers : IsCached(a[1]) /\ a[1] # e
      BY <1>7, BoundsAssumption DEF AnswersShare, TypeOK, BoundsAssumption
    <3>2. \A a \in answers : a[1] \in Cached
      BY <3>1 DEF Cached, TypeOK, Kinds
    <3> QED BY <2>2, <2>7, <3>1, <3>2 DEF AnswersShare
  <2> QED BY <2>4, <2>5, <2>6, <2>8, <2>9, <2>10
<1>8. CASE ~IsCached(e) /\ len >= MaxCached
  <2>1. /\ schemas' = With(schemas, e[1], IF e[1] \in DOMAIN schemas THEN schemas[e[1]] ELSE <<>>)
        /\ len' = len
        /\ Return(t, s)
    BY <1>2, <1>3, <1>4, <1>8 DEF Store
  <2>2. SchemasOK' /\ Cached' = Cached /\ \A f \in Cached : SchemaFor(f)' = SchemaFor(f)
    BY <1>2, <1>4, <2>1, FullEffect
  <2>3. TypeOK' /\ InHand'
    BY <1>3, <1>5, <2>1, <2>2 DEF TypeOK
  <2>4. answers' = answers \cup {<<e, s>>} /\ len = MaxCached
    BY <1>2, <1>8, <2>1, BoundsAssumption DEF Return, TypeOK, BoundsAssumption
  <2>5. \A f \in Keys \X Names : IsCached(f)' <=> IsCached(f)
    BY <2>2 DEF Cached
  <2>6. AnswersShare'
    BY <1>2, <1>8, <2>1, <2>2, <2>4, <2>5 DEF AnswersShare, Cached, TypeOK, Kinds
  <2>7. CachedFit' /\ AnswersFit' /\ LenIsSum' /\ IsFiniteSet(Cached')
    BY <1>1, <1>3, <2>1, <2>2, <2>4 DEF CachedFit, AnswersFit, LenIsSum
  <2> QED BY <2>3, <2>6, <2>7
<1> QED
  BY <1>6, <1>7, <1>8, BoundsAssumption DEF TypeOK, BoundsAssumption

LEMMA InvariantNext == IInv /\ [Next]_vars => IInv'
<1> SUFFICES ASSUME IInv, [Next]_vars PROVE IInv'
  OBVIOUS
<1>1. CASE UNCHANGED vars
  <2>1. UNCHANGED cache /\ UNCHANGED <<len, pc, request, built, decoded, answers, calls, schemas>>
    BY <1>1 DEF vars, cache, callers
  <2> QED
    BY <2>1, CacheUnchanged
    DEF IInv, TypeOK, InHand, CachedFit, AnswersFit, AnswersShare, LenIsSum
<1> QED
  BY <1>1, CallStep, ProbeStep, BuildStep, BuildFailsStep, StoreStep DEF Next, Finished

\* Whatever the threads race for, the cache keeps the right schema of every kind and
\* counts them, and every answer is what the cache holds unless it is full.
THEOREM Invariant == Spec => []IInv
<1> QED BY InvariantInit, InvariantNext, PTL DEF Spec

\* The typing of the cache and of its callers: the calls, schemas and answers that
\* the locator keeps stay within what was asked and decoded.
THEOREM TypeCorrect == Spec => []TypeOK
<1>1. IInv => TypeOK
  BY DEF IInv
<1> QED BY <1>1, Invariant, PTL

\* No thread ever gets the schema of another kind of event.
THEOREM AnswersAlwaysFit == Spec => []AnswersFit
<1>1. IInv => AnswersFit
  BY DEF IInv
<1> QED BY <1>1, Invariant, PTL

\* Threads that raced for one kind of event share one schema while there is room.
THEOREM AnswersAreShared == Spec => []AnswersShare
<1>1. IInv => AnswersShare
  BY DEF IInv
<1> QED BY <1>1, Invariant, PTL

\* The count that the bound applies to is exact, and the bound holds.
THEOREM LenIsAlwaysSum == Spec => []LenIsSum
<1>1. IInv => LenIsSum
  BY DEF IInv
<1> QED BY <1>1, Invariant, PTL

\* No cached schema is ever replaced or evicted.
THEOREM CachedIsForGood == Spec => CachedForGood
<1> DEFINE Kept == \A e \in Cached : IsCached(e)' /\ SchemaFor(e)' = SchemaFor(e)
<1>1. ASSUME IInv, [Next]_vars PROVE Kept \/ UNCHANGED vars
  <2>1. ASSUME UNCHANGED cache PROVE Kept
    BY <2>1, CacheUnchanged DEF Cached
  <2>2. ASSUME NEW t \in Threads, Store(t), ~ UNCHANGED cache PROVE Kept
    <3>1. PICK e \in Kinds : e = request[t] /\ ~IsCached(e) /\ e[1] \in Keys
      BY <1>1, <2>2 DEF Store, IInv, TypeOK, Kinds
    <3>2. PICK s \in Nat : s = built[t]
      BY <1>1 DEF IInv, TypeOK
    <3>3. SchemasOK /\ len \in Nat /\ MaxCached \in Nat
      BY <1>1, BoundsAssumption DEF IInv, TypeOK, SchemasOK, BoundsAssumption
    <3>4. CASE len < MaxCached
      <4>1. Insert(e, s)
        BY <2>2, <3>1, <3>2, <3>4, <3>3 DEF Store
      <4> QED BY <3>1, <3>3, <4>1, InsertEffect DEF Cached
    <3>5. CASE ~(len < MaxCached)
      <4>1. schemas' = With(schemas, e[1], IF e[1] \in DOMAIN schemas THEN schemas[e[1]] ELSE <<>>)
        BY <2>2, <3>1, <3>3, <3>5 DEF Store
      <4>2. Cached' = Cached /\ \A f \in Cached : SchemaFor(f)' = SchemaFor(f)
        BY <3>1, <3>3, <4>1, FullEffect
      <4> QED BY <4>2 DEF Cached
    <3> QED BY <3>4, <3>5
  <2> QED
    BY <1>1, <2>1, <2>2 DEF Next, Call, Probe, Build, BuildFails, Finished, vars, cache
<1>2. ASSUME IInv, [Next]_vars PROVE [Kept]_vars
  BY <1>1, <1>2
<1> QED BY <1>2, Invariant, PTL DEF Spec, CachedForGood
=============================================================================
