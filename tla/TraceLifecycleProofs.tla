----------------------- MODULE TraceLifecycleProofs -----------------------
(***************************************************************************)
(* Proofs about TraceLifecycle: for any number of traces, names, logger    *)
(* slots and delivery threads, and any number of events and of sessions of *)
(* others.                                                                 *)
(***************************************************************************)
EXTENDS TraceLifecycle, FiniteSetTheorems, TLAPS

(* Typing *)

\* A trace that has no id leaves one for it.
LEMMA RoomToMint ==
  ASSUME TypeOK, ContextsAreMinted, NEW t \in Traces, context[t] = 0
  PROVE  nextId \in 1 .. Cardinality(Traces)
<1>1. Holders \subseteq Traces \ {t} /\ IsFiniteSet(Traces \ {t})
      /\ Cardinality(Traces \ {t}) = Cardinality(Traces) - 1
  BY FS_RemoveElement, TracesAssumption DEF Holders, TracesAssumption
<1>2. IsFiniteSet(Holders) /\ Cardinality(Holders) <= Cardinality(Traces) - 1
  BY <1>1, FS_Subset
<1>3. Cardinality(Holders) \in Nat /\ Cardinality(Traces) \in Nat
  BY <1>2, FS_CardinalityType, TracesAssumption DEF TracesAssumption
<1> QED BY <1>2, <1>3 DEF ContextsAreMinted

LEMMA TypeStep ==
  ASSUME TypeOK, ContextsAreMinted, [Next]_vars
  PROVE  TypeOK'
<1> USE TracesAssumption, LoggersAssumption, BoundsAssumption
    DEF TypeOK, Step, builder, ending, handles, sessions, contexts, thunks,
        TracesAssumption, LoggersAssumption, BoundsAssumption, Starting, Ending, Ended
<1>1. ASSUME NEW t \in Traces, Begin(t) PROVE TypeOK'
  BY <1>1 DEF Begin
<1>2. ASSUME NEW t \in Traces, StopExisting(t) PROVE TypeOK'
  BY <1>2 DEF StopExisting
<1>3. ASSUME NEW t \in Traces, StartTrace(t) PROVE TypeOK'
  BY <1>3 DEF StartTrace
<1>4. ASSUME NEW t \in Traces, StartTraceFails(t) PROVE TypeOK'
  BY <1>4 DEF StartTraceFails
<1>5. ASSUME NEW t \in Traces, Configure(t) PROVE TypeOK'
  BY <1>5 DEF Configure
<1>6. ASSUME NEW t \in Traces, Mint(t) PROVE TypeOK'
  <2>1. nextId \in 1 .. Cardinality(Traces)
    BY <1>6, RoomToMint DEF Mint, ContextsAreMinted, Unminted
  <2>2. Cardinality(Traces) \in Nat
    BY FS_CardinalityType, TracesAssumption DEF TracesAssumption
  <2> QED BY <1>6, <2>1, <2>2 DEF Mint, ContextIds
<1>7. ASSUME NEW t \in Traces, Insert(t) PROVE TypeOK'
  BY <1>7 DEF Insert, ContextsAreMinted, Minted, Unopened, Unminted
<1>8. ASSUME NEW t \in Traces, Open(t) PROVE TypeOK'
  BY <1>8 DEF Open
<1>9. ASSUME NEW t \in Traces, Forget(t) PROVE TypeOK'
  BY <1>9 DEF Forget, Retire
<1>10. ASSUME NEW t \in Traces, Capture(t) PROVE TypeOK'
  BY <1>10 DEF Capture
<1>11. ASSUME NEW t \in Traces, GuardUnregister(t) PROVE TypeOK'
  BY <1>11 DEF GuardUnregister, Retire
<1>12. ASSUME NEW t \in Traces, GuardClose(t) PROVE TypeOK'
  BY <1>12 DEF GuardClose, CloseConsumer
<1>13. ASSUME NEW t \in Traces, GuardStop(t) PROVE TypeOK'
  BY <1>13 DEF GuardStop, StopSession
<1>14. ASSUME NEW t \in Traces, End(t) PROVE TypeOK'
  BY <1>14 DEF End
<1>15. ASSUME NEW t \in Traces, Unregister(t) PROVE TypeOK'
  BY <1>15 DEF Unregister, Retire
<1>16. ASSUME NEW t \in Traces, Close(t) PROVE TypeOK'
  BY <1>16 DEF Close, CloseConsumer, EndCall
<1>17. ASSUME NEW t \in Traces, Stop(t) PROVE TypeOK'
  <2>1. logger' \in [Loggers -> Traces \cup {Other, Nobody}] /\ stopFailed' \in [Traces -> BOOLEAN]
    BY <1>17 DEF Stop, StopSession
  <2>2. pc' \in [Traces -> {"builder", "live"} \cup Starting \cup Ending \cup Ended]
        /\ call' \in [Traces -> {"none", "stop", "close", "drop"}]
    BY <1>17 DEF Stop, EndCall
  <2> QED BY <1>17, <2>1, <2>2 DEF Stop
<1>18. ASSUME NEW t \in Traces, DropContext(t) PROVE TypeOK'
  BY <1>18 DEF DropContext, Retire
<1>19. ASSUME NEW t \in Traces, Spawn(t) PROVE TypeOK'
  BY <1>19 DEF Spawn
<1>20. ASSUME NEW t \in Traces, Consume(t) PROVE TypeOK'
  BY <1>20 DEF Consume, Process, ProcessReturns, Drained
<1>21. ASSUME NEW d \in Deliverers, NEW t \in Traces, Deliver(d, t) PROVE TypeOK'
  BY <1>21 DEF Deliver
<1>22. ASSUME NEW d \in Deliverers, Thunk(d) PROVE TypeOK'
  BY <1>22 DEF Thunk, Lookup, Handled
<1>23. ASSUME NEW n \in Names, OtherStarts(n) PROVE TypeOK'
  BY <1>23 DEF OtherStarts
<1>24. ASSUME NEW l \in Loggers, OtherStops(l) PROVE TypeOK'
  BY <1>24 DEF OtherStops
<1>25. CASE UNCHANGED vars
  BY <1>25 DEF vars
<1> HIDE DEF TypeOK
<1> QED
  BY <1>1, <1>2, <1>3, <1>4, <1>5, <1>6, <1>7, <1>8, <1>9, <1>10, <1>11, <1>12, <1>13, <1>14,
     <1>15, <1>16, <1>17, <1>18, <1>19, <1>20, <1>21, <1>22, <1>23, <1>24, <1>25
  DEF Next, Start, Finish, Finished
-----------------------------------------------------------------------------
(* One conjunct of the invariant after the other *)

LEMMA MintedStep ==
  ASSUME TypeOK, ContextsAreMinted, [Next]_vars
  PROVE  ContextsAreMinted'
<1> DEFINE Kept == /\ context' = context /\ nextId' = nextId
                   /\ \A t \in Traces :
                        /\ pc'[t] \in Unminted => pc[t] \in Unminted
                        /\ pc'[t] \in Minted => pc[t] \in Minted
<1>P. pc \in [Traces -> {"builder", "live"} \cup Starting \cup Ending \cup Ended]
  BY DEF TypeOK
<1> USE <1>P DEF Step, builder, ending, handles, sessions, contexts, thunks,
        Unminted, Unopened, Opened, Minted, Ending, Ended
<1>K. ASSUME Kept PROVE ContextsAreMinted'
  <2>1. Holders' = Holders
    BY <1>K DEF Holders
  <2> HIDE DEF Unminted, Minted
  <2> QED BY <1>K, <2>1 DEF ContextsAreMinted
<1>1. ASSUME NEW t \in Traces, Begin(t) PROVE ContextsAreMinted'
  BY <1>K, <1>1 DEF Begin
<1>2. ASSUME NEW t \in Traces, StopExisting(t) PROVE ContextsAreMinted'
  BY <1>K, <1>2 DEF StopExisting
<1>3. ASSUME NEW t \in Traces, StartTrace(t) PROVE ContextsAreMinted'
  BY <1>K, <1>3 DEF StartTrace
<1>4. ASSUME NEW t \in Traces, StartTraceFails(t) PROVE ContextsAreMinted'
  BY <1>K, <1>4 DEF StartTraceFails
<1>5. ASSUME NEW t \in Traces, Configure(t) PROVE ContextsAreMinted'
  BY <1>K, <1>5 DEF Configure
<1>6. ASSUME NEW t \in Traces, Mint(t) PROVE ContextsAreMinted'
  <2>1. context[t] = 0 /\ nextId \in 1 .. Cardinality(Traces)
    BY <1>6, RoomToMint DEF Mint, ContextsAreMinted
  <2>2. /\ nextId' = nextId + 1 /\ nextId \in Nat \ {0}
        /\ context'[t] = nextId
        /\ \A s \in Traces : s # t => context'[s] = context[s]
        /\ \A s \in Traces : context[s] \in Nat
    BY <1>6, <2>1, FS_CardinalityType, TracesAssumption
    DEF Mint, TypeOK, ContextIds, TracesAssumption
  <2>3. t \notin Holders /\ Holders' = Holders \cup {t}
    BY <2>1, <2>2 DEF Holders
  <2>4. nextId' = 1 + Cardinality(Holders')
    <3>1. IsFiniteSet(Holders)
      BY FS_Subset, TracesAssumption DEF Holders, TracesAssumption
    <3>2. Cardinality(Holders') = Cardinality(Holders) + 1 /\ Cardinality(Holders) \in Nat
      BY <2>3, <3>1, FS_AddElement, FS_CardinalityType
    <3> QED BY <2>2, <3>2 DEF ContextsAreMinted
  <2>5. \A s \in Traces : s # t => pc'[s] = pc[s]
    BY <1>6 DEF Mint, TypeOK
  <2>6. pc'[t] = "insert"
    BY <1>6 DEF Mint, TypeOK
  <2>7. \A s \in Traces : context[s] < nextId
    BY DEF ContextsAreMinted
  <2>8. \A s \in Traces : context'[s] < nextId'
    BY <2>2, <2>7
  <2>9. \A s, r \in Traces : context'[s] = context'[r] /\ context'[r] # 0 => s = r
    BY <2>2, <2>7 DEF ContextsAreMinted
  <2>10. \A s \in Traces :
           /\ pc'[s] \in Unminted => context'[s] = 0
           /\ pc'[s] \in Minted => context'[s] # 0
    BY <2>2, <2>5, <2>6 DEF ContextsAreMinted
  <2> QED BY <2>4, <2>8, <2>9, <2>10 DEF ContextsAreMinted
<1>7. ASSUME NEW t \in Traces, Insert(t) PROVE ContextsAreMinted'
  BY <1>K, <1>7 DEF Insert
<1>8. ASSUME NEW t \in Traces, Open(t) PROVE ContextsAreMinted'
  BY <1>K, <1>8 DEF Open
<1>9. ASSUME NEW t \in Traces, Forget(t) PROVE ContextsAreMinted'
  BY <1>K, <1>9 DEF Forget, Retire
<1>10. ASSUME NEW t \in Traces, Capture(t) PROVE ContextsAreMinted'
  BY <1>K, <1>10 DEF Capture
<1>11. ASSUME NEW t \in Traces, GuardUnregister(t) PROVE ContextsAreMinted'
  BY <1>K, <1>11 DEF GuardUnregister, Retire
<1>12. ASSUME NEW t \in Traces, GuardClose(t) PROVE ContextsAreMinted'
  BY <1>K, <1>12 DEF GuardClose, CloseConsumer
<1>13. ASSUME NEW t \in Traces, GuardStop(t) PROVE ContextsAreMinted'
  BY <1>K, <1>13 DEF GuardStop, StopSession
<1>14. ASSUME NEW t \in Traces, End(t) PROVE ContextsAreMinted'
  BY <1>K, <1>14 DEF End
<1>15. ASSUME NEW t \in Traces, Unregister(t) PROVE ContextsAreMinted'
  BY <1>K, <1>15 DEF Unregister, Retire
<1>16. ASSUME NEW t \in Traces, Close(t) PROVE ContextsAreMinted'
  BY <1>K, <1>16 DEF Close, CloseConsumer, EndCall
<1>17. ASSUME NEW t \in Traces, Stop(t) PROVE ContextsAreMinted'
  BY <1>K, <1>17 DEF Stop, StopSession, EndCall
<1>18. ASSUME NEW t \in Traces, DropContext(t) PROVE ContextsAreMinted'
  BY <1>K, <1>18 DEF DropContext, Retire
<1>19. ASSUME NEW t \in Traces, Spawn(t) PROVE ContextsAreMinted'
  BY <1>K, <1>19 DEF Spawn
<1>20. ASSUME NEW t \in Traces, Consume(t) PROVE ContextsAreMinted'
  BY <1>K, <1>20 DEF Consume, Process, ProcessReturns, Drained
<1>21. ASSUME NEW d \in Deliverers, NEW t \in Traces, Deliver(d, t) PROVE ContextsAreMinted'
  BY <1>K, <1>21 DEF Deliver
<1>22. ASSUME NEW d \in Deliverers, Thunk(d) PROVE ContextsAreMinted'
  BY <1>K, <1>22 DEF Thunk, Lookup, Handled
<1>23. ASSUME NEW n \in Names, OtherStarts(n) PROVE ContextsAreMinted'
  BY <1>K, <1>23 DEF OtherStarts
<1>24. ASSUME NEW l \in Loggers, OtherStops(l) PROVE ContextsAreMinted'
  BY <1>K, <1>24 DEF OtherStops
<1>25. CASE UNCHANGED vars
  BY <1>K, <1>25 DEF vars
<1> QED
  BY <1>1, <1>2, <1>3, <1>4, <1>5, <1>6, <1>7, <1>8, <1>9, <1>10, <1>11, <1>12, <1>13, <1>14, <1>15, <1>16, <1>17, <1>18, <1>19, <1>20, <1>21, <1>22, <1>23, <1>24, <1>25
  DEF Next, Start, Finish, Finished

LEMMA RegistryStep ==
  ASSUME TypeOK, ContextsAreMinted, RegistryMatchesTraces, ConsumersFollow, [Next]_vars
  PROVE  RegistryMatchesTraces'
<1>P. /\ pc \in [Traces -> {"builder", "live"} \cup Starting \cup Ending \cup Ended]
      /\ consumer \in [Traces -> {"none", "open", "pending", "closed"}]
  BY DEF TypeOK
<1> DEFINE Same(S) == \A s \in S : (Holds(s)' <=> Holds(s)) /\ context'[s] = context[s]
<1>K. \* The registry is left alone.
      ASSUME registry' = registry, \A s \in Traces : Holds(s)' <=> Holds(s),
             \A s \in Traces : Holds(s) => context'[s] = context[s]
      PROVE  RegistryMatchesTraces'
  BY <1>K DEF RegistryMatchesTraces, TypeOK
<1>R. \* A trace is retired, or was.
      ASSUME NEW t \in Traces, Retire(t), context[t] # 0, ~Holds(t)', Same(Traces \ {t}),
             context'[t] = context[t]
      PROVE  RegistryMatchesTraces'
  <2>1. /\ DOMAIN registry' = DOMAIN registry \ {context[t]}
        /\ \A c \in DOMAIN registry' : registry'[c] = registry[c]
    BY <1>R DEF Retire
  <2>2. \A c \in DOMAIN registry' : registry[c] \in Traces \ {t}
    BY <2>1 DEF RegistryMatchesTraces, TypeOK
  <2>3. \A s \in Traces \ {t} : context[s] # context[t]
    BY <1>R DEF ContextsAreMinted
  <2> HIDE DEF Holds
  <2> QED BY <1>R, <2>1, <2>2, <2>3 DEF RegistryMatchesTraces
<1> USE <1>P DEF Step, builder, ending, handles, sessions, contexts, thunks, Holds
<1>1. ASSUME NEW t \in Traces, Begin(t) PROVE RegistryMatchesTraces'
  BY <1>K, <1>1 DEF Begin
<1>2. ASSUME NEW t \in Traces, StopExisting(t) PROVE RegistryMatchesTraces'
  BY <1>K, <1>2 DEF StopExisting
<1>3. ASSUME NEW t \in Traces, StartTrace(t) PROVE RegistryMatchesTraces'
  BY <1>K, <1>3 DEF StartTrace
<1>4. ASSUME NEW t \in Traces, StartTraceFails(t) PROVE RegistryMatchesTraces'
  BY <1>K, <1>4 DEF StartTraceFails
<1>5. ASSUME NEW t \in Traces, Configure(t) PROVE RegistryMatchesTraces'
  BY <1>K, <1>5 DEF Configure
<1>6. ASSUME NEW t \in Traces, Mint(t) PROVE RegistryMatchesTraces'
  BY <1>K, <1>6 DEF Mint
<1>7. ASSUME NEW t \in Traces, Insert(t) PROVE RegistryMatchesTraces'
  <2>1. context[t] # 0 /\ ~Holds(t)
    BY <1>7 DEF Insert, ContextsAreMinted, Minted, Unopened, Unminted
  <2>2. Holds(t)' /\ Same(Traces \ {t}) /\ context'[t] = context[t]
    BY <1>7 DEF Insert
  <2>3. /\ DOMAIN registry' = DOMAIN registry \cup {context[t]}
        /\ registry'[context[t]] = t
        /\ \A c \in DOMAIN registry : c # context[t] => registry'[c] = registry[c]
    BY <1>7 DEF Insert
  <2>4. \A s \in Traces \ {t} : context[s] # context[t]
    BY <2>1 DEF ContextsAreMinted
  <2>5. \A c \in DOMAIN registry : registry[c] \in Traces \ {t}
    BY <2>1 DEF RegistryMatchesTraces, TypeOK
  <2> HIDE DEF Holds
  <2> QED BY <2>1, <2>2, <2>3, <2>4, <2>5 DEF RegistryMatchesTraces
<1>8. ASSUME NEW t \in Traces, Open(t) PROVE RegistryMatchesTraces'
  BY <1>K, <1>8 DEF Open
<1>9. ASSUME NEW t \in Traces, Forget(t) PROVE RegistryMatchesTraces'
  <2>1. context[t] # 0
    BY <1>9 DEF Forget, ContextsAreMinted, Minted, Unopened, Unminted, Opened, Ending
  <2>2. ~Holds(t)' /\ Same(Traces \ {t}) /\ context'[t] = context[t]
    BY <1>9 DEF Forget
  <2>3. Retire(t)
    BY <1>9 DEF Forget
  <2> HIDE DEF Holds
  <2> QED BY <1>R, <2>1, <2>2, <2>3
<1>10. ASSUME NEW t \in Traces, Capture(t) PROVE RegistryMatchesTraces'
  BY <1>K, <1>10 DEF Capture
<1>11. ASSUME NEW t \in Traces, GuardUnregister(t) PROVE RegistryMatchesTraces'
  <2>1. context[t] # 0
    BY <1>11 DEF GuardUnregister, ContextsAreMinted, Minted, Unopened, Unminted, Opened, Ending
  <2>2. ~Holds(t)' /\ Same(Traces \ {t}) /\ context'[t] = context[t]
    BY <1>11 DEF GuardUnregister
  <2>3. Retire(t)
    BY <1>11 DEF GuardUnregister
  <2> HIDE DEF Holds
  <2> QED BY <1>R, <2>1, <2>2, <2>3
<1>12. ASSUME NEW t \in Traces, GuardClose(t) PROVE RegistryMatchesTraces'
  BY <1>K, <1>12 DEF GuardClose, CloseConsumer
<1>13. ASSUME NEW t \in Traces, GuardStop(t) PROVE RegistryMatchesTraces'
  BY <1>K, <1>13 DEF GuardStop
<1>14. ASSUME NEW t \in Traces, End(t) PROVE RegistryMatchesTraces'
  <2>1. consumer[t] = "open"
    BY <1>14 DEF End, ConsumersFollow, Opened
  <2> QED BY <1>K, <1>14, <2>1 DEF End
<1>15. ASSUME NEW t \in Traces, Unregister(t) PROVE RegistryMatchesTraces'
  <2>1. context[t] # 0
    BY <1>15 DEF Unregister, ContextsAreMinted, Minted, Unopened, Unminted, Opened, Ending
  <2>2. ~Holds(t)' /\ Same(Traces \ {t}) /\ context'[t] = context[t]
    BY <1>15 DEF Unregister
  <2>3. Retire(t)
    BY <1>15 DEF Unregister
  <2> HIDE DEF Holds
  <2> QED BY <1>R, <2>1, <2>2, <2>3
<1>16. ASSUME NEW t \in Traces, Close(t) PROVE RegistryMatchesTraces'
  BY <1>K, <1>16 DEF Close, CloseConsumer, EndCall
<1>17. ASSUME NEW t \in Traces, Stop(t) PROVE RegistryMatchesTraces'
  <2>1. consumer[t] # "open"
    BY <1>17 DEF Stop, ConsumersFollow, Closed
  <2> QED BY <1>K, <1>17, <2>1 DEF Stop, EndCall
<1>18. ASSUME NEW t \in Traces, DropContext(t) PROVE RegistryMatchesTraces'
  <2>1. context[t] # 0
    BY <1>18 DEF DropContext, ContextsAreMinted, Minted, Unopened, Unminted, Opened, Ending
  <2>2. ~Holds(t)' /\ Same(Traces \ {t}) /\ context'[t] = context[t]
    BY <1>18 DEF DropContext
  <2>3. Retire(t)
    BY <1>18 DEF DropContext
  <2> HIDE DEF Holds
  <2> QED BY <1>R, <2>1, <2>2, <2>3
<1>19. ASSUME NEW t \in Traces, Spawn(t) PROVE RegistryMatchesTraces'
  BY <1>K, <1>19 DEF Spawn
<1>20. ASSUME NEW t \in Traces, Consume(t) PROVE RegistryMatchesTraces'
  BY <1>K, <1>20 DEF Consume, Process, ProcessReturns, Drained
<1>21. ASSUME NEW d \in Deliverers, NEW t \in Traces, Deliver(d, t) PROVE RegistryMatchesTraces'
  BY <1>K, <1>21 DEF Deliver
<1>22. ASSUME NEW d \in Deliverers, Thunk(d) PROVE RegistryMatchesTraces'
  BY <1>K, <1>22 DEF Thunk, Lookup, Handled
<1>23. ASSUME NEW n \in Names, OtherStarts(n) PROVE RegistryMatchesTraces'
  BY <1>K, <1>23 DEF OtherStarts
<1>24. ASSUME NEW l \in Loggers, OtherStops(l) PROVE RegistryMatchesTraces'
  BY <1>K, <1>24 DEF OtherStops
<1>25. CASE UNCHANGED vars
  BY <1>K, <1>25 DEF vars
<1> QED
  BY <1>1, <1>2, <1>3, <1>4, <1>5, <1>6, <1>7, <1>8, <1>9, <1>10, <1>11, <1>12, <1>13, <1>14, <1>15, <1>16, <1>17, <1>18, <1>19, <1>20, <1>21, <1>22, <1>23, <1>24, <1>25
  DEF Next, Start, Finish, Finished

LEMMA ConsumersStep ==
  ASSUME TypeOK, ConsumersFollow, [Next]_vars
  PROVE  ConsumersFollow'
<1>P. /\ pc \in [Traces -> {"builder", "live"} \cup Starting \cup Ending \cup Ended]
      /\ consumer \in [Traces -> {"none", "open", "pending", "closed"}]
  BY DEF TypeOK
<1> USE <1>P DEF Step, builder, ending, handles, sessions, contexts, thunks, ConsumersFollow,
        Unminted, Unopened, Opened, Closed, Ending, Ended
<1>1. ASSUME NEW t \in Traces, Begin(t) PROVE ConsumersFollow'
  BY <1>1 DEF Begin
<1>2. ASSUME NEW t \in Traces, StopExisting(t) PROVE ConsumersFollow'
  BY <1>2 DEF StopExisting
<1>3. ASSUME NEW t \in Traces, StartTrace(t) PROVE ConsumersFollow'
  BY <1>3 DEF StartTrace
<1>4. ASSUME NEW t \in Traces, StartTraceFails(t) PROVE ConsumersFollow'
  BY <1>4 DEF StartTraceFails
<1>5. ASSUME NEW t \in Traces, Configure(t) PROVE ConsumersFollow'
  BY <1>5 DEF Configure
<1>6. ASSUME NEW t \in Traces, Mint(t) PROVE ConsumersFollow'
  BY <1>6 DEF Mint
<1>7. ASSUME NEW t \in Traces, Insert(t) PROVE ConsumersFollow'
  BY <1>7 DEF Insert
<1>8. ASSUME NEW t \in Traces, Open(t) PROVE ConsumersFollow'
  BY <1>8 DEF Open
<1>9. ASSUME NEW t \in Traces, Forget(t) PROVE ConsumersFollow'
  BY <1>9 DEF Forget
<1>10. ASSUME NEW t \in Traces, Capture(t) PROVE ConsumersFollow'
  BY <1>10 DEF Capture
<1>11. ASSUME NEW t \in Traces, GuardUnregister(t) PROVE ConsumersFollow'
  BY <1>11 DEF GuardUnregister
<1>12. ASSUME NEW t \in Traces, GuardClose(t) PROVE ConsumersFollow'
  BY <1>12 DEF GuardClose, CloseConsumer
<1>13. ASSUME NEW t \in Traces, GuardStop(t) PROVE ConsumersFollow'
  BY <1>13 DEF GuardStop
<1>14. ASSUME NEW t \in Traces, End(t) PROVE ConsumersFollow'
  BY <1>14 DEF End
<1>15. ASSUME NEW t \in Traces, Unregister(t) PROVE ConsumersFollow'
  BY <1>15 DEF Unregister
<1>16. ASSUME NEW t \in Traces, Close(t) PROVE ConsumersFollow'
  BY <1>16 DEF Close, CloseConsumer, EndCall
<1>17. ASSUME NEW t \in Traces, Stop(t) PROVE ConsumersFollow'
  BY <1>17 DEF Stop, StopSession, EndCall
<1>18. ASSUME NEW t \in Traces, DropContext(t) PROVE ConsumersFollow'
  BY <1>18 DEF DropContext
<1>19. ASSUME NEW t \in Traces, Spawn(t) PROVE ConsumersFollow'
  BY <1>19 DEF Spawn
<1>20. ASSUME NEW t \in Traces, Consume(t) PROVE ConsumersFollow'
  BY <1>20 DEF Consume, Process, ProcessReturns, Drained
<1>21. ASSUME NEW d \in Deliverers, NEW t \in Traces, Deliver(d, t) PROVE ConsumersFollow'
  BY <1>21 DEF Deliver
<1>22. ASSUME NEW d \in Deliverers, Thunk(d) PROVE ConsumersFollow'
  BY <1>22 DEF Thunk, Lookup, Handled
<1>23. ASSUME NEW n \in Names, OtherStarts(n) PROVE ConsumersFollow'
  BY <1>23 DEF OtherStarts
<1>24. ASSUME NEW l \in Loggers, OtherStops(l) PROVE ConsumersFollow'
  BY <1>24 DEF OtherStops
<1>25. CASE UNCHANGED vars
  BY <1>25 DEF vars
<1> HIDE DEF ConsumersFollow
<1> QED
  BY <1>1, <1>2, <1>3, <1>4, <1>5, <1>6, <1>7, <1>8, <1>9, <1>10, <1>11, <1>12, <1>13, <1>14, <1>15, <1>16, <1>17, <1>18, <1>19, <1>20, <1>21, <1>22, <1>23, <1>24, <1>25
  DEF Next, Start, Finish, Finished

LEMMA EventsStep ==
  ASSUME TypeOK, ContextsAreMinted, RegistryMatchesTraces, EventsHaveConsumers, [Next]_vars
  PROVE  EventsHaveConsumers'
<1>P. /\ consumer \in [Traces -> {"none", "open", "pending", "closed"}]
      /\ origin \in [Deliverers -> Traces \cup {Nobody}]
      /\ handling \in [Deliverers -> Traces \cup {Nobody}]
      /\ Nobody \notin Traces
  BY TracesAssumption DEF TypeOK, TracesAssumption
<1>K. \* Consumers are opened and closed, never taken back.
      ASSUME UNCHANGED <<origin, handling>>,
             \A t \in Traces : consumer[t] # "none" => consumer'[t] # "none"
      PROVE  EventsHaveConsumers'
  BY <1>K, <1>P DEF EventsHaveConsumers
<1> USE <1>P DEF Step, builder, ending, handles, sessions, contexts, thunks
<1>1. ASSUME NEW t \in Traces, Begin(t) PROVE EventsHaveConsumers'
  BY <1>K, <1>1 DEF Begin
<1>2. ASSUME NEW t \in Traces, StopExisting(t) PROVE EventsHaveConsumers'
  BY <1>K, <1>2 DEF StopExisting
<1>3. ASSUME NEW t \in Traces, StartTrace(t) PROVE EventsHaveConsumers'
  BY <1>K, <1>3 DEF StartTrace
<1>4. ASSUME NEW t \in Traces, StartTraceFails(t) PROVE EventsHaveConsumers'
  BY <1>K, <1>4 DEF StartTraceFails
<1>5. ASSUME NEW t \in Traces, Configure(t) PROVE EventsHaveConsumers'
  BY <1>K, <1>5 DEF Configure
<1>6. ASSUME NEW t \in Traces, Mint(t) PROVE EventsHaveConsumers'
  BY <1>K, <1>6 DEF Mint
<1>7. ASSUME NEW t \in Traces, Insert(t) PROVE EventsHaveConsumers'
  BY <1>K, <1>7 DEF Insert
<1>8. ASSUME NEW t \in Traces, Open(t) PROVE EventsHaveConsumers'
  BY <1>K, <1>8 DEF Open
<1>9. ASSUME NEW t \in Traces, Forget(t) PROVE EventsHaveConsumers'
  BY <1>K, <1>9 DEF Forget
<1>10. ASSUME NEW t \in Traces, Capture(t) PROVE EventsHaveConsumers'
  BY <1>K, <1>10 DEF Capture
<1>11. ASSUME NEW t \in Traces, GuardUnregister(t) PROVE EventsHaveConsumers'
  BY <1>K, <1>11 DEF GuardUnregister
<1>12. ASSUME NEW t \in Traces, GuardClose(t) PROVE EventsHaveConsumers'
  BY <1>K, <1>12 DEF GuardClose, CloseConsumer
<1>13. ASSUME NEW t \in Traces, GuardStop(t) PROVE EventsHaveConsumers'
  BY <1>K, <1>13 DEF GuardStop
<1>14. ASSUME NEW t \in Traces, End(t) PROVE EventsHaveConsumers'
  BY <1>K, <1>14 DEF End
<1>15. ASSUME NEW t \in Traces, Unregister(t) PROVE EventsHaveConsumers'
  BY <1>K, <1>15 DEF Unregister
<1>16. ASSUME NEW t \in Traces, Close(t) PROVE EventsHaveConsumers'
  BY <1>K, <1>16 DEF Close, CloseConsumer, EndCall
<1>17. ASSUME NEW t \in Traces, Stop(t) PROVE EventsHaveConsumers'
  BY <1>K, <1>17 DEF Stop, StopSession, EndCall
<1>18. ASSUME NEW t \in Traces, DropContext(t) PROVE EventsHaveConsumers'
  BY <1>K, <1>18 DEF DropContext
<1>19. ASSUME NEW t \in Traces, Spawn(t) PROVE EventsHaveConsumers'
  BY <1>K, <1>19 DEF Spawn
<1>20. ASSUME NEW t \in Traces, Consume(t) PROVE EventsHaveConsumers'
  BY <1>K, <1>20 DEF Consume, Process, ProcessReturns, Drained
<1>21. ASSUME NEW d \in Deliverers, NEW t \in Traces, Deliver(d, t) PROVE EventsHaveConsumers'
  BY <1>21 DEF Deliver, EventsHaveConsumers
<1>22. ASSUME NEW d \in Deliverers, Thunk(d) PROVE EventsHaveConsumers'
  <2>1. CASE Handled(d)
    BY <2>1 DEF Handled, EventsHaveConsumers
  <2>2. CASE Lookup(d)
    <3>1. /\ origin[d] \in Traces /\ UNCHANGED consumer
          /\ \/ /\ context[origin[d]] \in DOMAIN registry
                /\ handling' = [handling EXCEPT ![d] = registry[context[origin[d]]]]
                /\ UNCHANGED origin
             \/ /\ origin' = [origin EXCEPT ![d] = Nobody]
                /\ UNCHANGED handling
                /\ handling[d] = Nobody
      BY <2>2 DEF Lookup
    <3>2. \A t \in Traces : context[t] \in DOMAIN registry => registry[context[t]] = t
      BY DEF RegistryMatchesTraces, ContextsAreMinted, TypeOK, ContextIds
    <3> QED BY <3>1, <3>2 DEF EventsHaveConsumers
  <2> QED BY <1>22, <2>1, <2>2 DEF Thunk
<1>23. ASSUME NEW n \in Names, OtherStarts(n) PROVE EventsHaveConsumers'
  BY <1>K, <1>23 DEF OtherStarts
<1>24. ASSUME NEW l \in Loggers, OtherStops(l) PROVE EventsHaveConsumers'
  BY <1>K, <1>24 DEF OtherStops
<1>25. CASE UNCHANGED vars
  BY <1>K, <1>25 DEF vars
<1> QED
  BY <1>1, <1>2, <1>3, <1>4, <1>5, <1>6, <1>7, <1>8, <1>9, <1>10, <1>11, <1>12, <1>13, <1>14, <1>15, <1>16, <1>17, <1>18, <1>19, <1>20, <1>21, <1>22, <1>23, <1>24, <1>25
  DEF Next, Start, Finish, Finished

LEMMA SessionsStep ==
  ASSUME TypeOK, SessionsHaveHandles, [Next]_vars
  PROVE  SessionsHaveHandles'
<1>P. /\ pc \in [Traces -> {"builder", "live"} \cup Starting \cup Ending \cup Ended]
      /\ kind \in [Traces -> {"owned", "existing", "file"}]
      /\ logger \in [Loggers -> Traces \cup {Other, Nobody}]
      /\ control \in [Traces -> Loggers \cup {0}]
      /\ stopFailed \in [Traces -> BOOLEAN]
      /\ Nobody \notin Traces /\ Other \notin Traces
  BY TracesAssumption DEF TypeOK, TracesAssumption
<1> USE <1>P DEF Step, builder, ending, handles, sessions, contexts, thunks, SessionsHaveHandles,
        Starting, Ending, Ended
<1>1. ASSUME NEW t \in Traces, Begin(t) PROVE SessionsHaveHandles'
  BY <1>1 DEF Begin
<1>2. ASSUME NEW t \in Traces, StopExisting(t) PROVE SessionsHaveHandles'
  BY <1>2 DEF StopExisting
<1>3. ASSUME NEW t \in Traces, StartTrace(t) PROVE SessionsHaveHandles'
  BY <1>3 DEF StartTrace
<1>4. ASSUME NEW t \in Traces, StartTraceFails(t) PROVE SessionsHaveHandles'
  BY <1>4 DEF StartTraceFails
<1>5. ASSUME NEW t \in Traces, Configure(t) PROVE SessionsHaveHandles'
  BY <1>5 DEF Configure
<1>6. ASSUME NEW t \in Traces, Mint(t) PROVE SessionsHaveHandles'
  BY <1>6 DEF Mint
<1>7. ASSUME NEW t \in Traces, Insert(t) PROVE SessionsHaveHandles'
  BY <1>7 DEF Insert
<1>8. ASSUME NEW t \in Traces, Open(t) PROVE SessionsHaveHandles'
  BY <1>8 DEF Open
<1>9. ASSUME NEW t \in Traces, Forget(t) PROVE SessionsHaveHandles'
  BY <1>9 DEF Forget
<1>10. ASSUME NEW t \in Traces, Capture(t) PROVE SessionsHaveHandles'
  BY <1>10 DEF Capture
<1>11. ASSUME NEW t \in Traces, GuardUnregister(t) PROVE SessionsHaveHandles'
  BY <1>11 DEF GuardUnregister
<1>12. ASSUME NEW t \in Traces, GuardClose(t) PROVE SessionsHaveHandles'
  BY <1>12 DEF GuardClose
<1>13. ASSUME NEW t \in Traces, GuardStop(t) PROVE SessionsHaveHandles'
  BY <1>13 DEF GuardStop, StopSession
<1>14. ASSUME NEW t \in Traces, End(t) PROVE SessionsHaveHandles'
  BY <1>14 DEF End
<1>15. ASSUME NEW t \in Traces, Unregister(t) PROVE SessionsHaveHandles'
  BY <1>15 DEF Unregister
<1>16. ASSUME NEW t \in Traces, Close(t) PROVE SessionsHaveHandles'
  BY <1>16 DEF Close, CloseConsumer, EndCall
<1>17. ASSUME NEW t \in Traces, Stop(t) PROVE SessionsHaveHandles'
  BY <1>17 DEF Stop, StopSession, EndCall
<1>18. ASSUME NEW t \in Traces, DropContext(t) PROVE SessionsHaveHandles'
  BY <1>18 DEF DropContext
<1>19. ASSUME NEW t \in Traces, Spawn(t) PROVE SessionsHaveHandles'
  BY <1>19 DEF Spawn
<1>20. ASSUME NEW t \in Traces, Consume(t) PROVE SessionsHaveHandles'
  BY <1>20 DEF Consume, Process, ProcessReturns, Drained
<1>21. ASSUME NEW d \in Deliverers, NEW t \in Traces, Deliver(d, t) PROVE SessionsHaveHandles'
  BY <1>21 DEF Deliver
<1>22. ASSUME NEW d \in Deliverers, Thunk(d) PROVE SessionsHaveHandles'
  BY <1>22 DEF Thunk, Lookup, Handled
<1>23. ASSUME NEW n \in Names, OtherStarts(n) PROVE SessionsHaveHandles'
  BY <1>23 DEF OtherStarts
<1>24. ASSUME NEW l \in Loggers, OtherStops(l) PROVE SessionsHaveHandles'
  BY <1>24 DEF OtherStops
<1>25. CASE UNCHANGED vars
  BY <1>25 DEF vars
<1> HIDE DEF SessionsHaveHandles
<1> QED
  BY <1>1, <1>2, <1>3, <1>4, <1>5, <1>6, <1>7, <1>8, <1>9, <1>10, <1>11, <1>12, <1>13, <1>14, <1>15, <1>16, <1>17, <1>18, <1>19, <1>20, <1>21, <1>22, <1>23, <1>24, <1>25
  DEF Next, Start, Finish, Finished
-----------------------------------------------------------------------------
(* The inductive invariant and what follows from it *)

LEMMA InvariantInit == Init => IInv
<1> SUFFICES ASSUME Init PROVE IInv
  OBVIOUS
<1>1. Holders = {} /\ DOMAIN registry = {} /\ Cardinality({}) = 0 /\ Cardinality(Traces) \in Nat
  BY FS_EmptySet, FS_CardinalityType, TracesAssumption DEF Init, Holders, TracesAssumption
<1>2. TypeOK
  <2>1. label \in [Loggers -> Names] /\ replace \in [Traces -> BOOLEAN]
    BY DEF Init
  <2> QED BY <1>1, <2>1, BoundsAssumption DEF Init, TypeOK, BoundsAssumption
<1>3. ContextsAreMinted
  BY <1>1 DEF Init, ContextsAreMinted, Unminted, Unopened, Minted, Opened, Ending
<1>4. RegistryMatchesTraces
  BY <1>1 DEF Init, RegistryMatchesTraces, Holds
<1>5. ConsumersFollow
  BY DEF Init, ConsumersFollow, Unminted, Unopened, Opened, Closed, Ending, Ended
<1>6. EventsHaveConsumers /\ SessionsHaveHandles
  BY TracesAssumption
  DEF Init, EventsHaveConsumers, SessionsHaveHandles, Ended, TracesAssumption
<1> QED BY <1>2, <1>3, <1>4, <1>5, <1>6 DEF IInv

LEMMA InvariantNext == IInv /\ [Next]_vars => IInv'
BY TypeStep, MintedStep, RegistryStep, ConsumersStep, EventsStep, SessionsStep DEF IInv

\* Whatever the traces, the delivery threads and other processes do: ids are never
\* shared, the registry holds the contexts of exactly the traces between `insert`
\* and their end, and a session has the handle of the trace that started it.
THEOREM Invariant == Spec => []IInv
<1> QED BY InvariantInit, InvariantNext, PTL DEF Spec

\* The ids, handles and states of any number of traces stay within their types: no
\* more ids are minted than there are traces.
THEOREM TypeCorrect == Spec => []TypeOK
<1>1. IInv => TypeOK
  BY DEF IInv
<1> QED BY <1>1, Invariant, PTL

\* A context id leads an event to the callback data of the trace the event was
\* delivered for, or to none, even when that trace has ended and others began since.
THEOREM EventsAlwaysReachOwnTrace == Spec => []EventsReachOwnTrace
<1>1. IInv => EventsReachOwnTrace
  BY DEF IInv, EventsHaveConsumers, EventsReachOwnTrace
<1> QED BY <1>1, Invariant, PTL

\* An open trace keeps its entry whatever other traces insert and retire.
THEOREM OpenTracesAlwaysDispatch == Spec => []OpenTracesDispatch
<1>1. IInv => OpenTracesDispatch
  BY DEF IInv, RegistryMatchesTraces, Holds, OpenTracesDispatch
<1> QED BY <1>1, Invariant, PTL

\* Every way a trace can end, or fail to begin, takes its entry out of the registry.
THEOREM ContextsAreAlwaysFreed == Spec => []ContextsAreFreed
<1>1. IInv => ContextsAreFreed
  BY DEF IInv, RegistryMatchesTraces, Holds, Ended, ContextsAreFreed
<1> QED BY <1>1, Invariant, PTL

\* Every way a trace can end, or fail to begin, closes its consumer and stops its
\* session, or ends with a STOP that the OS rejected.
THEOREM NothingEverKeepsRunning == Spec => []NothingKeepsRunning
<1>1. IInv => NothingKeepsRunning
  BY DEF IInv, ConsumersFollow, SessionsHaveHandles, Closed, Ended, NothingKeepsRunning
<1> QED BY <1>1, Invariant, PTL

\* A thunk that finds an entry finds that of a trace whose consumer is open: the
\* entry is retired before CloseTrace is called.
THEOREM ClosedTracesAlwaysStaySilent == Spec => ClosedTracesStaySilent
<1> DEFINE Silent == \A d \in Deliverers :
                       handling[d] = Nobody /\ handling'[d] # Nobody => consumer[handling'[d]] = "open"
<1>1. ASSUME IInv, [Next]_vars PROVE [Silent]_vars
  <2>1. ASSUME UNCHANGED handling PROVE Silent
    BY <2>1
  <2>2. ASSUME NEW d \in Deliverers, Thunk(d) PROVE Silent
    <3>1. CASE Handled(d)
      BY <1>1, <3>1 DEF Handled, IInv, TypeOK
    <3>2. CASE Lookup(d) /\ ~UNCHANGED handling
      <4>1. PICK t \in Traces : t = origin[d] /\ context[t] \in DOMAIN registry
        BY <1>1, <3>2 DEF Lookup, IInv, TypeOK
      <4>2. handling' = [handling EXCEPT ![d] = registry[context[t]]]
        BY <3>2, <4>1 DEF Lookup
      <4>3. registry[context[t]] = t /\ Holds(t)
        BY <1>1, <4>1
        DEF IInv, RegistryMatchesTraces, ContextsAreMinted, TypeOK, ContextIds
      <4>4. consumer[t] # "none"
        BY <1>1, <4>1, TracesAssumption DEF IInv, EventsHaveConsumers, TracesAssumption
      <4>5. consumer[t] = "open"
        BY <1>1, <4>3, <4>4
        DEF IInv, Holds, ConsumersFollow, Unopened, Unminted, Opened
      <4> QED BY <1>1, <4>2, <4>3, <4>5 DEF IInv, TypeOK
    <3> QED BY <2>1, <2>2, <3>1, <3>2 DEF Thunk
  <2> HIDE DEF Silent
  <2> QED
    BY <1>1, <2>1, <2>2
    DEF Next, Begin, Start, StopExisting, StartTrace, StartTraceFails, Configure, Mint, Insert,
        Open, Forget, Capture, GuardUnregister, GuardClose, GuardStop, Spawn, End, Finish,
        Unregister, Close, Stop, DropContext, Consume, Process, ProcessReturns, Drained,
        Deliver, OtherStarts, OtherStops, Finished, thunks, vars
<1> QED BY <1>1, Invariant, PTL DEF Spec, ClosedTracesStaySilent
=============================================================================
