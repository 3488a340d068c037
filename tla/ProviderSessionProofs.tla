----------------------- MODULE ProviderSessionProofs -----------------------
(***************************************************************************)
(* Proofs about ProviderSession, for every set of GUIDs and threads and    *)
(* every bound.                                                            *)
(***************************************************************************)
EXTENDS ProviderSession, WellFoundedInduction, TLAPS

\* A set of registration numbers that is not empty has a last one.
LEMMA HasLast ==
  ASSUME NEW n \in Nat, NEW S \in SUBSET (1 .. n), S # {}
  PROVE  \E i \in S : \A j \in S : j <= i
<1> DEFINE T == {n - i : i \in S}
<1>1. T \subseteq Nat /\ T # {}
  <2>1. PICK i \in S : TRUE
    OBVIOUS
  <2>2. n - i \in T
    OBVIOUS
  <2>3. \A j \in S : n - j \in Nat
    BY SMT
  <2> QED BY <2>2, <2>3
<1>2. PICK x \in T : \A y \in T : <<y, x>> \notin OpToRel(<, Nat)
  BY <1>1, NatLessThanWellFounded, WFMin, Zenon
<1>3. \A y \in T : ~(y < x)
  BY <1>1, <1>2 DEF OpToRel
<1>4. PICK i \in S : x = n - i
  OBVIOUS
<1>5. \A j \in S : j <= i
  <2> TAKE j \in S
  <2>1. n - j \in T
    OBVIOUS
  <2>2. ~(n - j < n - i)
    BY <2>1, <1>3, <1>4
  <2> QED BY <2>2, SMT
<1> QED BY <1>5

LEMMA LastOfIsLast ==
  ASSUME NEW n \in Nat, NEW S \in SUBSET (1 .. n), S # {}
  PROVE  LastOf(S) \in S /\ \A j \in S : j <= LastOf(S)
BY HasLast, Zenon DEF LastOf

LEMMA LastOfIs ==
  ASSUME NEW n \in Nat, NEW S \in SUBSET (1 .. n),
         NEW i \in S, \A j \in S : j <= i
  PROVE  LastOf(S) = i
<1>1. LastOf(S) \in S /\ LastOf(S) <= i /\ i <= LastOf(S)
  BY LastOfIsLast
<1>2. i \in Int
  BY SMT
<1>3. LastOf(S) \in Int
  <2> DEFINE k == LastOf(S)
  <2>1. k \in S
    BY <1>1
  <2> HIDE DEF k
  <2>2. k \in Int
    BY <2>1, SMT
  <2> QED BY <2>2 DEF k
<1> QED BY <1>1, <1>2, <1>3, SMT
-----------------------------------------------------------------------------
(* Typing.  That a call has its argument is what makes the types inductive. *)

Typed == TypeOK /\ CallsHaveArguments

LEMMA TypeInit == Init => TypeOK
<1> SUFFICES ASSUME Init PROVE TypeOK
  OBVIOUS
<1> USE ThreadsAssumption, GuidsAssumption, BoundsAssumption
<1>1. nextId \in 1 .. MaxInitial + 1 /\ providers = 1 .. nextId - 1
  BY DEF Init
<1>2. providers \in SUBSET Ids
  BY <1>1, SMT DEF Ids
<1>3. guidOf \in [1 .. nextId - 1 -> Guids]
  BY DEF Init
<1>4. byGuid = [g \in {guidOf[i] : i \in providers} |-> EntriesOf(g)]
  BY DEF Init
<1>5. DOMAIN byGuid \subseteq Guids
  BY <1>1, <1>3, <1>4
<1>6. \A g \in DOMAIN byGuid : byGuid[g] \in SUBSET (1 .. nextId - 1) /\ byGuid[g] # {}
  BY <1>1, <1>4 DEF EntriesOf
<1>7. byGuid \in [DOMAIN byGuid -> SUBSET Ids]
  BY <1>2, <1>4 DEF EntriesOf
<1>8. \A g \in DOMAIN byGuid : LastOf(byGuid[g]) \in Ids
  <2> TAKE g \in DOMAIN byGuid
  <2>1. nextId - 1 \in Nat
    BY <1>1, SMT
  <2>2. LastOf(byGuid[g]) \in byGuid[g]
    BY <1>6, <2>1, LastOfIsLast
  <2> QED BY <1>2, <1>6, <1>7, <2>2
<1>9. /\ DOMAIN configured \subseteq DOMAIN byGuid
      /\ configured \in [DOMAIN configured -> Ids]
  BY <1>8 DEF Init
<1>10. nextId \in 1 .. MaxInitial + MaxCalls + 1
  BY <1>1, SMT
<1>11. /\ pc \in [Threads -> PCs]
       /\ arg \in [Threads -> Guids \cup {NoGuid}]
       /\ own \in [Threads -> Ids \cup {0}]
  BY DEF Init, PCs
<1>12. /\ event \in [Deliverers -> Guids \cup {NoGuid}]
       /\ todo \in [Deliverers -> SUBSET Ids]
       /\ found \in [Deliverers -> BOOLEAN]
       /\ running \in [Deliverers -> Ids \cup {0}]
  BY DEF Init
<1>13. /\ owned \in BOOLEAN
       /\ mutex \in Threads \cup {NoThread}
       /\ calls \in 0 .. MaxCalls
       /\ eventsHandled \in 0 .. MaxEvents
  BY SMT DEF Init
<1> QED
  BY <1>2, <1>3, <1>5, <1>7, <1>9, <1>10, <1>11, <1>12, <1>13, Zenon DEF TypeOK

LEMMA TypeNext == Typed /\ [Next]_vars => Typed'
<1> SUFFICES ASSUME Typed, [Next]_vars PROVE Typed'
  OBVIOUS
<1> USE ThreadsAssumption, GuidsAssumption, BoundsAssumption
<1> USE DEF Typed, TypeOK, CallsHaveArguments, Threads, PCs, session, registry, mutation, delivery
<1>1. ASSUME NEW t \in Threads, CallEnable(t) PROVE Typed'
  BY <1>1 DEF CallEnable, MayCall
<1>2. ASSUME NEW t \in Threads, CallDisable(t) PROVE Typed'
  BY <1>2 DEF CallDisable, MayCall
<1>3. ASSUME NEW t \in Threads, LockEnable(t) PROVE Typed'
  BY <1>3 DEF LockEnable, LockFor
<1>4. ASSUME NEW t \in Threads, Register(t) PROVE Typed'
  <2>1. nextId \in Ids /\ arg[t] \in Guids
    BY <1>4 DEF Register
  <2>2. nextId' = nextId + 1 /\ nextId' \in 1 .. MaxInitial + MaxCalls + 1
    BY <1>4, <2>1 DEF Register, Add, Ids
  <2>3. guidOf' \in [1 .. nextId' - 1 -> Guids]
    BY <1>4, <2>1, <2>2 DEF Register, Add, Ids
  <2>4. Entries(arg[t]) \in SUBSET Ids
    BY DEF Entries
  <2>5. DOMAIN byGuid' \subseteq Guids /\ byGuid' \in [DOMAIN byGuid' -> SUBSET Ids]
    BY <1>4, <2>1, <2>4 DEF Register, Add
  <2>6. /\ providers' \in SUBSET Ids
        /\ own' \in [Threads -> Ids \cup {0}]
        /\ pc' \in [Threads -> PCs]
    BY <1>4, <2>1 DEF Register, Add
  <2> QED BY <1>4, <2>2, <2>3, <2>5, <2>6 DEF Register
<1>5. ASSUME NEW t \in Threads, OsEnable(t) PROVE Typed'
  <2>1. arg[t] \in Guids /\ own[t] \in Ids
    BY <1>5 DEF OsEnable
  <2>2. /\ DOMAIN configured' \subseteq Guids
        /\ configured' \in [DOMAIN configured' -> Ids]
    BY <1>5, <2>1 DEF OsEnable
  <2>3. /\ pc' \in [Threads -> PCs]
        /\ arg' \in [Threads -> Guids \cup {NoGuid}]
        /\ own' \in [Threads -> Ids \cup {0}]
    BY <1>5 DEF OsEnable, Return
  <2>4. CallsHaveArguments'
    BY <1>5, <2>1 DEF OsEnable, Return
  <2> QED BY <1>5, <2>2, <2>3, <2>4 DEF OsEnable
<1>6. ASSUME NEW t \in Threads, OsEnableFails(t) PROVE Typed'
  BY <1>6 DEF OsEnableFails
<1>7. ASSUME NEW t \in Threads, Rollback(t) PROVE Typed'
  BY <1>7 DEF Rollback, RemoveOne, Entries, Return
<1>8. ASSUME NEW t \in Threads, Capture(t) PROVE Typed'
  BY <1>8 DEF Capture, Return
<1>9. ASSUME NEW t \in Threads, LockDisable(t) PROVE Typed'
  BY <1>9 DEF LockDisable, LockFor
<1>10. ASSUME NEW t \in Threads, Check(t) PROVE Typed'
  BY <1>10 DEF Check, Return
<1>11. ASSUME NEW t \in Threads, OsDisable(t) PROVE Typed'
  BY <1>11 DEF OsDisable
<1>12. ASSUME NEW t \in Threads, OsDisableFails(t) PROVE Typed'
  BY <1>12 DEF OsDisableFails, Return
<1>13. ASSUME NEW t \in Threads, Unregister(t) PROVE Typed'
  BY <1>13 DEF Unregister, RemoveAllByGuid, Return
<1>14. ASSUME NEW d \in Deliverers, Deliver(d) PROVE Typed'
  BY <1>14 DEF Deliver
<1>15. ASSUME NEW d \in Deliverers, Lookup(d) PROVE Typed'
  BY <1>15 DEF Lookup, Entries
<1>16. ASSUME NEW d \in Deliverers, RunCallbacks(d) PROVE Typed'
  BY <1>16 DEF RunCallbacks
<1>17. ASSUME NEW d \in Deliverers, EndCallbacks(d) PROVE Typed'
  BY <1>17 DEF EndCallbacks
<1>18. ASSUME NEW d \in Deliverers, EndEvent(d) PROVE Typed'
  BY <1>18 DEF EndEvent
<1>19. CASE SessionEnds
  BY <1>19 DEF SessionEnds
<1>20. CASE UNCHANGED vars
  BY <1>20 DEF vars
<1> QED
  BY <1>1, <1>2, <1>3, <1>4, <1>5, <1>6, <1>7, <1>8, <1>9, <1>10, <1>11, <1>12,
     <1>13, <1>14, <1>15, <1>16, <1>17, <1>18, <1>19, <1>20
     DEF Next, Mutate, Dispatch, Finished

\* The state is well typed: registration numbers stay inside their bound, and
\* every partial function is one.
THEOREM TypeCorrect == Spec => []TypeOK
<1>1. Init => Typed
  BY TypeInit DEF Typed, CallsHaveArguments, Init
<1>2. Typed => TypeOK
  BY DEF Typed
<1> QED BY <1>1, <1>2, TypeNext, PTL DEF Spec
-----------------------------------------------------------------------------
(* The session mutation lock *)

LEMMA LockHeldNext ==
  ASSUME Typed, LockHeld, [Next]_vars
  PROVE  LockHeld'
<1> USE ThreadsAssumption
<1> USE DEF Typed, TypeOK, Threads, LockHeld, Critical, session, registry, mutation, delivery
<1>1. ASSUME NEW t \in Threads, CallEnable(t) \/ CallDisable(t) PROVE LockHeld'
  BY <1>1 DEF CallEnable, CallDisable, MayCall
<1>2. ASSUME NEW t \in Threads, LockEnable(t) \/ LockDisable(t) PROVE LockHeld'
  BY <1>2 DEF LockEnable, LockDisable, LockFor
<1>3. ASSUME NEW t \in Threads, Register(t) \/ OsEnableFails(t) \/ OsDisable(t) PROVE LockHeld'
  BY <1>3 DEF Register, OsEnableFails, OsDisable
<1>4. ASSUME NEW t \in Threads, OsEnable(t) \/ Rollback(t) \/ OsDisableFails(t) \/ Unregister(t)
      PROVE LockHeld'
  <2>1. \E p \in {"idle", "capture"} : pc' = [pc EXCEPT ![t] = p]
    BY <1>4 DEF OsEnable, Rollback, OsDisableFails, Unregister, Return
  <2>2. mutex' = NoThread /\ pc[t] \in Critical
    BY <1>4 DEF OsEnable, Rollback, OsDisableFails, Unregister
  <2> QED BY <2>1, <2>2
<1>5. ASSUME NEW t \in Threads, Capture(t) PROVE LockHeld'
  BY <1>5 DEF Capture, Return
<1>6. ASSUME NEW t \in Threads, Check(t) PROVE LockHeld'
  BY <1>6 DEF Check, Return
<1>7. ASSUME NEW d \in Deliverers, Deliver(d) \/ Dispatch(d) PROVE LockHeld'
  BY <1>7 DEF Deliver, Dispatch, Lookup, RunCallbacks, EndCallbacks, EndEvent
<1>8. CASE SessionEnds \/ UNCHANGED vars
  BY <1>8 DEF SessionEnds, vars
<1> QED
  BY <1>1, <1>2, <1>3, <1>4, <1>5, <1>6, <1>7, <1>8 DEF Next, Mutate, Finished

-----------------------------------------------------------------------------
(* The registry *)

Registry ==
  /\ providers \subseteq 1 .. nextId - 1
  /\ IndexesAgree
  /\ InFlight

LEMMA RegistryUnchanged ==
  ASSUME Registry, UNCHANGED <<registry, pc, own, arg>>
  PROVE  Registry'
BY DEF Registry, registry, IndexesAgree, InFlight, EntriesOf

LEMMA RegisterKeepsRegistry ==
  ASSUME Typed, LockHeld, Registry, NEW t \in Threads, Register(t)
  PROVE  Registry'
<1> USE DEF Registry
<1> DEFINE g == arg[t]
<1>1. /\ nextId \in Nat \ {0} /\ nextId \in Ids
      /\ nextId \notin providers
      /\ g \in Guids
  BY DEF Typed, TypeOK, CallsHaveArguments, Register
<1>2. /\ nextId' = nextId + 1
      /\ providers' = providers \cup {nextId}
      /\ guidOf' = [j \in 1 .. nextId |-> IF j = nextId THEN g ELSE guidOf[j]]
      /\ byGuid' = [h \in DOMAIN byGuid \cup {g} |->
                      IF h = g THEN Entries(g) \cup {nextId} ELSE byGuid[h]]
      /\ pc[t] = "register" /\ arg' = arg
      /\ pc' = [pc EXCEPT ![t] = "osEnable"]
      /\ own' = [own EXCEPT ![t] = nextId]
  BY DEF Register, Add
<1>3. providers' \subseteq 1 .. nextId' - 1
  <2>1. ASSUME NEW i \in providers' PROVE i \in 1 .. nextId
    <3>1. i \in 1 .. nextId - 1 \/ i = nextId
      BY <1>2, <2>1
    <3> QED BY <1>1, <3>1, SMT
  <2>2. nextId' - 1 = nextId
    BY <1>1, <1>2, SMT
  <2> QED BY <2>1, <2>2
<1>4. guidOf'[nextId] = g /\ \A i \in providers : guidOf'[i] = guidOf[i]
  BY <1>1, <1>2
<1>5. \A h : EntriesOf(h)' = IF h = g THEN EntriesOf(g) \cup {nextId} ELSE EntriesOf(h)
  BY <1>1, <1>2, <1>4 DEF EntriesOf
<1>6. Entries(g) = EntriesOf(g)
  BY DEF Entries, IndexesAgree, EntriesOf
<1>7. IndexesAgree'
  <2>1. \A h \in DOMAIN byGuid' : byGuid'[h] = EntriesOf(h)' /\ byGuid'[h] # {}
    BY <1>2, <1>5, <1>6 DEF IndexesAgree
  <2>2. \A i \in providers' : guidOf'[i] \in DOMAIN byGuid'
    BY <1>2, <1>4 DEF IndexesAgree
  <2> QED BY <2>1, <2>2 DEF IndexesAgree
<1>8. InFlight'
  <2>1. \A u \in Threads : pc'[u] \in {"osEnable", "rollback"} => u = t
    BY <1>2 DEF Typed, TypeOK, LockHeld, Critical
  <2>2. own'[t] = nextId /\ arg'[t] = g
    BY <1>2 DEF Typed, TypeOK
  <2>3. \A i \in providers' : i <= nextId
    BY <1>1, <1>2
  <2>4. \A u \in Threads : pc'[u] \notin {"osDisable", "unregister"}
    BY <1>2 DEF Typed, TypeOK, LockHeld, Critical
  <2> QED BY <1>2, <1>4, <2>1, <2>2, <2>3, <2>4 DEF InFlight
<1> QED BY <1>3, <1>7, <1>8

LEMMA RollbackKeepsRegistry ==
  ASSUME Typed, LockHeld, Registry, NEW t \in Threads, Rollback(t)
  PROVE  Registry'
<1> USE DEF Registry
<1> DEFINE i == own[t]
           g == guidOf[i]
<1>1. /\ pc[t] = "rollback" /\ i \in providers /\ g = arg[t]
      /\ guidOf' = guidOf /\ nextId' = nextId
      /\ providers' = providers \ {i}
      /\ byGuid' = [h \in {k \in DOMAIN byGuid : k # g \/ Entries(g) \ {i} # {}} |->
                      IF h = g THEN Entries(g) \ {i} ELSE byGuid[h]]
  BY DEF Rollback, RemoveOne, InFlight
<1>2. g \in DOMAIN byGuid /\ Entries(g) = EntriesOf(g)
  BY <1>1 DEF IndexesAgree, Entries
<1>3. \A h : EntriesOf(h)' = IF h = g THEN EntriesOf(g) \ {i} ELSE EntriesOf(h)
  BY <1>1 DEF EntriesOf
<1>4. \A h \in DOMAIN byGuid' : byGuid'[h] = EntriesOf(h)' /\ byGuid'[h] # {}
  BY <1>1, <1>2, <1>3 DEF IndexesAgree
<1>5. ASSUME NEW j \in providers' PROVE guidOf'[j] \in DOMAIN byGuid'
  <2>1. j \in EntriesOf(guidOf[j])' /\ guidOf[j] \in DOMAIN byGuid
    BY <1>1, <1>5 DEF EntriesOf, IndexesAgree
  <2> QED BY <1>1, <1>2, <1>3, <2>1
<1>6. InFlight'
  BY <1>1 DEF InFlight, Rollback, Return, Typed, TypeOK, LockHeld, Critical
<1> QED BY <1>1, <1>4, <1>5, <1>6 DEF IndexesAgree

LEMMA UnregisterKeepsRegistry ==
  ASSUME Typed, LockHeld, Registry, NEW t \in Threads, Unregister(t)
  PROVE  Registry' /\ providers' = providers \ EntriesOf(arg[t])
<1> USE DEF Registry
<1> DEFINE g == arg[t]
<1>1. /\ pc[t] = "unregister" /\ guidOf' = guidOf /\ nextId' = nextId
      /\ byGuid' = [h \in DOMAIN byGuid \ {g} |-> byGuid[h]]
  BY DEF Unregister, RemoveAllByGuid
<1>2. providers' = providers \ EntriesOf(g)
  BY DEF Unregister, RemoveAllByGuid, IndexesAgree, EntriesOf
<1>3. \A h : EntriesOf(h)' = IF h = g THEN {} ELSE EntriesOf(h)
  BY <1>1, <1>2 DEF EntriesOf
<1>4. IndexesAgree'
  BY <1>1, <1>2, <1>3 DEF IndexesAgree, EntriesOf
<1>5. InFlight'
  BY <1>1, <1>2 DEF InFlight, Unregister, Return, Typed, TypeOK, LockHeld, Critical
<1> QED BY <1>1, <1>2, <1>4, <1>5

LEMMA RegistryNext ==
  ASSUME Typed, LockHeld, Registry, [Next]_vars
  PROVE  Registry'
<1> USE DEF session, registry, mutation, delivery
<1> DEFINE Same == UNCHANGED <<providers, byGuid, guidOf, nextId>>
<1>1. ASSUME Same, InFlight' PROVE Registry'
  BY <1>1 DEF Registry, IndexesAgree, EntriesOf
<1>2. ASSUME NEW t \in Threads, CallEnable(t) \/ CallDisable(t) PROVE Registry'
  <2>1. InFlight'
    BY <1>2 DEF CallEnable, CallDisable, MayCall, Registry, InFlight, Typed, TypeOK
  <2> QED BY <1>1, <1>2, <2>1 DEF CallEnable, CallDisable
<1>3. ASSUME NEW t \in Threads, LockEnable(t) \/ LockDisable(t) PROVE Registry'
  <2>1. InFlight'
    BY <1>3 DEF LockEnable, LockDisable, LockFor, Registry, InFlight, Typed, TypeOK
  <2> QED BY <1>1, <1>3, <2>1 DEF LockEnable, LockDisable, LockFor
<1>4. ASSUME NEW t \in Threads, OsEnable(t) \/ OsEnableFails(t) PROVE Registry'
  <2>1. InFlight'
    BY <1>4 DEF OsEnable, OsEnableFails, Return, Registry, InFlight, Typed, TypeOK
  <2> QED BY <1>1, <1>4, <2>1 DEF OsEnable, OsEnableFails
<1>5. ASSUME NEW t \in Threads, OsDisable(t) \/ OsDisableFails(t) PROVE Registry'
  <2>1. InFlight'
    BY <1>5 DEF OsDisable, OsDisableFails, Return, Registry, InFlight, Typed, TypeOK
  <2> QED BY <1>1, <1>5, <2>1 DEF OsDisable, OsDisableFails
<1>6. ASSUME NEW t \in Threads, Check(t) \/ Capture(t) PROVE Registry'
  <2>1. InFlight'
    BY <1>6 DEF Check, Capture, Return, Registry, InFlight, Typed, TypeOK
  <2> QED BY <1>1, <1>6, <2>1 DEF Check, Capture
<1>7. ASSUME NEW d \in Deliverers, Deliver(d) \/ Dispatch(d) PROVE Registry'
  BY <1>7, RegistryUnchanged
     DEF Deliver, Dispatch, Lookup, RunCallbacks, EndCallbacks, EndEvent
<1>8. CASE SessionEnds \/ UNCHANGED vars
  BY <1>8, RegistryUnchanged DEF SessionEnds, vars
<1> QED
  BY <1>2, <1>3, <1>4, <1>5, <1>6, <1>7, <1>8,
     RegisterKeepsRegistry, RollbackKeepsRegistry, UnregisterKeepsRegistry
     DEF Next, Mutate, Finished
-----------------------------------------------------------------------------
(* What a step does to the committed entries.  The holder of the lock alone *)
(* has uncommitted ones.                                                   *)

LEMMA UncommittedWhen ==
  /\ LockHeld /\ mutex = NoThread => Committed = providers
  /\ \A t \in Threads : LockHeld /\ mutex = t =>
       /\ pc[t] \in {"osEnable", "rollback"} => Committed = providers \ {own[t]}
       /\ pc[t] = "unregister" => Committed = providers \ EntriesOf(arg[t])
       /\ pc[t] \notin {"osEnable", "rollback", "unregister"} => Committed = providers
BY ThreadsAssumption
   DEF LockHeld, Critical, Committed, Uncommitted, EntriesOf, ThreadsAssumption

LEMMA UncommittedWhenNext ==
  /\ LockHeld' /\ mutex' = NoThread => Committed' = providers'
  /\ \A t \in Threads : LockHeld' /\ mutex' = t =>
       /\ pc'[t] \in {"osEnable", "rollback"} => Committed' = providers' \ {own'[t]}
       /\ pc'[t] = "unregister" => Committed' = providers' \ EntriesOf(arg[t])'
       /\ pc'[t] \notin {"osEnable", "rollback", "unregister"} => Committed' = providers'
BY ThreadsAssumption
   DEF LockHeld, Critical, Committed, Uncommitted, EntriesOf, ThreadsAssumption

\* Nothing that the abstract specification sees.
Stutters ==
  /\ Committed' = Committed
  /\ \A i \in Committed : guidOf'[i] = guidOf[i]
  /\ configured' = configured

\* The session is gone.
Ends ==
  /\ Committed' = Committed
  /\ guidOf' = guidOf
  /\ owned /\ owned' = FALSE
  /\ configured' = [g \in {} |-> 0]

\* The entry i takes effect for g.
Enables(g, i) ==
  /\ i \in Ids /\ i \notin Committed /\ \A j \in Committed : j <= i
  /\ Committed' = Committed \cup {i}
  /\ guidOf' = guidOf /\ guidOf[i] = g
  /\ configured' = [h \in DOMAIN configured \cup {g} |->
                      IF h = g THEN i ELSE configured[h]]

\* The entries of g lose effect.
Disables(g) ==
  /\ CommittedFor(g) # {}
  /\ Committed' = Committed \ CommittedFor(g)
  /\ guidOf' = guidOf
  /\ configured' = [h \in DOMAIN configured \ {g} |-> configured[h]]

LEMMA StepEffect ==
  ASSUME Typed, LockHeld, Registry, [Next]_vars
  PROVE  \/ Ends
         \/ /\ owned' = owned
            /\ \/ Stutters
               \/ owned /\ \E g \in Guids : Disables(g) \/ \E i \in Ids : Enables(g, i)
<1>1. LockHeld' /\ Registry'
  BY LockHeldNext, RegistryNext
<1> DEFINE Same == UNCHANGED <<owned, configured, guidOf>>
<1> USE DEF Typed, TypeOK, Threads, session, registry, mutation, delivery
<1>2. ASSUME Same, Committed' = Committed PROVE Stutters /\ owned' = owned
  BY <1>2 DEF Stutters
<1>3. ASSUME NEW t \in Threads, CallEnable(t) \/ CallDisable(t) \/ Capture(t)
      PROVE  Stutters /\ owned' = owned
  <2>1. Committed' = Committed
    BY <1>3 DEF CallEnable, CallDisable, Capture, Return, MayCall, Committed, Uncommitted
  <2> QED BY <1>2, <1>3, <2>1 DEF CallEnable, CallDisable, Capture
<1>4. ASSUME NEW t \in Threads, LockEnable(t) \/ LockDisable(t)
      PROVE  Stutters /\ owned' = owned
  <2>1. /\ mutex = NoThread /\ mutex' = t /\ providers' = providers
        /\ pc'[t] \in {"register", "check"}
    BY <1>4 DEF LockEnable, LockDisable, LockFor
  <2>2. Committed' = Committed
    BY <1>1, <2>1, UncommittedWhen, UncommittedWhenNext
  <2> QED BY <1>2, <1>4, <2>2 DEF LockEnable, LockDisable, LockFor
<1>5. ASSUME NEW t \in Threads, Register(t) PROVE Stutters /\ owned' = owned
  <2>1. /\ mutex = t /\ mutex' = t /\ pc[t] = "register" /\ pc'[t] = "osEnable"
        /\ providers' = providers \cup {nextId} /\ own'[t] = nextId
        /\ guidOf' = [j \in 1 .. nextId |-> IF j = nextId THEN arg[t] ELSE guidOf[j]]
        /\ configured' = configured /\ owned' = owned
    BY <1>5 DEF Register, Add, LockHeld, Critical
  <2>2. nextId \in Nat /\ providers \subseteq 1 .. nextId - 1
    BY DEF Registry
  <2>3. nextId \notin providers /\ \A i \in providers : guidOf'[i] = guidOf[i]
    BY <2>1, <2>2
  <2>4. Committed = providers
    BY <2>1, UncommittedWhen
  <2>5. Committed' = providers' \ {nextId}
    BY <1>1, <2>1, UncommittedWhenNext
  <2>6. Committed' = Committed
    BY <2>1, <2>3, <2>4, <2>5
  <2> QED BY <2>1, <2>3, <2>4, <2>6 DEF Stutters
<1>6. ASSUME NEW t \in Threads, OsEnableFails(t) PROVE Stutters /\ owned' = owned
  <2>1. /\ mutex = t /\ mutex' = t /\ pc[t] = "osEnable" /\ pc'[t] = "rollback"
        /\ providers' = providers /\ own'[t] = own[t]
    BY <1>6 DEF OsEnableFails, LockHeld, Critical
  <2>2. Committed = providers \ {own[t]}
    BY <2>1, UncommittedWhen
  <2>3. Committed' = providers \ {own[t]}
    BY <1>1, <2>1, UncommittedWhenNext
  <2> QED BY <1>2, <1>6, <2>2, <2>3 DEF OsEnableFails
<1>7. ASSUME NEW t \in Threads, Rollback(t) PROVE Stutters /\ owned' = owned
  <2>1. /\ mutex = t /\ mutex' = NoThread /\ pc[t] = "rollback"
        /\ providers' = providers \ {own[t]}
    BY <1>7 DEF Rollback, RemoveOne, LockHeld, Critical
  <2>2. Committed' = Committed
    BY <1>1, <2>1, UncommittedWhen, UncommittedWhenNext
  <2> QED BY <1>2, <1>7, <2>2 DEF Rollback
<1>8. ASSUME NEW t \in Threads, Check(t) \/ OsDisableFails(t)
      PROVE  Stutters /\ owned' = owned
  <2>1. /\ mutex = t /\ pc[t] \in {"check", "osDisable"} /\ providers' = providers
        /\ \/ mutex' = NoThread
           \/ mutex' = t /\ pc'[t] = "osDisable"
    BY <1>8 DEF Check, OsDisableFails, LockHeld, Critical
  <2>2. Committed' = Committed
    BY <1>1, <2>1, UncommittedWhen, UncommittedWhenNext
  <2> QED BY <1>2, <1>8, <2>2 DEF Check, OsDisableFails
<1>9. ASSUME NEW t \in Threads, Unregister(t) PROVE Stutters /\ owned' = owned
  <2>1. /\ mutex = t /\ mutex' = NoThread /\ pc[t] = "unregister"
        /\ providers' = providers \ EntriesOf(arg[t])
    BY <1>9, UnregisterKeepsRegistry DEF Unregister, LockHeld, Critical
  <2>2. Committed' = Committed
    BY <1>1, <2>1, UncommittedWhen, UncommittedWhenNext
  <2> QED BY <1>2, <1>9, <2>2 DEF Unregister
<1>10. ASSUME NEW t \in Threads, OsEnable(t)
       PROVE  owned /\ owned' = owned /\ Enables(arg[t], own[t])
  <2>1. /\ mutex = t /\ mutex' = NoThread /\ pc[t] = "osEnable"
        /\ providers' = providers /\ guidOf' = guidOf
        /\ owned /\ owned' = owned
        /\ configured' = [g \in DOMAIN configured \cup {arg[t]} |->
                            IF g = arg[t] THEN own[t] ELSE configured[g]]
    BY <1>10 DEF OsEnable, LockHeld, Critical
  <2>2. /\ own[t] \in Ids /\ own[t] \in providers /\ guidOf[own[t]] = arg[t]
        /\ \A j \in providers : j <= own[t]
    BY <2>1 DEF CallsHaveArguments, Registry, InFlight
  <2>3. Committed = providers \ {own[t]} /\ Committed' = providers
    BY <1>1, <2>1, UncommittedWhen, UncommittedWhenNext
  <2> QED BY <2>1, <2>2, <2>3, Zenon DEF Enables
<1>11. ASSUME NEW t \in Threads, OsDisable(t)
       PROVE  owned /\ owned' = owned /\ Disables(arg[t])
  <2>1. /\ mutex = t /\ mutex' = t /\ pc[t] = "osDisable" /\ pc'[t] = "unregister"
        /\ providers' = providers /\ guidOf' = guidOf /\ arg' = arg
        /\ owned /\ owned' = owned
        /\ configured' = [g \in DOMAIN configured \ {arg[t]} |-> configured[g]]
    BY <1>11 DEF OsDisable, LockHeld, Critical
  <2>2. EntriesOf(arg[t]) # {}
    BY <2>1 DEF Registry, InFlight, IndexesAgree
  <2>3. EntriesOf(arg[t])' = EntriesOf(arg[t])
    BY <2>1 DEF EntriesOf
  <2>4. Committed = providers /\ Committed' = providers \ EntriesOf(arg[t])
    BY <1>1, <2>1, <2>3, UncommittedWhen, UncommittedWhenNext
  <2>5. CommittedFor(arg[t]) = EntriesOf(arg[t])
    BY <2>4 DEF CommittedFor, EntriesOf
  <2> QED BY <2>1, <2>2, <2>4, <2>5, Zenon DEF Disables
<1>12. ASSUME NEW d \in Deliverers, Deliver(d) \/ Dispatch(d)
       PROVE  Stutters /\ owned' = owned
  <2>1. UNCHANGED <<session, registry, mutation>>
    BY <1>12 DEF Deliver, Dispatch, Lookup, RunCallbacks, EndCallbacks, EndEvent
  <2> QED BY <1>2, <2>1 DEF Committed, Uncommitted
<1>13. CASE UNCHANGED vars
  BY <1>2, <1>13 DEF vars, Committed, Uncommitted
<1>14. CASE SessionEnds
  BY <1>14 DEF SessionEnds, Ends, Committed, Uncommitted
<1>15. \A t \in Threads :
         /\ pc[t] = "osEnable" => arg[t] \in Guids /\ own[t] \in Ids
         /\ pc[t] = "osDisable" => arg[t] \in Guids
  BY DEF CallsHaveArguments
<1>16. \A t \in Threads : /\ OsEnable(t) => pc[t] = "osEnable"
                          /\ OsDisable(t) => pc[t] = "osDisable"
  BY DEF OsEnable, OsDisable
<1> QED
  BY <1>3, <1>4, <1>5, <1>6, <1>7, <1>8, <1>9, <1>10, <1>11, <1>12, <1>13, <1>14, <1>15,
     <1>16 DEF Next, Mutate, Finished
-----------------------------------------------------------------------------
(* The inductive invariant *)

LEMMA InvariantParts == IInv <=> Typed /\ LockHeld /\ Registry /\ CommittedIsConfigured
BY DEF IInv, Typed, Registry

LEMMA InvariantInit == Init => IInv
<1> SUFFICES ASSUME Init PROVE IInv
  OBVIOUS
<1>1. TypeOK
  BY TypeInit
<1>2. CallsHaveArguments /\ LockHeld /\ InFlight
  BY ThreadsAssumption DEF Init, CallsHaveArguments, LockHeld, InFlight, Critical
<1>3. /\ nextId \in Nat \ {0} /\ providers = 1 .. nextId - 1
      /\ byGuid = [g \in {guidOf[i] : i \in providers} |-> EntriesOf(g)]
      /\ configured = [g \in IF owned THEN DOMAIN byGuid ELSE {} |-> LastOf(byGuid[g])]
  BY <1>1 DEF Init, TypeOK
<1>4. IndexesAgree
  BY <1>3 DEF IndexesAgree, EntriesOf
<1>5. Committed = providers
  BY DEF Committed, Uncommitted, Init
<1>6. \A g : CommittedFor(g) = EntriesOf(g)
  BY <1>5 DEF CommittedFor, EntriesOf
<1>7. \A g : EntriesOf(g) # {} <=> g \in DOMAIN byGuid
  BY <1>3 DEF EntriesOf
<1>8. ASSUME NEW g \in DOMAIN byGuid
      PROVE  LastOf(byGuid[g]) \in EntriesOf(g) /\ \A j \in EntriesOf(g) : j <= LastOf(byGuid[g])
  <2>1. byGuid[g] = EntriesOf(g) /\ EntriesOf(g) # {}
    BY <1>4, <1>8 DEF IndexesAgree
  <2>2. EntriesOf(g) \in SUBSET (1 .. nextId - 1) /\ nextId - 1 \in Nat
    BY <1>3, SMT DEF EntriesOf
  <2> QED BY <2>1, <2>2, LastOfIsLast
<1>9. CommittedIsConfigured
  BY <1>3, <1>6, <1>7, <1>8 DEF CommittedIsConfigured
<1> QED BY <1>1, <1>2, <1>3, <1>4, <1>9 DEF IInv

LEMMA ConfiguredNext ==
  ASSUME Typed, CommittedIsConfigured,
         \/ Ends
         \/ /\ owned' = owned
            /\ \/ Stutters
               \/ owned /\ \E g \in Guids : Disables(g) \/ \E i \in Ids : Enables(g, i)
  PROVE  CommittedIsConfigured'
<1>1. ASSUME owned' = owned, Stutters PROVE CommittedIsConfigured'
  <2>1. \A g : CommittedFor(g)' = CommittedFor(g)
    BY <1>1 DEF Stutters, CommittedFor
  <2> QED BY <1>1, <2>1 DEF Stutters, CommittedIsConfigured
<1>2. ASSUME NEW g \in Guids, owned, owned', Disables(g) PROVE CommittedIsConfigured'
  <2>1. \A h : CommittedFor(h)' = IF h = g THEN {} ELSE CommittedFor(h)
    BY <1>2 DEF Disables, CommittedFor
  <2> QED BY <1>2, <2>1 DEF Disables, CommittedIsConfigured
<1>3. ASSUME NEW g \in Guids, NEW i \in Ids, owned, owned', Enables(g, i)
      PROVE  CommittedIsConfigured'
  <2>1. \A h : CommittedFor(h)' = IF h = g THEN CommittedFor(g) \cup {i} ELSE CommittedFor(h)
    BY <1>3 DEF Enables, CommittedFor
  <2>2. i <= i /\ \A j \in CommittedFor(g) : j <= i
    BY <1>3, SMT DEF Enables, CommittedFor, Ids
  <2> QED BY <1>3, <2>1, <2>2 DEF Enables, CommittedIsConfigured
<1>4. CASE Ends
  BY <1>4 DEF Ends, CommittedIsConfigured
<1>5. owned \in BOOLEAN
  BY DEF Typed, TypeOK
<1> QED BY <1>1, <1>2, <1>3, <1>4, <1>5

LEMMA InvariantNext == IInv /\ [Next]_vars => IInv'
<1> SUFFICES ASSUME IInv, [Next]_vars PROVE IInv'
  OBVIOUS
<1>1. Typed /\ LockHeld /\ Registry /\ CommittedIsConfigured
  BY InvariantParts
<1>2. Typed' /\ LockHeld' /\ Registry'
  BY <1>1, TypeNext, LockHeldNext, RegistryNext
<1>3. CommittedIsConfigured'
  BY <1>1, StepEffect, ConfiguredNext
<1> QED BY <1>2, <1>3 DEF IInv, Typed, Registry

\* The conjuncts every property below rests on: the mutation lock is held by the
\* one thread between its registry step and its OS call, the registry agrees with
\* itself, and the session holds the newest committed entry of every GUID.
THEOREM Invariant == Spec => []IInv
<1> QED BY InvariantInit, InvariantNext, PTL DEF Spec

\* The two collections of the dispatch registry agree at every step of every
\* enable, rollback and disable.
THEOREM IndexesAlwaysAgree == Spec => []IndexesAgree
<1>1. IInv => IndexesAgree
  BY DEF IInv
<1> QED BY <1>1, Invariant, PTL

\* A GUID the session delivers always has the entry it is configured for to
\* dispatch to: enable registers first, disable unregisters last.
THEOREM ConfiguredAlwaysRegistered == Spec => []ConfiguredIsRegistered
<1>1. IInv => ConfiguredIsRegistered
  <2> SUFFICES ASSUME IInv, NEW g \in DOMAIN configured
               PROVE  configured[g] \in Entries(g) \cap providers
    BY DEF ConfiguredIsRegistered
  <2>1. g \in Guids /\ configured[g] \in CommittedFor(g)
    BY DEF IInv, TypeOK, CommittedIsConfigured
  <2>2. configured[g] \in providers /\ guidOf[configured[g]] = g
    BY <2>1 DEF CommittedFor, Committed
  <2> QED BY <2>2 DEF IInv, IndexesAgree, Entries, EntriesOf
<1> QED BY <1>1, Invariant, PTL

\* Whenever no mutation is in flight, the session is configured for exactly the
\* registered GUIDs, each as its newest entry asks.
THEOREM SessionAlwaysMatchesRegistry == Spec => []SessionMatchesRegistry
<1>1. IInv => SessionMatchesRegistry
  <2> SUFFICES ASSUME IInv, mutex = NoThread, owned
               PROVE  configured = [g \in DOMAIN byGuid |-> LastOf(byGuid[g])]
    BY DEF SessionMatchesRegistry
  <2>1. Committed = providers
    BY UncommittedWhen DEF IInv
  <2>2. \A g : CommittedFor(g) = EntriesOf(g)
    BY <2>1 DEF CommittedFor, EntriesOf
  <2>3. \A g \in Guids : EntriesOf(g) # {} <=> g \in DOMAIN byGuid
    BY DEF IInv, IndexesAgree, EntriesOf
  <2>4. DOMAIN configured = DOMAIN byGuid
    BY <2>2, <2>3 DEF IInv, TypeOK, CommittedIsConfigured
  <2>5. ASSUME NEW g \in DOMAIN byGuid PROVE configured[g] = LastOf(byGuid[g])
    <3>1. /\ configured[g] \in EntriesOf(g)
          /\ \A j \in EntriesOf(g) : j <= configured[g]
      BY <2>2, <2>4 DEF IInv, TypeOK, CommittedIsConfigured
    <3>2. EntriesOf(g) \in SUBSET (1 .. nextId - 1) /\ nextId - 1 \in Nat
      BY SMT DEF IInv, TypeOK, EntriesOf
    <3>3. byGuid[g] = EntriesOf(g)
      BY DEF IInv, IndexesAgree
    <3> QED BY <3>1, <3>2, <3>3, LastOfIs
  <2> QED BY <2>4, <2>5 DEF IInv, TypeOK
<1> QED BY <1>1, Invariant, PTL
-----------------------------------------------------------------------------
(* Refinement *)

Entry(i) == [id |-> i, guid |-> guidOf[i]]
Mapped   == {Entry(i) : i \in Committed}

LEMMA RefinesInit == Init => Atomic!Init
<1> SUFFICES ASSUME Init PROVE Atomic!Init
  OBVIOUS
<1>1. IInv
  BY InvariantInit
<1>2. /\ Committed = providers
      /\ configured = [g \in IF owned THEN DOMAIN byGuid ELSE {} |-> LastOf(byGuid[g])]
      /\ owned \in BOOLEAN
  BY DEF Committed, Uncommitted, Init
<1>3. Mapped \in SUBSET [id : Ids, guid : Guids]
  BY <1>1, <1>2 DEF Mapped, Entry, IInv, TypeOK
<1>4. {e.guid : e \in Mapped} = DOMAIN byGuid
  <2>1. ASSUME NEW e \in Mapped PROVE e.guid \in DOMAIN byGuid
    BY <1>1, <1>2 DEF Mapped, Entry, IInv, IndexesAgree
  <2>2. ASSUME NEW g \in DOMAIN byGuid PROVE \E e \in Mapped : e.guid = g
    <3>1. PICK i \in providers : guidOf[i] = g
      BY <1>1 DEF IInv, IndexesAgree, EntriesOf
    <3>2. Entry(i) \in Mapped /\ Entry(i).guid = g
      BY <1>2, <3>1 DEF Mapped, Entry
    <3> QED BY <3>2
  <2> QED BY <2>1, <2>2
<1>5. ASSUME NEW g \in DOMAIN byGuid
      PROVE  LastOf(byGuid[g]) = Atomic!Latest({e \in Mapped : e.guid = g}).id
  <2> DEFINE i == LastOf(byGuid[g])
             S == {e \in Mapped : e.guid = g}
             l == Atomic!Latest(S)
  <2>1. byGuid[g] = EntriesOf(g) /\ EntriesOf(g) # {}
    BY <1>1 DEF IInv, IndexesAgree
  <2>2. EntriesOf(g) \in SUBSET (1 .. nextId - 1) /\ nextId - 1 \in Nat
    BY <1>1, SMT DEF IInv, TypeOK, EntriesOf
  <2>3. i \in EntriesOf(g) /\ \A j \in EntriesOf(g) : j <= i
    BY <2>1, <2>2, LastOfIsLast
  <2>4. \A e : e \in S <=> \E j \in EntriesOf(g) : e = [id |-> j, guid |-> g]
    BY <1>2 DEF Mapped, Entry, EntriesOf
  <2>5. l \in S /\ \A e \in S : e.id <= l.id
    <3> HIDE DEF S, i
    <3>1. \E e \in S : \A f \in S : f.id <= e.id
      <4> DEFINE e == [id |-> i, guid |-> g]
      <4>1. e \in S
        BY <2>3, <2>4
      <4>2. \A f \in S : f.id <= e.id
        BY <2>3, <2>4
      <4> QED BY <4>1, <4>2
    <3> QED BY <3>1 DEF Atomic!Latest
  <2> HIDE DEF i, S, l
  <2>6. l.id \in EntriesOf(g) /\ i <= l.id
    <3>1. PICK j \in EntriesOf(g) : l = [id |-> j, guid |-> g]
      BY <2>4, <2>5
    <3>2. [id |-> i, guid |-> g] \in S
      BY <2>3, <2>4
    <3>3. [id |-> i, guid |-> g].id = i
      OBVIOUS
    <3> QED BY <2>5, <3>1, <3>2, <3>3
  <2>7. l.id <= i
    BY <2>3, <2>6
  <2>8. i \in Int /\ l.id \in Int
    BY <2>2, <2>3, <2>6, SMT
  <2>9. i = l.id
    BY <2>6, <2>7, <2>8, SMT
  <2> QED BY <2>9 DEF i, S, l
<1> QED
  BY <1>2, <1>3, <1>4, <1>5 DEF Atomic!Init, Atomic!ForGuid, Mapped, Entry

LEMMA RefinesNext ==
  ASSUME Typed,
         \/ Ends
         \/ /\ owned' = owned
            /\ \/ Stutters
               \/ owned /\ \E g \in Guids : Disables(g) \/ \E i \in Ids : Enables(g, i)
  PROVE  [Atomic!Next]_Atomic!vars
<1>1. CASE owned' = owned /\ Stutters
  <2>1. Mapped' = Mapped
    BY <1>1 DEF Mapped, Entry, Stutters
  <2> QED BY <1>1, <2>1 DEF Stutters, Atomic!vars, Mapped, Entry
<1>2. ASSUME NEW g \in Guids, owned, owned' = owned, Disables(g) PROVE Atomic!Disable(g)
  <2> DEFINE Left == {e \in Mapped : e.guid = g}
  <2>1. Left # {}
    <3>1. PICK i \in Committed : guidOf[i] = g
      BY <1>2 DEF Disables, CommittedFor
    <3>2. Entry(i) \in Mapped /\ Entry(i).guid = g
      BY <3>1 DEF Mapped, Entry
    <3> QED BY <3>2
  <2>2. Mapped' = Mapped \ Left
    BY <1>2 DEF Disables, CommittedFor, Mapped, Entry
  <2> QED
    BY <1>2, <2>1, <2>2 DEF Disables, Atomic!Disable, Atomic!ForGuid, Mapped, Entry
<1>3. ASSUME NEW g \in Guids, NEW i \in Ids, owned, owned' = owned, Enables(g, i)
      PROVE  Atomic!Enable(g, i)
  <2>1. Mapped' = Mapped \cup {[id |-> i, guid |-> g]}
    BY <1>3 DEF Enables, Mapped, Entry
  <2>2. \A e \in Mapped : e.id < i
    <3>1. ASSUME NEW j \in Committed PROVE j < i
      BY <1>3, <3>1 DEF Enables, Ids, Committed, Typed, TypeOK
    <3> QED BY <3>1 DEF Mapped, Entry
  <2> QED BY <1>3, <2>1, <2>2 DEF Enables, Atomic!Enable, Mapped, Entry
<1>4. CASE Ends
  <2>1. Mapped' = Mapped
    BY <1>4 DEF Mapped, Entry, Ends
  <2> QED BY <1>4, <2>1 DEF Ends, Atomic!Next, Atomic!End, Mapped, Entry
<1> QED BY <1>1, <1>2, <1>3, <1>4 DEF Atomic!Next

\* Enable and disable implement the atomic session: every call takes effect at
\* one instant, whatever the other threads do meanwhile, and none once the session
\* is gone.
THEOREM MutationsAreAlwaysAtomic == Spec => MutationsAreAtomic
<1>1. IInv /\ [Next]_vars => [Atomic!Next]_Atomic!vars
  BY InvariantParts, StepEffect, RefinesNext
<1> QED BY <1>1, RefinesInit, Invariant, PTL DEF Spec, MutationsAreAtomic, Atomic!Spec
=============================================================================
