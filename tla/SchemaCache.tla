---------------------------- MODULE SchemaCache ----------------------------
(***************************************************************************)
(* `SchemaLocator` (schema_locator.rs): the schemas that TDH decoded,      *)
(* cached by event descriptor and, for manifest-free events, by name.      *)
(*                                                                         *)
(* The delivery threads of a trace share one locator.  A call probes the   *)
(* cache, builds the schema without the lock when it misses, and stores it *)
(* in a second critical section, by which time another thread may have.    *)
(***************************************************************************)
EXTENDS Integers, FiniteSets, Sequences

CONSTANTS
  Threads,     \* threads that run user callbacks
  Keys,        \* SchemaKey: provider, id, version, opcode, level
  NamedKeys,   \* those of manifest-free events, whose id is 0
  Names,       \* event names
  EmptyName,   \* the name of an event that carries none
  MaxCached,   \* MAX_CACHED_SCHEMAS
  MaxCalls     \* bound: calls of event_schema

ASSUME KeysAssumption == NamedKeys \subseteq Keys
ASSUME NamesAssumption == EmptyName \in Names
ASSUME BoundsAssumption == MaxCached \in Nat /\ MaxCalls \in Nat

VARIABLES
  schemas,   \* key -> name -> schema; partial functions
  len,       \* the number of schemas the bound applies to
  pc,        \* what each thread does inside event_schema
  request,   \* the event it does it for
  built,     \* the schema it built, 0 if none
  decoded,   \* the schemas built so far: the event of each
  answers,   \* what the calls have returned so far: <<event, schema>>
  calls      \* calls so far

cache   == <<schemas, len>>
callers == <<pc, request, built>>
vars    == <<cache, callers, decoded, answers, calls>>

\* What the cache tells apart.  Only a manifest-free event carries a name.
Kinds == {e \in Keys \X Names : e[2] = EmptyName \/ e[1] \in NamedKeys}

TypeOK ==
  /\ DOMAIN schemas \subseteq Keys
  /\ \A k \in DOMAIN schemas :
       /\ DOMAIN schemas[k] \subseteq Names
       /\ schemas[k] \in [DOMAIN schemas[k] -> Nat]
  /\ len \in 0 .. MaxCached
  /\ pc \in [Threads -> {"idle", "probe", "build", "store"}]
  /\ request \in [Threads -> Kinds]
  /\ built \in [Threads -> Nat]
  /\ decoded \in Seq(Kinds)
  /\ answers \subseteq Kinds \X Nat
  /\ calls \in 0 .. MaxCalls
-----------------------------------------------------------------------------
(* SchemaLocator::event_schema *)

Call(t) ==
  /\ pc[t] = "idle"
  /\ calls < MaxCalls
  /\ \E e \in Kinds : request' = [request EXCEPT ![t] = e]
  /\ pc' = [pc EXCEPT ![t] = "probe"]
  /\ calls' = calls + 1
  /\ UNCHANGED <<cache, built, decoded, answers>>

Return(t, s) ==
  /\ pc' = [pc EXCEPT ![t] = "idle"]
  /\ built' = [built EXCEPT ![t] = 0]
  /\ answers' = answers \cup {<<request[t], s>>}

IsCached(e)  == e[1] \in DOMAIN schemas /\ e[2] \in DOMAIN schemas[e[1]]
SchemaFor(e) == schemas[e[1]][e[2]]

\* Mutant: any schema of the key will do.
ProbeByKey(t) ==
  /\ pc[t] = "probe"
  /\ IF request[t][1] \in DOMAIN schemas /\ DOMAIN schemas[request[t][1]] # {}
     THEN \E n \in DOMAIN schemas[request[t][1]] : Return(t, schemas[request[t][1]][n])
     ELSE pc' = [pc EXCEPT ![t] = "build"] /\ UNCHANGED <<built, answers>>
  /\ UNCHANGED <<cache, request, decoded, calls>>

Probe(t) ==
  /\ pc[t] = "probe"
  /\ IF IsCached(request[t])
     THEN Return(t, SchemaFor(request[t]))
     ELSE pc' = [pc EXCEPT ![t] = "build"] /\ UNCHANGED <<built, answers>>
  /\ UNCHANGED <<cache, request, decoded, calls>>

\* TraceEventInfo::build_from_event, without the lock.
Build(t) ==
  /\ pc[t] = "build"
  /\ decoded' = Append(decoded, request[t])
  /\ built' = [built EXCEPT ![t] = Len(decoded) + 1]
  /\ pc' = [pc EXCEPT ![t] = "store"]
  /\ UNCHANGED <<cache, request, answers, calls>>

\* TDH finds no metadata for the event.
BuildFails(t) ==
  /\ pc[t] = "build"
  /\ pc' = [pc EXCEPT ![t] = "idle"]
  /\ UNCHANGED <<cache, request, built, decoded, answers, calls>>
-----------------------------------------------------------------------------
(* SchemaLocator::store *)

With(f, x, v) == [y \in DOMAIN f \cup {x} |-> IF y = x THEN v ELSE f[y]]

Insert(e, s) ==
  schemas' = With(schemas, e[1],
                  With(IF e[1] \in DOMAIN schemas THEN schemas[e[1]] ELSE <<>>, e[2], s))

\* Mutant: the thread that comes last wins.
StoreOver(t) ==
  /\ pc[t] = "store"
  /\ IF len < MaxCached
     THEN Insert(request[t], built[t]) /\ len' = len + 1
     ELSE UNCHANGED cache
  /\ Return(t, built[t])
  /\ UNCHANGED <<request, decoded, calls>>

\* Mutant: the bound is off by one.
StoreOneMore(t) ==
  /\ pc[t] = "store"
  /\ IF IsCached(request[t])
     THEN Return(t, SchemaFor(request[t])) /\ UNCHANGED cache
     ELSE /\ IF len <= MaxCached
             THEN Insert(request[t], built[t]) /\ len' = len + 1
             ELSE UNCHANGED cache
          /\ Return(t, built[t])
  /\ UNCHANGED <<request, decoded, calls>>

\* The first schema stored for a kind wins.  `entry(key).or_default()` comes before
\* the bound is looked at: a full cache still takes the key, without a schema.
Store(t) ==
  LET k == request[t][1]
  IN /\ pc[t] = "store"
     /\ \/ /\ IsCached(request[t])
           /\ Return(t, SchemaFor(request[t]))
           /\ UNCHANGED cache
        \/ /\ ~IsCached(request[t])
           /\ len < MaxCached
           /\ Insert(request[t], built[t])
           /\ len' = len + 1
           /\ Return(t, built[t])
        \/ /\ ~IsCached(request[t])
           /\ len >= MaxCached
           /\ schemas' = With(schemas, k, IF k \in DOMAIN schemas THEN schemas[k] ELSE <<>>)
           /\ UNCHANGED len
           /\ Return(t, built[t])
     /\ UNCHANGED <<request, decoded, calls>>
-----------------------------------------------------------------------------
Init ==
  /\ schemas = <<>>
  /\ len = 0
  /\ pc = [t \in Threads |-> "idle"]
  /\ request \in {[t \in Threads |-> e] : e \in Kinds}
  /\ built = [t \in Threads |-> 0]
  /\ decoded = <<>>
  /\ answers = {}
  /\ calls = 0

\* Every call has returned.
Finished ==
  /\ \A t \in Threads : pc[t] = "idle"
  /\ UNCHANGED vars

Next ==
  \/ \E t \in Threads : Call(t) \/ Probe(t) \/ Build(t) \/ BuildFails(t) \/ Store(t)
  \/ Finished

Spec == Init /\ [][Next]_vars
-----------------------------------------------------------------------------
(* Properties *)

\* Every call returns a schema that was built from an event of the same kind as
\* its own, whoever built it.
AnswersFit == \A a \in answers : a[2] \in 1 .. Len(decoded) /\ decoded[a[2]] = a[1]

\* Threads that raced to build the schema of one kind share one: whatever was
\* returned for a kind is what the cache holds for it, now and for every later
\* call, unless the cache is full without it ("they are interchangeable" is not
\* needed while there is room).
AnswersShare ==
  \A a \in answers :
    IF IsCached(a[1]) THEN SchemaFor(a[1]) = a[2] ELSE len = MaxCached

\* `len`, which the bound applies to, is the number of schemas in the two levels
\* of maps, names of one descriptor included.
Cached   == {e \in Keys \X Names : IsCached(e)}
LenIsSum == len = Cardinality(Cached) /\ len <= MaxCached

\* A schema handed out from the cache is never replaced nor evicted.
CachedForGood ==
  [][\A e \in Cached : IsCached(e)' /\ SchemaFor(e)' = SchemaFor(e)]_vars

\* What MAX_CACHED_SCHEMAS is there for: the cache does not "grow the cache forever"
\* on many distinct kinds of events; "once full, new schemas are [...] just not
\* cached anymore" (schema_locator.rs).
FullCacheStopsGrowing == [][len = MaxCached => DOMAIN schemas' = DOMAIN schemas]_vars
-----------------------------------------------------------------------------
(* The inductive invariant behind them *)

\* A thread about to store holds a schema built from its own event.
InHand ==
  \A t \in Threads :
    pc[t] = "store" => built[t] \in 1 .. Len(decoded) /\ decoded[built[t]] = request[t]

CachedFit == \A e \in Cached : SchemaFor(e) \in 1 .. Len(decoded) /\ decoded[SchemaFor(e)] = e

\* What the probe, the build and the store of several threads keep of the cache
\* and of the answers.
IInv ==
  /\ TypeOK
  /\ InHand
  /\ CachedFit
  /\ AnswersFit
  /\ AnswersShare
  /\ IsFiniteSet(Cached)
  /\ LenIsSum
=============================================================================
