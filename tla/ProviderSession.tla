-------------------------- MODULE ProviderSession --------------------------
(***************************************************************************)
(* The providers of a running `UserTrace`: runtime enable and disable      *)
(* (trace.rs), the dispatch registry and event delivery                    *)
(* (trace/callback_data.rs, provider.rs), and the configuration the ETW    *)
(* session keeps for each GUID.                                            *)
(*                                                                         *)
(* Application threads enable and disable providers.  Delivery threads,    *)
(* owned by Windows, bring events and run user callbacks, which may        *)
(* themselves enable or disable providers.  Every step is one critical     *)
(* section of the registry's RwLock, one OS call, or one acquisition of a  *)
(* mutex held across steps.                                                *)
(*                                                                         *)
(* `Arc<Provider>` identity is a registration number: entries are numbered *)
(* as they are pushed, so a Vec of entries is a set of numbers read in     *)
(* increasing order.                                                       *)
(***************************************************************************)
EXTENDS Integers, FiniteSets

CONSTANTS
  Guids,        \* provider GUIDs
  Apps,         \* application threads
  Deliverers,   \* ETW delivery threads
  NoThread,     \* the owner of a free mutex
  NoGuid,       \* no event
  MaxInitial,   \* bound: providers given to the builder
  MaxCalls,     \* bound: enable and disable calls issued while the trace runs
  MaxEvents     \* bound: events delivered

Threads == Apps \cup Deliverers
Ids     == 1 .. MaxInitial + MaxCalls

ASSUME ThreadsAssumption ==
  /\ Apps \cap Deliverers = {}
  /\ NoThread \notin Threads
ASSUME GuidsAssumption == NoGuid \notin Guids
ASSUME BoundsAssumption ==
  MaxInitial \in Nat /\ MaxCalls \in Nat /\ MaxEvents \in Nat

VARIABLES
  owned,        \* the trace's control handle reaches a running session
  configured,   \* ETW session: GUID -> entry whose configuration is enabled
  providers,    \* registry: the entries, in insertion order
  byGuid,       \* registry: GUID -> its entries; a partial function
  guidOf,       \* the GUID of every entry registered so far
  nextId,       \* the number of the next registration
  mutex,        \* holder of `session_mutations`
  pc,           \* what each thread does inside enable or disable
  arg,          \* the GUID it does it for
  own,          \* the entry its enable registered
  calls,        \* enable and disable calls issued so far
  eventsHandled,
  event,        \* GUID of the event each delivery thread handles
  todo,         \* entries it cloned and still has to call; {} before the lookup
  found,        \* whether it has looked the entries up
  running       \* the entry whose callbacks it is running, 0 if none

session  == <<owned, configured>>
registry == <<providers, byGuid, guidOf, nextId>>
mutation == <<mutex, pc, arg, own, calls>>
delivery == <<eventsHandled, event, todo, found, running>>
vars     == <<session, registry, mutation, delivery>>

PCs == {"idle", "lockEnable", "register", "osEnable", "rollback", "capture",
        "lockDisable", "check", "osDisable", "unregister"}

\* The steps done under `session_mutations`.
Critical == {"register", "osEnable", "rollback", "check", "osDisable", "unregister"}

TypeOK ==
  /\ owned \in BOOLEAN
  /\ DOMAIN configured \subseteq Guids
  /\ configured \in [DOMAIN configured -> Ids]
  /\ providers \in SUBSET Ids
  /\ DOMAIN byGuid \subseteq Guids
  /\ byGuid \in [DOMAIN byGuid -> SUBSET Ids]
  /\ guidOf \in [1 .. nextId - 1 -> Guids]
  /\ nextId \in 1 .. MaxInitial + MaxCalls + 1
  /\ mutex \in Threads \cup {NoThread}
  /\ pc \in [Threads -> PCs]
  /\ arg \in [Threads -> Guids \cup {NoGuid}]
  /\ own \in [Threads -> Ids \cup {0}]
  /\ calls \in 0 .. MaxCalls
  /\ eventsHandled \in 0 .. MaxEvents
  /\ event \in [Deliverers -> Guids \cup {NoGuid}]
  /\ todo \in [Deliverers -> SUBSET Ids]
  /\ found \in [Deliverers -> BOOLEAN]
  /\ running \in [Deliverers -> Ids \cup {0}]
-----------------------------------------------------------------------------
(* ProviderRegistry *)

Entries(g) == IF g \in DOMAIN byGuid THEN byGuid[g] ELSE {}

\* Mutant: a number is given twice.
AddReusingNumber(i, g) ==
  /\ nextId' = i
  /\ guidOf' = [j \in 1 .. i |-> IF j = i THEN g ELSE guidOf[j]]
  /\ byGuid' = [h \in DOMAIN byGuid \cup {g} |->
                  IF h = g THEN Entries(g) \cup {i} ELSE byGuid[h]]
  /\ providers' = providers \cup {i}

\* Mutant: the entries the GUID had are replaced.
AddReplacing(i, g) ==
  /\ nextId' = i + 1
  /\ guidOf' = [j \in 1 .. i |-> IF j = i THEN g ELSE guidOf[j]]
  /\ byGuid' = [h \in DOMAIN byGuid \cup {g} |-> IF h = g THEN {i} ELSE byGuid[h]]
  /\ providers' = providers \cup {i}

Add(i, g) ==
  /\ nextId' = i + 1
  /\ guidOf' = [j \in 1 .. i |-> IF j = i THEN g ELSE guidOf[j]]
  /\ byGuid' = [h \in DOMAIN byGuid \cup {g} |->
                  IF h = g THEN Entries(g) \cup {i} ELSE byGuid[h]]
  /\ providers' = providers \cup {i}

RemoveAllByGuid(g) ==
  /\ byGuid' = [h \in DOMAIN byGuid \ {g} |-> byGuid[h]]
  /\ providers' = IF g \in DOMAIN byGuid
                  THEN {i \in providers : guidOf[i] # g} ELSE providers

\* Mutant: the key stays when its last entry leaves.
RemoveOneKeepingKey(i) ==
  /\ byGuid' = [byGuid EXCEPT ![guidOf[i]] = @ \ {i}]
  /\ providers' = providers \ {i}

\* A key left without entries is dropped: `contains_key` must not see it.
RemoveOne(i) ==
  LET g    == guidOf[i]
      left == Entries(g) \ {i}
  IN /\ byGuid' = [h \in {k \in DOMAIN byGuid : k # g \/ left # {}} |->
                     IF h = g THEN left ELSE byGuid[h]]
     /\ providers' = providers \ {i}
-----------------------------------------------------------------------------
(* UserTrace::enable_provider *)

MayCall(t) ==
  /\ pc[t] = "idle"
  /\ calls < MaxCalls
  /\ t \in Apps \/ (t \in Deliverers /\ running[t] # 0)

CallEnable(t) ==
  /\ MayCall(t)
  /\ \E g \in Guids : arg' = [arg EXCEPT ![t] = g]
  /\ pc' = [pc EXCEPT ![t] = "lockEnable"]
  /\ calls' = calls + 1
  /\ UNCHANGED <<session, registry, delivery, mutex, own>>

\* Mutant: session_mutations is not awaited.
LockForAnyway(t, from, to) ==
  /\ pc[t] = from
  /\ mutex' = t
  /\ pc' = [pc EXCEPT ![t] = to]
  /\ UNCHANGED <<session, registry, delivery, arg, own, calls>>

LockFor(t, from, to) ==
  /\ pc[t] = from
  /\ mutex = NoThread
  /\ mutex' = t
  /\ pc' = [pc EXCEPT ![t] = to]
  /\ UNCHANGED <<session, registry, delivery, arg, own, calls>>

LockEnable(t) == LockFor(t, "lockEnable", "register")

Return(t) ==
  /\ pc' = [pc EXCEPT ![t] = "idle"]
  /\ arg' = [arg EXCEPT ![t] = NoGuid]
  /\ own' = [own EXCEPT ![t] = 0]

Register(t) ==
  /\ pc[t] = "register"
  /\ nextId \in Ids
  /\ Add(nextId, arg[t])
  /\ own' = [own EXCEPT ![t] = nextId]
  /\ pc' = [pc EXCEPT ![t] = "osEnable"]
  /\ UNCHANGED <<session, delivery, mutex, arg, calls>>

\* EnableTraceEx2 replaces the session's configuration of the GUID.
OsEnable(t) ==
  /\ pc[t] = "osEnable"
  /\ owned
  /\ configured' = [g \in DOMAIN configured \cup {arg[t]} |->
                     IF g = arg[t] THEN own[t] ELSE configured[g]]
  /\ mutex' = NoThread
  /\ \/ pc' = [pc EXCEPT ![t] = "capture"] /\ UNCHANGED <<arg, own>>
     \/ Return(t)
  /\ UNCHANGED <<owned, registry, delivery, calls>>

\* An invalid handle, a filter that cannot be built, or an error of the OS call.
OsEnableFails(t) ==
  /\ pc[t] = "osEnable"
  /\ pc' = [pc EXCEPT ![t] = "rollback"]
  /\ UNCHANGED <<session, registry, delivery, mutex, arg, own, calls>>

\* Mutant: the rollback removes by GUID, as disable_provider does.
RollbackByGuid(t) ==
  /\ pc[t] = "rollback"
  /\ RemoveAllByGuid(arg[t])
  /\ mutex' = NoThread
  /\ Return(t)
  /\ UNCHANGED <<session, delivery, guidOf, nextId, calls>>

Rollback(t) ==
  /\ pc[t] = "rollback"
  /\ RemoveOne(own[t])
  /\ mutex' = NoThread
  /\ Return(t)
  /\ UNCHANGED <<session, delivery, guidOf, nextId, calls>>

\* The rundown request, after the lock; its failure undoes nothing.
Capture(t) ==
  /\ pc[t] = "capture"
  /\ Return(t)
  /\ UNCHANGED <<session, registry, delivery, mutex, calls>>
-----------------------------------------------------------------------------
(* UserTrace::disable_provider *)

CallDisable(t) ==
  /\ MayCall(t)
  /\ \E g \in Guids : arg' = [arg EXCEPT ![t] = g]
  /\ pc' = [pc EXCEPT ![t] = "lockDisable"]
  /\ calls' = calls + 1
  /\ UNCHANGED <<session, registry, delivery, mutex, own>>

LockDisable(t) == LockFor(t, "lockDisable", "check")

\* Mutant: the early return leaves session_mutations locked.
CheckKeepingLock(t) ==
  /\ pc[t] = "check"
  /\ \/ /\ arg[t] \in DOMAIN byGuid
        /\ pc' = [pc EXCEPT ![t] = "osDisable"]
        /\ UNCHANGED <<arg, own>>
     \/ arg[t] \notin DOMAIN byGuid /\ Return(t)
  /\ UNCHANGED <<session, registry, delivery, mutex, calls>>

\* has_provider_with_guid: the session is left alone when nothing is registered.
Check(t) ==
  /\ pc[t] = "check"
  /\ \/ /\ arg[t] \in DOMAIN byGuid
        /\ pc' = [pc EXCEPT ![t] = "osDisable"]
        /\ UNCHANGED <<mutex, arg, own>>
     \/ /\ arg[t] \notin DOMAIN byGuid
        /\ mutex' = NoThread
        /\ Return(t)
  /\ UNCHANGED <<session, registry, delivery, calls>>

OsDisable(t) ==
  /\ pc[t] = "osDisable"
  /\ owned
  /\ configured' = [g \in DOMAIN configured \ {arg[t]} |-> configured[g]]
  /\ pc' = [pc EXCEPT ![t] = "unregister"]
  /\ UNCHANGED <<owned, registry, delivery, mutex, arg, own, calls>>

\* Mutant: to disable a provider of a session that is gone is taken as done.
OsDisableDoneWhenGone(t) ==
  /\ pc[t] = "osDisable"
  /\ \/ /\ owned
        /\ mutex' = NoThread
        /\ Return(t)
     \/ /\ ~owned
        /\ pc' = [pc EXCEPT ![t] = "unregister"]
        /\ UNCHANGED <<mutex, arg, own>>
  /\ UNCHANGED <<session, registry, delivery, calls>>

OsDisableFails(t) ==
  /\ pc[t] = "osDisable"
  /\ mutex' = NoThread
  /\ Return(t)
  /\ UNCHANGED <<session, registry, delivery, calls>>

Unregister(t) ==
  /\ pc[t] = "unregister"
  /\ RemoveAllByGuid(arg[t])
  /\ mutex' = NoThread
  /\ Return(t)
  /\ UNCHANGED <<session, delivery, guidOf, nextId, calls>>
-----------------------------------------------------------------------------
(* RealTimeCallbackData::on_event and Provider::on_event *)

\* Any GUID may come: events already buffered outlive a disable, and the
\* session's own header events belong to no registered provider.
Deliver(d) ==
  /\ event[d] = NoGuid
  /\ eventsHandled < MaxEvents
  /\ \E g \in Guids : event' = [event EXCEPT ![d] = g]
  /\ eventsHandled' = eventsHandled + 1
  /\ UNCHANGED <<session, registry, mutation, todo, found, running>>

\* Clone the entries of the GUID under the read lock, then release it.
Lookup(d) ==
  /\ event[d] # NoGuid
  /\ ~found[d]
  /\ todo' = [todo EXCEPT ![d] = Entries(event[d])]
  /\ found' = [found EXCEPT ![d] = TRUE]
  /\ UNCHANGED <<session, registry, mutation, eventsHandled, event, running>>

\* Mutant: the dispatch does not advance past the entry it calls.
RunCallbacksAgain(d) ==
  /\ running[d] = 0
  /\ \E i \in todo[d] :
       /\ \A j \in todo[d] : i <= j
       /\ \A e \in Deliverers : running[e] # i
       /\ running' = [running EXCEPT ![d] = i]
  /\ UNCHANGED <<session, registry, mutation, eventsHandled, event, todo, found>>

\* Lock the callbacks of the next entry, in registration order, and run them.
RunCallbacks(d) ==
  /\ running[d] = 0
  /\ \E i \in todo[d] :
       /\ \A j \in todo[d] : i <= j
       /\ \A e \in Deliverers : running[e] # i
       /\ running' = [running EXCEPT ![d] = i]
       /\ todo' = [todo EXCEPT ![d] = @ \ {i}]
  /\ UNCHANGED <<session, registry, mutation, eventsHandled, event, found>>

\* The callbacks return only after the calls they made have.
EndCallbacks(d) ==
  /\ running[d] # 0
  /\ pc[d] = "idle"
  /\ running' = [running EXCEPT ![d] = 0]
  /\ UNCHANGED <<session, registry, mutation, eventsHandled, event, todo, found>>

EndEvent(d) ==
  /\ found[d]
  /\ running[d] = 0
  /\ todo[d] = {}
  /\ event' = [event EXCEPT ![d] = NoGuid]
  /\ found' = [found EXCEPT ![d] = FALSE]
  /\ UNCHANGED <<session, registry, mutation, eventsHandled, todo, running>>
-----------------------------------------------------------------------------
EntriesOf(g) == {i \in providers : guidOf[i] = g}

LastOf(S) == CHOOSE i \in S : \A j \in S : j <= i

\* A started trace: `TraceBuilder::start` registered and enabled every provider
\* in order (or failed).  `open_existing` registers them, enables none and holds
\* no control handle.
Init ==
  /\ owned \in BOOLEAN
  /\ nextId \in 1 .. MaxInitial + 1
  /\ guidOf \in [1 .. nextId - 1 -> Guids]
  /\ providers = 1 .. nextId - 1
  /\ byGuid = [g \in {guidOf[i] : i \in providers} |-> EntriesOf(g)]
  /\ configured = [g \in IF owned THEN DOMAIN byGuid ELSE {} |-> LastOf(byGuid[g])]
  /\ mutex = NoThread
  /\ pc = [t \in Threads |-> "idle"]
  /\ arg = [t \in Threads |-> NoGuid]
  /\ own = [t \in Threads |-> 0]
  /\ calls = 0
  /\ eventsHandled = 0
  /\ event = [d \in Deliverers |-> NoGuid]
  /\ todo = [d \in Deliverers |-> {}]
  /\ found = [d \in Deliverers |-> FALSE]
  /\ running = [d \in Deliverers |-> 0]

\* The session is stopped behind the trace's back, by its name.
SessionEnds ==
  /\ owned
  /\ owned' = FALSE
  /\ configured' = [g \in {} |-> 0]
  /\ UNCHANGED <<registry, mutation, delivery>>

\* What a thread does once it is inside enable or disable.
Mutate(t) ==
  \/ LockEnable(t) \/ Register(t) \/ OsEnable(t) \/ OsEnableFails(t)
  \/ Rollback(t) \/ Capture(t)
  \/ LockDisable(t) \/ Check(t) \/ OsDisable(t) \/ OsDisableFails(t)
  \/ Unregister(t)

\* What a delivery thread does once an event has come.
Dispatch(d) == Lookup(d) \/ RunCallbacks(d) \/ EndCallbacks(d) \/ EndEvent(d)

\* Every budget is spent and every call has returned.
Finished ==
  /\ \A t \in Threads : pc[t] = "idle"
  /\ \A d \in Deliverers : event[d] = NoGuid
  /\ UNCHANGED vars

Next ==
  \/ \E t \in Threads : CallEnable(t) \/ CallDisable(t) \/ Mutate(t)
  \/ \E d \in Deliverers : Deliver(d) \/ Dispatch(d)
  \/ SessionEnds
  \/ Finished

Spec == Init /\ [][Next]_vars

\* Threads run, OS calls return and user callbacks end.  Nothing makes a client
\* call or an event come, and no lock is granted more than weakly fairly.
Fairness ==
  /\ \A t \in Threads : WF_vars(Mutate(t))
  /\ \A d \in Deliverers : WF_vars(Dispatch(d))

FairSpec == Spec /\ Fairness
-----------------------------------------------------------------------------
(* Properties *)

\* The two collections of the registry hold the same entries, each under its own
\* GUID and in one place, and no GUID is kept without entries
\* (callback_data.rs: "Both collections must stay consistent").
IndexesAgree ==
  /\ \A g \in DOMAIN byGuid : byGuid[g] = EntriesOf(g) /\ byGuid[g] # {}
  /\ \A i \in providers : guidOf[i] \in DOMAIN byGuid

\* Between mutations, the session is configured for exactly the GUIDs that have
\* entries, and for each of them as the entry enabled last asked.
SessionMatchesRegistry ==
  mutex = NoThread /\ owned =>
    configured = [g \in DOMAIN byGuid |-> LastOf(byGuid[g])]

\* At every instant, mutations in flight included, a GUID the session delivers
\* has entries to dispatch to, the one it is configured for among them: no event
\* of an enabled provider finds nobody.
ConfiguredIsRegistered ==
  \A g \in DOMAIN configured : configured[g] \in Entries(g) \cap providers

\* The entries an unfinished mutation has added, or is about to drop.
Uncommitted ==
  {i \in providers : \E t \in Threads :
     \/ pc[t] \in {"osEnable", "rollback"} /\ own[t] = i
     \/ pc[t] = "unregister" /\ guidOf[i] = arg[t]}

Committed       == providers \ Uncommitted
CommittedFor(g) == {i \in Committed : guidOf[i] = g}

\* Enable and disable, issued by anyone, take effect on the registry and on the
\* session at one instant, the successful OS call, or not at all: uncommitted
\* entries do not count.  In a session that is gone or not its own, none does.
Atomic == INSTANCE AtomicSession WITH
  alive <- owned,
  entries <- {[id |-> i, guid |-> guidOf[i]] : i \in Committed}

MutationsAreAtomic == Atomic!Spec

\* Every enable or disable returns, also one issued by a callback while other
\* threads dispatch and mutate.
CallsReturn == \A t \in Threads : pc[t] # "idle" ~> pc[t] = "idle"

\* An event that comes while an entry of its GUID is registered reaches the
\* callbacks of that entry, whatever is enabled and disabled before and while it
\* is dispatched, unless the entry is removed before its turn.
EventsReachEntries ==
  \A d \in Deliverers, i \in Ids :
    event[d] # NoGuid /\ ~found[d] /\ i \in EntriesOf(event[d])
      ~> running[d] = i \/ i \notin providers

\* Every event is dispatched to the end, whatever its callbacks do.
EventsEnd == \A d \in Deliverers : event[d] # NoGuid ~> event[d] = NoGuid
-----------------------------------------------------------------------------
(* The inductive invariant behind IndexesAgree, ConfiguredIsRegistered,    *)
(* SessionMatchesRegistry and MutationsAreAtomic                           *)

CallsHaveArguments ==
  \A t \in Threads :
    /\ pc[t] # "idle" => arg[t] \in Guids
    /\ pc[t] \in {"osEnable", "rollback"} => own[t] \in Ids

\* One thread at a time is inside enable or disable: the one that holds the lock.
LockHeld == \A t \in Threads : pc[t] \in Critical <=> mutex = t

\* An enable in flight has registered its entry, the newest of all; a disable in
\* flight has entries to remove.
InFlight ==
  \A t \in Threads :
    /\ pc[t] \in {"osEnable", "rollback"} =>
         /\ own[t] \in providers
         /\ guidOf[own[t]] = arg[t]
         /\ \A i \in providers : i <= own[t]
    /\ pc[t] \in {"osDisable", "unregister"} => arg[t] \in DOMAIN byGuid

\* The session holds, of every GUID with a committed entry and of no other, the
\* configuration of the newest committed one.  A trace that does not own its
\* session never configures it.
CommittedIsConfigured ==
  /\ ~owned => DOMAIN configured = {}
  /\ owned =>
       \A g \in Guids :
         /\ CommittedFor(g) # {} <=> g \in DOMAIN configured
         /\ g \in DOMAIN configured =>
              /\ configured[g] \in CommittedFor(g)
              /\ \A j \in CommittedFor(g) : j <= configured[g]

\* Mutations, across all their steps, keep the lock, the registry and the
\* session in line.
IInv ==
  /\ TypeOK
  /\ CallsHaveArguments
  /\ LockHeld
  /\ providers \subseteq 1 .. nextId - 1
  /\ IndexesAgree
  /\ InFlight
  /\ CommittedIsConfigured
=============================================================================
