-------------------------- MODULE TraceLifecycle --------------------------
(***************************************************************************)
(* The life of traces, from the builder to the drop (trace.rs), and the    *)
(* process-wide registry through which ETW's delivery threads find the     *)
(* callback data of the trace an event belongs to (native/evntrace.rs).    *)
(*                                                                         *)
(* Each trace object lives once, in its own application thread; a step is  *)
(* one critical section of the context registry or one OS call.  The OS    *)
(* keeps the sessions, in a few logger slots whose number is the control   *)
(* handle, and the consumers opened on them.                               *)
(***************************************************************************)
EXTENDS Integers, FiniteSets

CONSTANTS
  Traces,       \* trace objects
  Names,        \* session names
  Loggers,      \* the OS's logger slots: positive integers
  Deliverers,   \* ETW delivery threads
  Nobody,       \* no trace
  Other,        \* whoever else runs a session
  MaxEvents,    \* bound: events delivered
  MaxOutside    \* bound: sessions started or stopped by others

ASSUME TracesAssumption ==
  /\ IsFiniteSet(Traces)
  /\ Nobody \notin Traces
  /\ Other \notin Traces \cup {Nobody}
ASSUME LoggersAssumption == Loggers \subseteq Nat \ {0}
ASSUME BoundsAssumption == MaxEvents \in Nat /\ MaxOutside \in Nat

VARIABLES
  kind,       \* of each trace: "owned" (start), "existing" (open_existing), "file"
  name,       \* its session name
  replace,    \* its stop_if_exist
  pc,         \* what its owner is doing
  call,       \* the call that ends it: "stop", "close" or "drop"; "none" before
  stopFailed, \* its last STOP was rejected
  control,    \* its control handle, 0 when it has none
  context,    \* its context id, 0 when it has none
  processing, \* its ProcessTrace thread
  logger,     \* OS: who started the session of each slot, Nobody if free
  label,      \* OS: the name of the session of each slot
  consumer,   \* OS: the consumer of each trace
  outside,    \* sessions started or stopped by others so far
  nextId,     \* NEXT_CONTEXT_ID
  registry,   \* CONTEXT_REGISTRY: context id -> trace; a partial function
  origin,     \* the trace of the event each delivery thread brings
  handling,   \* the trace whose callback data its thunk holds
  delivered   \* events delivered so far

builder  == <<kind, name, replace>>
ending   == <<call, stopFailed>>
handles  == <<control, context>>
sessions == <<logger, label, outside>>
contexts == <<nextId, registry>>
thunks   == <<origin, handling, delivered>>
vars     == <<builder, pc, ending, handles, processing, sessions, consumer, contexts, thunks>>

Starting == {"stopExisting", "startTrace", "configure", "mint", "insert", "open",
             "forget", "capture", "guardUnregister", "guardClose", "guardStop"}
Ending   == {"unregister", "close", "stop", "dropContext"}
Ended    == {"failed", "gone"}

ContextIds == 1 .. Cardinality(Traces)

TypeOK ==
  /\ kind \in [Traces -> {"owned", "existing", "file"}]
  /\ name \in [Traces -> Names]
  /\ replace \in [Traces -> BOOLEAN]
  /\ pc \in [Traces -> {"builder", "live"} \cup Starting \cup Ending \cup Ended]
  /\ call \in [Traces -> {"none", "stop", "close", "drop"}]
  /\ stopFailed \in [Traces -> BOOLEAN]
  /\ control \in [Traces -> Loggers \cup {0}]
  /\ context \in [Traces -> ContextIds \cup {0}]
  /\ processing \in [Traces -> {"none", "spawned", "running", "returned"}]
  /\ logger \in [Loggers -> Traces \cup {Other, Nobody}]
  /\ label \in [Loggers -> Names]
  /\ consumer \in [Traces -> {"none", "open", "pending", "closed"}]
  /\ outside \in 0 .. MaxOutside
  /\ nextId \in 1 .. Cardinality(Traces) + 1
  /\ DOMAIN registry \subseteq ContextIds
  /\ registry \in [DOMAIN registry -> Traces]
  /\ origin \in [Deliverers -> Traces \cup {Nobody}]
  /\ handling \in [Deliverers -> Traces \cup {Nobody}]
  /\ delivered \in 0 .. MaxEvents
-----------------------------------------------------------------------------
(* TraceBuilder::start, open_existing and FileTraceBuilder::start *)

Step(t, from, to) == pc[t] = from /\ pc' = [pc EXCEPT ![t] = to]

Running(n) == {l \in Loggers : logger[l] # Nobody /\ label[l] = n}

Begin(t) ==
  /\ Step(t, "builder", CASE kind[t] # "owned" -> "mint"
                          [] kind[t] = "owned" /\ replace[t] -> "stopExisting"
                          [] OTHER -> "startTrace")
  /\ UNCHANGED <<builder, ending, handles, processing, sessions, consumer, contexts, thunks>>

\* stop_trace_by_name: a name that nobody runs is not an error.
StopExisting(t) ==
  /\ \/ /\ Step(t, "stopExisting", "startTrace")
        /\ logger' = [l \in Loggers |-> IF l \in Running(name[t]) THEN Nobody ELSE logger[l]]
     \/ /\ Step(t, "stopExisting", "failed")
        /\ UNCHANGED logger
  /\ UNCHANGED <<builder, ending, handles, processing, label, outside, consumer, contexts, thunks>>

\* StartTraceW takes a free slot.
StartTrace(t) ==
  /\ Step(t, "startTrace", "configure")
  /\ Running(name[t]) = {}
  /\ \E l \in Loggers :
       /\ logger[l] = Nobody
       /\ logger' = [logger EXCEPT ![l] = t]
       /\ label' = [label EXCEPT ![l] = name[t]]
       /\ control' = [control EXCEPT ![t] = l]
  /\ UNCHANGED <<builder, ending, context, processing, outside, consumer, contexts, thunks>>

\* ERROR_ALREADY_EXISTS, or any other error.
StartTraceFails(t) ==
  /\ Step(t, "startTrace", "failed")
  /\ UNCHANGED <<builder, ending, handles, processing, sessions, consumer, contexts, thunks>>

\* The kernel configuration and the enables; from here on the guard is armed.
Configure(t) ==
  /\ Step(t, "configure", "mint") \/ Step(t, "configure", "guardStop")
  /\ UNCHANGED <<builder, ending, handles, processing, sessions, consumer, contexts, thunks>>

\* Mutant: the smallest id that is not in use.
MintUnused(t) ==
  /\ Step(t, "mint", "insert")
  /\ context' = [context EXCEPT ![t] =
                   CHOOSE c \in ContextIds : /\ c \notin DOMAIN registry
                                             /\ \A b \in ContextIds \ DOMAIN registry : c <= b]
  /\ UNCHANGED <<builder, ending, control, processing, sessions, consumer, contexts, thunks>>

\* Mutant: an id for the value on the stack and another once it is boxed.
MintTwice(t) ==
  /\ Step(t, "mint", "insert")
  /\ context' = [context EXCEPT ![t] = nextId + 1]
  /\ nextId' = nextId + 2
  /\ UNCHANGED <<builder, ending, control, processing, sessions, consumer, registry, thunks>>

\* TraceContextId::mint: one atomic fetch_add.
Mint(t) ==
  /\ Step(t, "mint", "insert")
  /\ context' = [context EXCEPT ![t] = nextId]
  /\ nextId' = nextId + 1
  /\ UNCHANGED <<builder, ending, control, processing, sessions, consumer, registry, thunks>>

Insert(t) ==
  /\ Step(t, "insert", "open")
  /\ registry' = [c \in DOMAIN registry \cup {context[t]} |->
                    IF c = context[t] THEN t ELSE registry[c]]
  /\ UNCHANGED <<builder, ending, handles, processing, sessions, consumer, nextId, thunks>>

\* OpenTraceW.
Open(t) ==
  /\ \/ /\ Step(t, "open", IF kind[t] = "owned" THEN "capture" ELSE "live")
        /\ consumer' = [consumer EXCEPT ![t] = "open"]
     \/ /\ Step(t, "open", "forget")
        /\ UNCHANGED consumer
  /\ UNCHANGED <<builder, ending, handles, processing, sessions, contexts, thunks>>

\* ContextRegistry::remove.
Retire(t) == registry' = [c \in DOMAIN registry \ {context[t]} |-> registry[c]]

\* Mutant: a TraceContext has no Drop.
ForgetWithoutDrop(t) ==
  /\ Step(t, "forget", IF kind[t] = "owned" THEN "guardStop" ELSE "failed")
  /\ UNCHANGED <<builder, ending, handles, processing, sessions, consumer, contexts, thunks>>

\* OpenTraceW failed: the context is dropped, then the guard if there is one.
Forget(t) ==
  /\ Step(t, "forget", IF kind[t] = "owned" THEN "guardStop" ELSE "failed")
  /\ Retire(t)
  /\ UNCHANGED <<builder, ending, handles, processing, sessions, consumer, nextId, thunks>>

\* Mutant: the guard forgets the consumer it was not given.
CaptureUnguarded(t) ==
  /\ Step(t, "capture", "live") \/ Step(t, "capture", "guardStop")
  /\ UNCHANGED <<builder, ending, handles, processing, sessions, consumer, contexts, thunks>>

\* The rundown requests; then the guard hands the session and the consumer over.
Capture(t) ==
  /\ Step(t, "capture", "live") \/ Step(t, "capture", "guardUnregister")
  /\ UNCHANGED <<builder, ending, handles, processing, sessions, consumer, contexts, thunks>>
-----------------------------------------------------------------------------
(* close_trace and control_trace(STOP), of the guard and of the trace *)

\* CloseTrace: done, or pending while events are queued; an error the second time.
CloseConsumer(t) ==
  \/ /\ consumer[t] = "open"
     /\ \E c \in {"pending", "closed"} : consumer' = [consumer EXCEPT ![t] = c]
  \/ consumer[t] # "open" /\ UNCHANGED consumer

\* ControlTraceW stops the session of the slot, whoever started it; a handle of 0
\* is an error without a call, a free slot an error of the call.
StopSession(t) ==
  \/ /\ control[t] # 0
     /\ logger[control[t]] # Nobody
     /\ logger' = [logger EXCEPT ![control[t]] = Nobody]
     /\ stopFailed' = [stopFailed EXCEPT ![t] = FALSE]
  \/ /\ stopFailed' = [stopFailed EXCEPT ![t] = TRUE]
     /\ UNCHANGED logger

GuardUnregister(t) ==
  /\ Step(t, "guardUnregister", "guardClose")
  /\ Retire(t)
  /\ UNCHANGED <<builder, ending, handles, processing, sessions, consumer, nextId, thunks>>

GuardClose(t) ==
  /\ Step(t, "guardClose", "guardStop")
  /\ CloseConsumer(t)
  /\ UNCHANGED <<builder, ending, handles, processing, sessions, contexts, thunks>>

GuardStop(t) ==
  /\ Step(t, "guardStop", "failed")
  /\ StopSession(t)
  /\ UNCHANGED <<builder, call, handles, processing, label, outside, consumer, contexts, thunks>>
-----------------------------------------------------------------------------
(* stop, close and drop of a live trace *)

\* The owner picks one; stop and close consume the trace, so its Drop follows.
End(t) ==
  /\ Step(t, "live", "unregister")
  /\ \E c \in {"stop", "close", "drop"} : call' = [call EXCEPT ![t] = c]
  /\ UNCHANGED <<builder, stopFailed, handles, processing, sessions, consumer, contexts, thunks>>

\* Mutant: only the Drop of the context retires it.
UnregisterLater(t) ==
  /\ Step(t, "unregister", "close")
  /\ UNCHANGED <<builder, ending, handles, processing, sessions, consumer, contexts, thunks>>

Unregister(t) ==
  /\ Step(t, "unregister", "close")
  /\ Retire(t)
  /\ UNCHANGED <<builder, ending, handles, processing, sessions, consumer, nextId, thunks>>

\* The call is over: a Drop is still to come, or it was the Drop.
EndCall(t, from) ==
  IF call[t] = "drop"
  THEN Step(t, from, "dropContext") /\ UNCHANGED call
  ELSE Step(t, from, "unregister") /\ call' = [call EXCEPT ![t] = "drop"]

\* Mutant: the consumer is left to the STOP of the session.
CloseSkipped(t) ==
  /\ pc[t] = "close"
  /\ IF call[t] = "close" \/ kind[t] = "file"
     THEN EndCall(t, "close")
     ELSE Step(t, "close", "stop") /\ UNCHANGED call
  /\ UNCHANGED <<builder, stopFailed, handles, processing, sessions, consumer, contexts, thunks>>

Close(t) ==
  /\ pc[t] = "close"
  /\ CloseConsumer(t)
  /\ IF call[t] = "close" \/ kind[t] = "file"
     THEN EndCall(t, "close")
     ELSE Step(t, "close", "stop") /\ UNCHANGED call
  /\ UNCHANGED <<builder, stopFailed, handles, processing, sessions, contexts, thunks>>

\* Attempted whatever the close returned.
Stop(t) ==
  /\ pc[t] = "stop"
  /\ StopSession(t)
  /\ EndCall(t, "stop")
  /\ UNCHANGED <<builder, handles, processing, label, outside, consumer, contexts, thunks>>

DropContext(t) ==
  /\ Step(t, "dropContext", "gone")
  /\ Retire(t)
  /\ UNCHANGED <<builder, ending, handles, processing, sessions, consumer, nextId, thunks>>
-----------------------------------------------------------------------------
(* process_trace, on a thread of its own, and the thunks it runs *)

\* start_and_process, or the caller, hands the handle to a new thread.
Spawn(t) ==
  /\ pc[t] = "live"
  /\ processing[t] = "none"
  /\ processing' = [processing EXCEPT ![t] = "spawned"]
  /\ UNCHANGED <<builder, pc, ending, handles, sessions, consumer, contexts, thunks>>

\* By the time the thread runs the trace may be gone: the handle is an error.
Process(t) ==
  /\ processing[t] = "spawned"
  /\ processing' = [processing EXCEPT ![t] = IF consumer[t] = "open" THEN "running" ELSE "returned"]
  /\ UNCHANGED <<builder, pc, ending, handles, sessions, consumer, contexts, thunks>>

\* ProcessTrace returns at the end of the file, of the session or of the consumer,
\* when no callback of the trace runs.
ProcessReturns(t) ==
  /\ processing[t] = "running"
  /\ consumer[t] = "closed" \/ kind[t] = "file" \/ Running(name[t]) = {}
  /\ \A d \in Deliverers : origin[d] # t
  /\ processing' = [processing EXCEPT ![t] = "returned"]
  /\ UNCHANGED <<builder, pc, ending, handles, sessions, consumer, contexts, thunks>>

\* A pending close ends when the queue is drained.
Drained(t) ==
  /\ consumer[t] = "pending"
  /\ consumer' = [consumer EXCEPT ![t] = "closed"]
  /\ UNCHANGED <<builder, pc, ending, handles, processing, sessions, contexts, thunks>>

\* An event comes, with the context id the consumer was opened with.
Deliver(d, t) ==
  /\ origin[d] = Nobody
  /\ delivered < MaxEvents
  /\ processing[t] = "running"
  /\ consumer[t] \in {"open", "pending"}
  /\ origin' = [origin EXCEPT ![d] = t]
  /\ delivered' = delivered + 1
  /\ UNCHANGED <<builder, pc, ending, handles, processing, sessions, consumer, contexts, handling>>

\* ContextRegistry::get: the callback data the id leads to, or the event is dropped.
Lookup(d) ==
  /\ origin[d] # Nobody
  /\ handling[d] = Nobody
  /\ LET c == context[origin[d]]
     IN IF c \in DOMAIN registry
        THEN handling' = [handling EXCEPT ![d] = registry[c]] /\ UNCHANGED origin
        ELSE origin' = [origin EXCEPT ![d] = Nobody] /\ UNCHANGED handling
  /\ UNCHANGED <<builder, pc, ending, handles, processing, sessions, consumer, contexts, delivered>>

\* The callbacks return and the thunk drops its Arc.
Handled(d) ==
  /\ handling[d] # Nobody
  /\ handling' = [handling EXCEPT ![d] = Nobody]
  /\ origin' = [origin EXCEPT ![d] = Nobody]
  /\ UNCHANGED <<builder, pc, ending, handles, processing, sessions, consumer, contexts, delivered>>
-----------------------------------------------------------------------------
(* Other processes start and stop sessions too *)

OtherStarts(n) ==
  /\ outside < MaxOutside
  /\ Running(n) = {}
  /\ \E l \in Loggers :
       /\ logger[l] = Nobody
       /\ logger' = [logger EXCEPT ![l] = Other]
       /\ label' = [label EXCEPT ![l] = n]
  /\ outside' = outside + 1
  /\ UNCHANGED <<builder, pc, ending, handles, processing, consumer, contexts, thunks>>

OtherStops(l) ==
  /\ outside < MaxOutside
  /\ logger[l] # Nobody
  /\ logger' = [logger EXCEPT ![l] = Nobody]
  /\ outside' = outside + 1
  /\ UNCHANGED <<builder, pc, ending, handles, processing, label, consumer, contexts, thunks>>
-----------------------------------------------------------------------------
Init ==
  /\ kind \in [Traces -> {"owned", "existing", "file"}]
  /\ name \in [Traces -> Names]
  /\ replace \in {r \in [Traces -> BOOLEAN] : \A t \in Traces : r[t] => kind[t] = "owned"}
  /\ pc = [t \in Traces |-> "builder"]
  /\ call = [t \in Traces |-> "none"]
  /\ stopFailed = [t \in Traces |-> FALSE]
  /\ control = [t \in Traces |-> 0]
  /\ context = [t \in Traces |-> 0]
  /\ processing = [t \in Traces |-> "none"]
  /\ logger = [l \in Loggers |-> Nobody]
  /\ label \in {[l \in Loggers |-> n] : n \in Names}
  /\ consumer = [t \in Traces |-> "none"]
  /\ outside = 0
  /\ nextId = 1
  /\ registry = [c \in {} |-> Nobody]
  /\ origin = [d \in Deliverers |-> Nobody]
  /\ handling = [d \in Deliverers |-> Nobody]
  /\ delivered = 0

Start(t) ==
  \/ StopExisting(t) \/ StartTrace(t) \/ StartTraceFails(t) \/ Configure(t)
  \/ Mint(t) \/ Insert(t) \/ Open(t) \/ Forget(t) \/ Capture(t)
  \/ GuardUnregister(t) \/ GuardClose(t) \/ GuardStop(t)

Finish(t) == Unregister(t) \/ Close(t) \/ Stop(t) \/ DropContext(t)

Consume(t) == Process(t) \/ ProcessReturns(t) \/ Drained(t)

Thunk(d) == Lookup(d) \/ Handled(d)

\* Every trace has ended and nothing is delivered any more.
Finished ==
  /\ \A t \in Traces : pc[t] \in Ended
  /\ UNCHANGED vars

Next ==
  \/ \E t \in Traces : Begin(t) \/ Start(t) \/ Spawn(t) \/ End(t) \/ Finish(t) \/ Consume(t)
  \/ \E d \in Deliverers : Thunk(d) \/ \E t \in Traces : Deliver(d, t)
  \/ \E n \in Names : OtherStarts(n)
  \/ \E l \in Loggers : OtherStops(l)
  \/ Finished

Spec == Init /\ [][Next]_vars
-----------------------------------------------------------------------------
(* Properties *)

\* An event reaches the callbacks of the trace it was delivered for, or none:
\* never those of a trace opened later with what an ended one left.
EventsReachOwnTrace ==
  \A d \in Deliverers : handling[d] \in {origin[d], Nobody}

\* No event of an open trace is dropped, from OpenTraceW to the call that ends
\* the trace, whatever other traces start or end meanwhile.
OpenTracesDispatch ==
  \A t \in Traces :
    consumer[t] = "open" /\ pc[t] \in {"capture", "live"} =>
      context[t] \in DOMAIN registry /\ registry[context[t]] = t

\* Once CloseTrace was called, callbacks in flight may end but none begins
\* (native/evntrace.rs: the queued events are "dropped instead of dispatched").
ClosedTracesStaySilent ==
  [][\A d \in Deliverers :
       handling[d] = Nobody /\ handling'[d] # Nobody => consumer[handling'[d]] = "open"]_vars

\* A trace that ended, or never came to be, frees its callback data, whatever
\* path it took: nothing stays in the process-wide registry.
ContextsAreFreed ==
  \A t \in Traces : pc[t] \in Ended => \A c \in DOMAIN registry : registry[c] # t

\* No session is left running behind the caller's back: when start fails, or the
\* trace is stopped, closed or dropped, its session is stopped unless the OS
\* rejected the last STOP, and its consumer is closed.
NothingKeepsRunning ==
  \A t \in Traces : pc[t] \in Ended =>
    /\ consumer[t] # "open"
    /\ (\E l \in Loggers : logger[l] = t) => stopFailed[t]

\* Once its trace has ended, a thread blocked in ProcessTrace returns.
ProcessingEnds ==
  \A t \in Traces : pc[t] \in Ended ~> processing[t] \in {"none", "returned"}
-----------------------------------------------------------------------------
(* What the safety properties rest on *)

Unminted == {"builder", "stopExisting", "startTrace", "configure", "mint"}
Unopened == Unminted \cup {"insert", "open", "forget"}
Opened   == {"capture", "live", "guardUnregister", "guardClose"}
Minted   == (Unopened \ Unminted) \cup Opened \cup Ending
Closed   == {"guardStop", "stop", "dropContext"} \cup Ended

Holders == {t \in Traces : context[t] # 0}

\* Ids are minted in increasing order, one per trace, and never again.
ContextsAreMinted ==
  /\ nextId = 1 + Cardinality(Holders)
  /\ \A t \in Traces :
       /\ context[t] < nextId
       /\ pc[t] \in Unminted => context[t] = 0
       /\ pc[t] \in Minted => context[t] # 0
       /\ \A s \in Traces : context[s] = context[t] /\ context[t] # 0 => s = t

\* From its insertion to the call that ends it; a Drop that follows a call finds
\* the consumer closed.
Holds(t) ==
  \/ pc[t] \in {"open", "forget", "capture", "live", "guardUnregister"}
  \/ pc[t] = "unregister" /\ consumer[t] = "open"

RegistryMatchesTraces ==
  /\ \A c \in DOMAIN registry : context[registry[c]] = c /\ Holds(registry[c])
  /\ \A t \in Traces : Holds(t) => context[t] \in DOMAIN registry /\ registry[context[t]] = t

ConsumersFollow ==
  \A t \in Traces :
    /\ pc[t] \in Unopened => consumer[t] = "none"
    /\ pc[t] \in Opened => consumer[t] = "open"
    /\ pc[t] \in Closed => consumer[t] # "open"
    /\ pc[t] \in Ending => consumer[t] # "none"

EventsHaveConsumers ==
  \A d \in Deliverers :
    /\ handling[d] \in {origin[d], Nobody}
    /\ origin[d] # Nobody => consumer[origin[d]] # "none"

\* A trace runs at most the session of its own control handle, and none before
\* StartTrace, nor after its last STOP unless that was rejected.
SessionsHaveHandles ==
  \A t \in Traces :
    /\ pc[t] \in {"stopExisting", "startTrace", "configure"} => kind[t] = "owned"
    /\ \A l \in Loggers : logger[l] = t =>
         /\ kind[t] = "owned"
         /\ control[t] = l
         /\ pc[t] \notin {"builder", "stopExisting", "startTrace"}
         /\ pc[t] \in {"dropContext"} \cup Ended => stopFailed[t]

\* The inductive invariant.
IInv ==
  /\ TypeOK
  /\ ContextsAreMinted
  /\ RegistryMatchesTraces
  /\ ConsumersFollow
  /\ EventsHaveConsumers
  /\ SessionsHaveHandles
=============================================================================
