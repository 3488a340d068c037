-------------------------- MODULE TraceMonitoring --------------------------
(***************************************************************************)
(* The counters a trace keeps about what it is brought (callback_data.rs)  *)
(* and the buffer callback that feeds two of them (native/evntrace.rs), on *)
(* top of the life of the traces.                                          *)
(*                                                                         *)
(* After each buffer the OS calls back with the running totals of the      *)
(* trace, on a thread of its own choice: totals taken one after the other  *)
(* may be applied in another order, or to a trace that was closed          *)
(* meanwhile.  A step is one atomic operation on one counter.              *)
(***************************************************************************)
EXTENDS TraceLifecycle

CONSTANT MaxBuffers   \* bound: buffers processed of each trace

ASSUME MaxBuffersAssumption == MaxBuffers \in Nat

VARIABLES
  totals,   \* OS: what each trace was brought so far, events, buffers and losses
  counted,  \* the counters of each trace's callback data
  report    \* what the buffer callback of each delivery thread is doing

monitors == <<totals, counted, report>>
monitoringVars == <<vars, monitors>>

None    == [events |-> 0, buffers |-> 0, lost |-> 0]
Silence == [from |-> Nobody, data |-> Nobody, buffers |-> 0, lost |-> 0, step |-> "none"]

Larger(a, b) == IF a < b THEN b ELSE a
-----------------------------------------------------------------------------
(* The buffer callback *)

Quiet(d) == report[d].step = "none"

\* A buffer was processed, some of its events perhaps lost.
BufferDone(d, t) ==
  /\ Quiet(d)
  /\ origin[d] = Nobody
  /\ processing[t] = "running"
  /\ consumer[t] \in {"open", "pending"}
  /\ totals[t].buffers < MaxBuffers
  /\ \E lost \in 0 .. 1 :
       LET now == [totals[t] EXCEPT !.buffers = @ + 1, !.lost = @ + lost]
       IN /\ totals' = [totals EXCEPT ![t] = now]
          /\ report' = [report EXCEPT ![d] = [from |-> t, data |-> Nobody, buffers |-> now.buffers,
                                              lost |-> now.lost, step |-> "lookup"]]
  /\ UNCHANGED <<vars, counted>>

\* ContextRegistry::get: a retired context is told nothing.
FindCounters(d) ==
  /\ report[d].step = "lookup"
  /\ report' = [report EXCEPT ![d] = IF context[@.from] \in DOMAIN registry
                                     THEN [@ EXCEPT !.data = registry[context[report[d].from]],
                                                    !.step = "buffers"]
                                     ELSE Silence]
  /\ UNCHANGED <<vars, totals, counted>>

\* Mutant: the totals are stored as they come.
StoreBuffers(d) ==
  /\ report[d].step = "buffers"
  /\ counted' = [counted EXCEPT ![report[d].data].buffers = report[d].buffers]
  /\ report' = [report EXCEPT ![d].step = "lost"]
  /\ UNCHANGED <<vars, totals>>

CountBuffers(d) ==
  /\ report[d].step = "buffers"
  /\ counted' = [counted EXCEPT ![report[d].data].buffers = Larger(@, report[d].buffers)]
  /\ report' = [report EXCEPT ![d].step = "lost"]
  /\ UNCHANGED <<vars, totals>>

\* Mutant: the totals are added up.
SumLost(d) ==
  /\ report[d].step = "lost"
  /\ counted' = [counted EXCEPT ![report[d].data].lost = @ + report[d].lost]
  /\ report' = [report EXCEPT ![d] = Silence]
  /\ UNCHANGED <<vars, totals>>

\* The thunk then drops its Arc of the callback data.
CountLost(d) ==
  /\ report[d].step = "lost"
  /\ counted' = [counted EXCEPT ![report[d].data].lost = Larger(@, report[d].lost)]
  /\ report' = [report EXCEPT ![d] = Silence]
  /\ UNCHANGED <<vars, totals>>

Report(d) == FindCounters(d) \/ CountBuffers(d) \/ CountLost(d)
-----------------------------------------------------------------------------
(* The event callback, counting, and the steps that count nothing *)

DeliverMonitored(d, t) ==
  /\ Quiet(d)
  /\ Deliver(d, t)
  /\ totals' = [totals EXCEPT ![t].events = @ + 1]
  /\ UNCHANGED <<counted, report>>

\* on_event counts before it looks for the event's providers.
LookupCounting(d) ==
  /\ Lookup(d)
  /\ counted' = IF handling'[d] = Nobody THEN counted
                ELSE [counted EXCEPT ![handling'[d]].events = @ + 1]
  /\ UNCHANGED <<totals, report>>

ThunkMonitored(d) == LookupCounting(d) \/ (Handled(d) /\ UNCHANGED monitors)

\* ProcessTrace does not return under a callback, of a buffer either.
ConsumeMonitored(t) ==
  /\ Consume(t)
  /\ processing'[t] = "returned" => \A d \in Deliverers : report[d].from # t
  /\ UNCHANGED monitors
-----------------------------------------------------------------------------
MonitoringInit ==
  /\ Init
  /\ totals = [t \in Traces |-> None]
  /\ counted = [t \in Traces |-> None]
  /\ report = [d \in Deliverers |-> Silence]

MonitoringNext ==
  \/ \E t \in Traces : ConsumeMonitored(t)
  \/ \E t \in Traces : (Begin(t) \/ Start(t) \/ Spawn(t) \/ End(t) \/ Finish(t)) /\ UNCHANGED monitors
  \/ \E d \in Deliverers : ThunkMonitored(d) \/ Report(d)
  \/ \E d \in Deliverers, t \in Traces : DeliverMonitored(d, t) \/ BufferDone(d, t)
  \/ (\E n \in Names : OtherStarts(n)) /\ UNCHANGED monitors
  \/ (\E l \in Loggers : OtherStops(l)) /\ UNCHANGED monitors
  \/ Finished /\ UNCHANGED monitors

MonitoringSpec == MonitoringInit /\ [][MonitoringNext]_monitoringVars

\* OS calls and callbacks return, threads run.  Nothing makes the application
\* start or end a trace, nor an event or a buffer come.
MonitoringFairness ==
  /\ \A t \in Traces :
       /\ WF_monitoringVars(Start(t) /\ UNCHANGED monitors)
       /\ WF_monitoringVars(Finish(t) /\ UNCHANGED monitors)
       /\ WF_monitoringVars(ConsumeMonitored(t))
  /\ \A d \in Deliverers : WF_monitoringVars(ThunkMonitored(d)) /\ WF_monitoringVars(Report(d))

FairMonitoringSpec == MonitoringSpec /\ MonitoringFairness
-----------------------------------------------------------------------------
(* Properties *)

\* What a trace says of itself never goes back, whatever the order in which the
\* totals of concurrent buffers reach it.
CountersNeverGoBack ==
  [][\A t \in Traces : \A c \in DOMAIN None : counted[t][c] <= counted'[t][c]]_monitoringVars

\* As long as a trace is open its counters are those of the OS once no callback
\* for it is under way: nothing is missed, counted twice or left at an older total.
CountersCatchUp ==
  \A t \in Traces :
    /\ pc[t] \in {"capture", "live"}
    /\ \A d \in Deliverers : origin[d] # t /\ report[d].from # t
    => counted[t] = totals[t]
-----------------------------------------------------------------------------
(* What the counters rest on, besides the invariant of TraceLifecycle *)

Counters == [events : Nat, buffers : Nat, lost : Nat]

MonitoringTypeOK ==
  /\ totals \in [Traces -> Counters]
  /\ counted \in [Traces -> Counters]
  /\ report \in [Deliverers -> [from : Traces \cup {Nobody}, data : Traces \cup {Nobody},
                               buffers : Nat, lost : Nat,
                               step : {"none", "lookup", "buffers", "lost"}]]

\* A report is about a trace that was opened, tells no more than what the OS has
\* counted since, and is applied to the counters of the same trace.
ReportsAreOwn ==
  \A d \in Deliverers : ~Quiet(d) =>
    LET r == report[d]
    IN /\ r.from \in Traces /\ consumer[r.from] # "none"
       /\ r.buffers <= totals[r.from].buffers /\ r.lost <= totals[r.from].lost
       /\ r.step \in {"buffers", "lost"} => r.data = r.from

CountersFollow ==
  \A t \in Traces :
    /\ counted[t].buffers <= totals[t].buffers /\ counted[t].lost <= totals[t].lost
    /\ consumer[t] = "none" => totals[t] = None /\ counted[t] = None

\* Delivered, and not counted yet.
Waiting(t) == {d \in Deliverers : origin[d] = t /\ handling[d] = Nobody}

EventsAreCounted ==
  \A t \in Traces :
    /\ IsFiniteSet(Waiting(t))
    /\ Holds(t) => totals[t].events = counted[t].events + Cardinality(Waiting(t))

\* Of a registered trace, the newest totals are counted or still on their way.
NewestIsCounted ==
  \A t \in Traces : Holds(t) =>
    /\ \/ counted[t].buffers = totals[t].buffers
       \/ \E d \in Deliverers : /\ report[d].step \in {"lookup", "buffers"}
                                /\ report[d].from = t
                                /\ report[d].buffers = totals[t].buffers
    /\ \/ counted[t].lost = totals[t].lost
       \/ \E d \in Deliverers : /\ report[d].step \in {"lookup", "buffers", "lost"}
                                /\ report[d].from = t
                                /\ report[d].lost = totals[t].lost

\* The inductive invariant.
MonitoringIInv ==
  /\ MonitoringTypeOK
  /\ ReportsAreOwn
  /\ CountersFollow
  /\ EventsAreCounted
  /\ NewestIsCounted
=============================================================================
