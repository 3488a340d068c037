----------------------- MODULE TraceMonitoringProofs ----------------------
(***************************************************************************)
(* Proofs about TraceMonitoring: for any number of traces and delivery     *)
(* threads, and any number of events, buffers and losses.                  *)
(***************************************************************************)
EXTENDS TraceMonitoring, TraceLifecycleProofs

-----------------------------------------------------------------------------
(* The traces underneath *)

\* Counting changes nothing of the life of the traces: what holds of TraceLifecycle
\* holds under the counters.
LEMMA MonitoredStep == MonitoringNext => [Next]_vars
BY DEF MonitoringNext, Next, ConsumeMonitored, ThunkMonitored, LookupCounting, Report,
       DeliverMonitored, BufferDone, FindCounters, CountBuffers, CountLost, Thunk

THEOREM MonitoringFollowsTraces == MonitoringSpec => Spec
<1>1. MonitoringInit => Init
  BY DEF MonitoringInit
<1>2. [MonitoringNext]_monitoringVars => [Next]_vars
  BY MonitoredStep DEF monitoringVars, vars
<1> QED BY <1>1, <1>2, PTL DEF MonitoringSpec, Spec

\* Consumers are never taken back, and a trace enters the registry before it has one.
Onward(s) ==
  /\ consumer[s] # "none" => consumer'[s] # "none"
  /\ Holds(s)' => Holds(s) \/ consumer[s] = "none"

LEMMA TracesOnward ==
  ASSUME IInv, [Next]_vars, NEW s \in Traces
  PROVE  Onward(s)
<1>P. /\ pc \in [Traces -> {"builder", "live"} \cup Starting \cup Ending \cup Ended]
      /\ consumer \in [Traces -> {"none", "open", "pending", "closed"}]
      /\ ConsumersFollow
  BY DEF IInv, TypeOK
<1> USE <1>P DEF Step, builder, ending, handles, sessions, contexts, thunks, Holds,
        ConsumersFollow, Unopened, Unminted, Opened, Closed, Onward
<1>1. ASSUME NEW t \in Traces, Begin(t) PROVE Onward(s)
  BY <1>1 DEF Begin
<1>2. ASSUME NEW t \in Traces, StopExisting(t) PROVE Onward(s)
  BY <1>2 DEF StopExisting
<1>3. ASSUME NEW t \in Traces, StartTrace(t) PROVE Onward(s)
  BY <1>3 DEF StartTrace
<1>4. ASSUME NEW t \in Traces, StartTraceFails(t) PROVE Onward(s)
  BY <1>4 DEF StartTraceFails
<1>5. ASSUME NEW t \in Traces, Configure(t) PROVE Onward(s)
  BY <1>5 DEF Configure
<1>6. ASSUME NEW t \in Traces, Mint(t) PROVE Onward(s)
  BY <1>6 DEF Mint
<1>7. ASSUME NEW t \in Traces, Insert(t) PROVE Onward(s)
  BY <1>7 DEF Insert
<1>8. ASSUME NEW t \in Traces, Open(t) PROVE Onward(s)
  BY <1>8 DEF Open
<1>9. ASSUME NEW t \in Traces, Forget(t) PROVE Onward(s)
  BY <1>9 DEF Forget
<1>10. ASSUME NEW t \in Traces, Capture(t) PROVE Onward(s)
  BY <1>10 DEF Capture
<1>11. ASSUME NEW t \in Traces, GuardUnregister(t) PROVE Onward(s)
  BY <1>11 DEF GuardUnregister
<1>12. ASSUME NEW t \in Traces, GuardClose(t) PROVE Onward(s)
  BY <1>12 DEF GuardClose, CloseConsumer
<1>13. ASSUME NEW t \in Traces, GuardStop(t) PROVE Onward(s)
  BY <1>13 DEF GuardStop
<1>14. ASSUME NEW t \in Traces, End(t) PROVE Onward(s)
  BY <1>14 DEF End
<1>15. ASSUME NEW t \in Traces, Unregister(t) PROVE Onward(s)
  BY <1>15 DEF Unregister
<1>16. ASSUME NEW t \in Traces, Close(t) PROVE Onward(s)
  BY <1>16 DEF Close, CloseConsumer, EndCall
<1>17. ASSUME NEW t \in Traces, Stop(t) PROVE Onward(s)
  BY <1>17 DEF Stop, StopSession, EndCall
<1>18. ASSUME NEW t \in Traces, DropContext(t) PROVE Onward(s)
  BY <1>18 DEF DropContext
<1>19. ASSUME NEW t \in Traces, Spawn(t) PROVE Onward(s)
  BY <1>19 DEF Spawn
<1>20. ASSUME NEW t \in Traces, Consume(t) PROVE Onward(s)
  BY <1>20 DEF Consume, Process, ProcessReturns, Drained
<1>21. ASSUME NEW d \in Deliverers, NEW t \in Traces, Deliver(d, t) PROVE Onward(s)
  BY <1>21 DEF Deliver
<1>22. ASSUME NEW d \in Deliverers, Thunk(d) PROVE Onward(s)
  BY <1>22 DEF Thunk, Lookup, Handled
<1>23. ASSUME NEW n \in Names, OtherStarts(n) PROVE Onward(s)
  BY <1>23 DEF OtherStarts
<1>24. ASSUME NEW l \in Loggers, OtherStops(l) PROVE Onward(s)
  BY <1>24 DEF OtherStops
<1>25. CASE UNCHANGED vars
  BY <1>25 DEF vars
<1> HIDE DEF Onward
<1> QED
  BY <1>1, <1>2, <1>3, <1>4, <1>5, <1>6, <1>7, <1>8, <1>9, <1>10, <1>11, <1>12, <1>13, <1>14, <1>15, <1>16, <1>17, <1>18, <1>19, <1>20, <1>21, <1>22, <1>23, <1>24, <1>25
  DEF Next, Start, Finish, Finished
-----------------------------------------------------------------------------
(* One action after the other *)

\* Steps that count nothing and bring or take no event.
LEMMA QuietStep ==
  ASSUME IInv, MonitoringIInv, [Next]_vars, UNCHANGED monitors,
         \A t \in Traces : Waiting(t)' = Waiting(t)
  PROVE  MonitoringIInv'
<1>1. \A t \in Traces : Onward(t)
  BY TracesOnward
<1>2. totals' = totals /\ counted' = counted /\ report' = report
  BY DEF monitors
<1>3. MonitoringTypeOK' /\ CountersFollow'
  BY <1>1, <1>2 DEF MonitoringIInv, MonitoringTypeOK, CountersFollow, Onward
<1>4. ReportsAreOwn'
  BY <1>1, <1>2 DEF MonitoringIInv, ReportsAreOwn, Quiet, Onward
<1>5. ASSUME NEW t \in Traces, consumer[t] = "none"
      PROVE  totals[t] = counted[t] /\ Waiting(t) = {} /\ totals[t].events = counted[t].events + 0
  BY <1>5, TracesAssumption
  DEF MonitoringIInv, CountersFollow, None, Waiting, IInv, EventsHaveConsumers, TracesAssumption
<1>6. EventsAreCounted'
  BY <1>1, <1>2, <1>5, FS_EmptySet DEF MonitoringIInv, EventsAreCounted, Onward
<1>7. NewestIsCounted'
  BY <1>1, <1>2, <1>5 DEF MonitoringIInv, NewestIsCounted, Onward
<1> QED BY <1>3, <1>4, <1>6, <1>7 DEF MonitoringIInv

\* A registered context leads to the trace it was minted for.
LEMMA OwnContext ==
  ASSUME IInv, NEW t \in Traces, context[t] \in DOMAIN registry
  PROVE  registry[context[t]] = t
BY DEF IInv, RegistryMatchesTraces, ContextsAreMinted, TypeOK, ContextIds

LEMMA DeliverStep ==
  ASSUME IInv, MonitoringIInv, NEW d \in Deliverers, NEW t \in Traces, DeliverMonitored(d, t)
  PROVE  MonitoringIInv'
<1> USE DEF MonitoringIInv
<1>1. /\ totals' = [totals EXCEPT ![t].events = @ + 1] /\ counted' = counted /\ report' = report
      /\ origin[d] = Nobody /\ origin' = [origin EXCEPT ![d] = t] /\ handling' = handling
      /\ consumer[t] # "none" /\ consumer' = consumer /\ pc' = pc
  BY DEF DeliverMonitored, Deliver
<1>2. /\ totals' \in [Traces -> Counters]
      /\ totals'[t].events = totals[t].events + 1
      /\ \A s \in Traces : s # t => totals'[s] = totals[s]
      /\ \A s \in Traces : totals'[s].buffers = totals[s].buffers /\ totals'[s].lost = totals[s].lost
  BY <1>1 DEF MonitoringTypeOK, Counters
<1>3. \A s \in Traces : Holds(s)' <=> Holds(s)
  BY <1>1 DEF Holds
<1>4. handling[d] = Nobody
  BY <1>1 DEF IInv, EventsHaveConsumers
<1>5. d \notin Waiting(t) /\ Waiting(t)' = Waiting(t) \cup {d}
  BY <1>1, <1>4, TracesAssumption DEF Waiting, IInv, TypeOK, TracesAssumption
<1>6. \A s \in Traces : s # t => Waiting(s)' = Waiting(s)
  BY <1>1, <1>4, TracesAssumption DEF Waiting, IInv, TypeOK, TracesAssumption
<1>7. MonitoringTypeOK' /\ ReportsAreOwn' /\ CountersFollow'
  BY <1>1, <1>2 DEF MonitoringTypeOK, ReportsAreOwn, CountersFollow, Quiet
<1>8. EventsAreCounted'
  <2>1. IsFiniteSet(Waiting(t)) /\ Cardinality(Waiting(t)) \in Nat
    BY FS_CardinalityType DEF EventsAreCounted
  <2>2. IsFiniteSet(Waiting(t)') /\ Cardinality(Waiting(t)') = Cardinality(Waiting(t)) + 1
    BY <1>5, <2>1, FS_AddElement
  <2>3. counted[t].events \in Nat
    BY DEF MonitoringTypeOK, Counters
  <2>4. Holds(t)' => totals'[t].events = counted'[t].events + Cardinality(Waiting(t)')
    BY <1>1, <1>2, <1>3, <2>1, <2>2, <2>3 DEF EventsAreCounted
  <2> QED BY <1>1, <1>2, <1>3, <1>6, <2>2, <2>4 DEF EventsAreCounted
<1>9. NewestIsCounted'
  BY <1>1, <1>2, <1>3 DEF NewestIsCounted
<1> QED BY <1>7, <1>8, <1>9

LEMMA LookupStep ==
  ASSUME IInv, MonitoringIInv, NEW d \in Deliverers, LookupCounting(d)
  PROVE  MonitoringIInv'
<1> USE DEF MonitoringIInv
<1>1. PICK t \in Traces : t = origin[d] /\ handling[d] = Nobody
  BY DEF LookupCounting, Lookup, IInv, TypeOK
<1>2. /\ totals' = totals /\ report' = report /\ consumer' = consumer /\ pc' = pc
      /\ d \in Waiting(t) /\ consumer[t] # "none"
  BY <1>1, TracesAssumption
  DEF LookupCounting, Lookup, Waiting, IInv, EventsHaveConsumers, TracesAssumption
<1>3. \A s \in Traces : Holds(s)' <=> Holds(s)
  BY <1>2 DEF Holds
<1>4. Waiting(t)' = Waiting(t) \ {d} /\ \A s \in Traces : s # t => Waiting(s)' = Waiting(s)
  BY <1>1, OwnContext, TracesAssumption DEF LookupCounting, Lookup, Waiting, IInv, TypeOK, TracesAssumption
<1>5. IsFiniteSet(Waiting(t)) /\ Cardinality(Waiting(t)) \in Nat
  BY FS_CardinalityType DEF EventsAreCounted
<1>6. IsFiniteSet(Waiting(t)') /\ Cardinality(Waiting(t)') = Cardinality(Waiting(t)) - 1
  BY <1>2, <1>4, <1>5, FS_RemoveElement
<1>7. ReportsAreOwn'
  BY <1>2 DEF ReportsAreOwn, Quiet
<1>8. CASE context[t] \in DOMAIN registry
  <2>1. handling'[d] = t
    BY <1>1, <1>8, OwnContext DEF LookupCounting, Lookup, IInv, TypeOK
  <2>2. counted' = [counted EXCEPT ![t].events = @ + 1]
    BY <2>1, TracesAssumption DEF LookupCounting, TracesAssumption
  <2>3. /\ counted' \in [Traces -> Counters]
        /\ counted'[t].events = counted[t].events + 1 /\ counted[t].events \in Nat
        /\ \A s \in Traces : s # t => counted'[s] = counted[s]
        /\ \A s \in Traces : counted'[s].buffers = counted[s].buffers /\ counted'[s].lost = counted[s].lost
    BY <2>2 DEF MonitoringTypeOK, Counters
  <2>4. MonitoringTypeOK' /\ CountersFollow'
    BY <1>2, <2>3 DEF MonitoringTypeOK, CountersFollow
  <2>5. Holds(t) => totals'[t].events = counted'[t].events + Cardinality(Waiting(t)')
    BY <1>2, <1>5, <1>6, <2>3 DEF EventsAreCounted
  <2>6. EventsAreCounted'
    BY <1>2, <1>3, <1>4, <1>6, <2>3, <2>5 DEF EventsAreCounted
  <2>7. NewestIsCounted'
    BY <1>2, <1>3, <2>3 DEF NewestIsCounted
  <2> QED BY <1>7, <2>4, <2>6, <2>7
<1>9. CASE context[t] \notin DOMAIN registry
  <2>1. ~Holds(t)
    BY <1>9 DEF IInv, RegistryMatchesTraces
  <2>2. counted' = counted
    BY <1>1, <1>9 DEF LookupCounting, Lookup
  <2>3. MonitoringTypeOK' /\ CountersFollow' /\ NewestIsCounted'
    BY <1>2, <1>3, <2>2 DEF MonitoringTypeOK, CountersFollow, NewestIsCounted
  <2>4. EventsAreCounted'
    BY <1>2, <1>3, <1>4, <1>6, <2>1, <2>2 DEF EventsAreCounted
  <2> QED BY <1>7, <2>3, <2>4
<1> QED BY <1>8, <1>9

\* The traces and the events do not notice a buffer callback.
LEMMA ReportFrame ==
  ASSUME UNCHANGED vars
  PROVE  /\ consumer' = consumer
         /\ \A t : (Holds(t)' <=> Holds(t)) /\ Waiting(t)' = Waiting(t)
BY DEF vars, thunks, Holds, Waiting

LEMMA BufferDoneStep ==
  ASSUME IInv, MonitoringIInv, NEW d \in Deliverers, NEW t \in Traces, BufferDone(d, t)
  PROVE  MonitoringIInv'
<1> USE DEF MonitoringIInv
<1>1. PICK lost, now :
        /\ lost \in 0 .. 1
        /\ now = [totals[t] EXCEPT !.buffers = @ + 1, !.lost = @ + lost]
        /\ totals' = [totals EXCEPT ![t] = now]
        /\ report' = [report EXCEPT ![d] = [from |-> t, data |-> Nobody, buffers |-> now.buffers,
                                           lost |-> now.lost, step |-> "lookup"]]
  BY DEF BufferDone
<1>2. counted' = counted /\ UNCHANGED vars /\ consumer[t] # "none" /\ Quiet(d)
  BY DEF BufferDone
<1>3. /\ now \in Counters
      /\ now.events = totals[t].events
      /\ now.buffers = totals[t].buffers + 1
      /\ now.lost = totals[t].lost + lost
      /\ totals[t] \in Counters
  <2>1. totals[t] \in [events : Nat, buffers : Nat, lost : Nat]
    BY DEF MonitoringTypeOK, Counters
  <2>2. now = [events |-> totals[t].events, buffers |-> totals[t].buffers + 1,
               lost |-> totals[t].lost + lost]
    BY <1>1, <2>1
  <2>3. lost \in 0 .. 1
    BY <1>1
  <2> QED BY <2>1, <2>2, <2>3 DEF Counters
<1>4. /\ totals' \in [Traces -> Counters]
      /\ totals'[t] = now
      /\ \A s \in Traces : s # t => totals'[s] = totals[s]
      /\ \A s \in Traces : totals'[s].events = totals[s].events
      /\ \A s \in Traces : /\ totals[s].buffers \in Nat /\ totals'[s].buffers \in Nat
                           /\ totals[s].lost \in Nat /\ totals'[s].lost \in Nat
                           /\ totals[s].buffers <= totals'[s].buffers
                           /\ totals[s].lost <= totals'[s].lost
  BY <1>1, <1>3 DEF MonitoringTypeOK, Counters
<1>5. /\ report'[d] = [from |-> t, data |-> Nobody, buffers |-> now.buffers,
                       lost |-> now.lost, step |-> "lookup"]
      /\ \A e \in Deliverers : e # d => report'[e] = report[e]
      /\ report[d].step = "none"
  BY <1>1, <1>2 DEF MonitoringTypeOK, Quiet
<1>6. MonitoringTypeOK'
  BY <1>1, <1>2, <1>3, <1>4 DEF MonitoringTypeOK, Counters
<1>7. ReportsAreOwn'
  <2> SUFFICES ASSUME NEW e \in Deliverers, report'[e].step # "none"
               PROVE  /\ report'[e].from \in Traces /\ consumer'[report'[e].from] # "none"
                      /\ report'[e].buffers <= totals'[report'[e].from].buffers
                      /\ report'[e].lost <= totals'[report'[e].from].lost
                      /\ report'[e].step \in {"buffers", "lost"} => report'[e].data = report'[e].from
    BY DEF ReportsAreOwn, Quiet
  <2>1. CASE e = d
    BY <1>2, <1>3, <1>4, <1>5, <2>1, ReportFrame DEF Counters
  <2>2. CASE e # d
    <3>1. /\ report[e].from \in Traces /\ consumer[report[e].from] # "none"
          /\ report[e].buffers <= totals[report[e].from].buffers
          /\ report[e].lost <= totals[report[e].from].lost
          /\ report[e].step \in {"buffers", "lost"} => report[e].data = report[e].from
      BY <1>5, <2>2 DEF ReportsAreOwn, Quiet
    <3>2. report[e].buffers \in Nat /\ report[e].lost \in Nat
      BY DEF MonitoringTypeOK
    <3> QED BY <1>2, <1>4, <1>5, <2>2, <3>1, <3>2, ReportFrame
  <2> QED BY <2>1, <2>2
<1>8. CountersFollow'
  <2>1. \A s \in Traces : counted[s].buffers \in Nat /\ counted[s].lost \in Nat
    BY DEF MonitoringTypeOK, Counters
  <2> QED BY <1>2, <1>4, <2>1, ReportFrame DEF CountersFollow
<1>9. EventsAreCounted'
  BY <1>2, <1>4, ReportFrame DEF EventsAreCounted
<1>10. NewestIsCounted'
  <2>1. report'[d].from = t /\ report'[d].step = "lookup"
        /\ report'[d].buffers = totals'[t].buffers /\ report'[d].lost = totals'[t].lost
    BY <1>4, <1>5
  <2>2. ASSUME NEW s \in Traces, s # t, Holds(s) PROVE
          /\ \/ counted'[s].buffers = totals'[s].buffers
             \/ \E e \in Deliverers : /\ report'[e].step \in {"lookup", "buffers"}
                                      /\ report'[e].from = s
                                      /\ report'[e].buffers = totals'[s].buffers
          /\ \/ counted'[s].lost = totals'[s].lost
             \/ \E e \in Deliverers : /\ report'[e].step \in {"lookup", "buffers", "lost"}
                                      /\ report'[e].from = s
                                      /\ report'[e].lost = totals'[s].lost
    BY <1>2, <1>4, <1>5, <2>2 DEF NewestIsCounted
  <2> QED BY <1>2, <2>1, <2>2, ReportFrame DEF NewestIsCounted
<1> QED BY <1>6, <1>7, <1>8, <1>9, <1>10

\* A report moves on, or is dropped, and counts nothing yet.
LEMMA FindCountersStep ==
  ASSUME IInv, MonitoringIInv, NEW d \in Deliverers, FindCounters(d)
  PROVE  MonitoringIInv'
<1> USE DEF MonitoringIInv
<1>1. totals' = totals /\ counted' = counted /\ UNCHANGED vars /\ report[d].step = "lookup"
  BY DEF FindCounters
<1>2. PICK t \in Traces : t = report[d].from
  BY <1>1 DEF ReportsAreOwn, Quiet
<1>3. \A e \in Deliverers : e # d => report'[e] = report[e]
  BY DEF FindCounters, MonitoringTypeOK
<1>4. CASE context[t] \in DOMAIN registry
  <2>1. registry[context[t]] = t
    BY <1>4, OwnContext
  <2>2. report' = [report EXCEPT ![d] = [@ EXCEPT !.data = t, !.step = "buffers"]]
    BY <1>2, <1>4, <2>1 DEF FindCounters
  <2>3. report'[d] = [report[d] EXCEPT !.data = t, !.step = "buffers"]
    BY <2>2 DEF MonitoringTypeOK
  <2>4. /\ report'[d].from = t /\ report'[d].data = t /\ report'[d].step = "buffers"
        /\ report'[d].buffers = report[d].buffers /\ report'[d].lost = report[d].lost
    BY <1>2, <2>3 DEF MonitoringTypeOK
  <2>5. MonitoringTypeOK'
    BY <1>1, <2>2 DEF MonitoringTypeOK
  <2>6. ReportsAreOwn'
    BY <1>1, <1>2, <1>3, <2>4, ReportFrame DEF ReportsAreOwn, Quiet
  <2>7. CountersFollow' /\ EventsAreCounted'
    BY <1>1, ReportFrame DEF CountersFollow, EventsAreCounted
  <2>8. NewestIsCounted'
    BY <1>1, <1>2, <1>3, <2>4, ReportFrame DEF NewestIsCounted
  <2> QED BY <2>5, <2>6, <2>7, <2>8
<1>5. CASE context[t] \notin DOMAIN registry
  <2>1. ~Holds(t)
    BY <1>5 DEF IInv, RegistryMatchesTraces
  <2>2. report' = [report EXCEPT ![d] = Silence]
    BY <1>2, <1>5 DEF FindCounters
  <2>3. report'[d].step = "none"
    BY <2>2 DEF MonitoringTypeOK, Silence
  <2>4. MonitoringTypeOK'
    BY <1>1, <2>2 DEF MonitoringTypeOK, Silence
  <2>5. ReportsAreOwn'
    BY <1>1, <1>3, <2>3, ReportFrame DEF ReportsAreOwn, Quiet
  <2>6. CountersFollow' /\ EventsAreCounted'
    BY <1>1, ReportFrame DEF CountersFollow, EventsAreCounted
  <2>7. NewestIsCounted'
    BY <1>1, <1>2, <1>3, <2>1, ReportFrame DEF NewestIsCounted
  <2> QED BY <2>4, <2>5, <2>6, <2>7
<1> QED BY <1>4, <1>5

\* The newest total is reached by whichever of its reports comes last, and kept by
\* every older one.
LEMMA CountBuffersStep ==
  ASSUME IInv, MonitoringIInv, NEW d \in Deliverers, CountBuffers(d)
  PROVE  MonitoringIInv'
<1> USE DEF MonitoringIInv
<1>1. totals' = totals /\ UNCHANGED vars /\ report[d].step = "buffers"
  BY DEF CountBuffers
<1>2. PICK t \in Traces : t = report[d].from /\ t = report[d].data
  BY <1>1 DEF ReportsAreOwn, Quiet
<1>3. /\ \A e \in Deliverers : e # d => report'[e] = report[e]
      /\ report'[d] = [report[d] EXCEPT !.step = "lost"]
      /\ report' \in [Deliverers -> [from : Traces \cup {Nobody}, data : Traces \cup {Nobody},
                                    buffers : Nat, lost : Nat,
                                    step : {"none", "lookup", "buffers", "lost"}]]
  BY DEF CountBuffers, MonitoringTypeOK
<1>4. /\ report'[d].step = "lost" /\ report'[d].from = t /\ report'[d].data = t
      /\ report'[d].buffers = report[d].buffers /\ report'[d].lost = report[d].lost
  <2>1. report[d] \in [from : Traces \cup {Nobody}, data : Traces \cup {Nobody},
                       buffers : Nat, lost : Nat, step : {"none", "lookup", "buffers", "lost"}]
    BY DEF MonitoringTypeOK
  <2> QED BY <1>2, <1>3, <2>1
<1>5. /\ report[d].buffers \in Nat /\ report[d].buffers <= totals[t].buffers
      /\ consumer[t] # "none"
  BY <1>1, <1>2 DEF MonitoringTypeOK, ReportsAreOwn, Quiet
<1>6. \A s \in Traces : counted[s].buffers \in Nat /\ totals[s].buffers \in Nat
  BY DEF MonitoringTypeOK, Counters
<1>7. counted' = [counted EXCEPT ![t].buffers = Larger(@, report[d].buffers)]
  BY <1>2 DEF CountBuffers
<1>8. /\ counted' \in [Traces -> Counters]
      /\ counted'[t].buffers = Larger(counted[t].buffers, report[d].buffers)
      /\ \A s \in Traces : s # t => counted'[s] = counted[s]
      /\ \A s \in Traces : counted'[s].events = counted[s].events /\ counted'[s].lost = counted[s].lost
  BY <1>5, <1>6, <1>7 DEF MonitoringTypeOK, Counters, Larger
<1>9. MonitoringTypeOK'
  BY <1>1, <1>3, <1>8 DEF MonitoringTypeOK
<1>10. ReportsAreOwn'
  BY <1>1, <1>2, <1>3, <1>4, ReportFrame DEF ReportsAreOwn, Quiet
<1>11. CountersFollow'
  BY <1>1, <1>5, <1>6, <1>8, ReportFrame DEF CountersFollow, Larger
<1>12. EventsAreCounted'
  BY <1>1, <1>8, ReportFrame DEF EventsAreCounted
<1>13. NewestIsCounted'
  <2>1. ASSUME NEW s \in Traces, Holds(s) PROVE
          \/ counted'[s].buffers = totals'[s].buffers
          \/ \E e \in Deliverers : /\ report'[e].step \in {"lookup", "buffers"}
                                   /\ report'[e].from = s
                                   /\ report'[e].buffers = totals'[s].buffers
    <3>1. CASE counted[s].buffers = totals[s].buffers
      BY <1>1, <1>5, <1>6, <1>8, <3>1 DEF Larger
    <3>2. CASE counted[s].buffers # totals[s].buffers
      <4>1. PICK e \in Deliverers : /\ report[e].step \in {"lookup", "buffers"}
                                    /\ report[e].from = s
                                    /\ report[e].buffers = totals[s].buffers
        BY <2>1, <3>2 DEF NewestIsCounted
      <4>2. CASE e = d
        <5>1. s = t /\ counted[t].buffers <= report[d].buffers
          BY <1>2, <4>1, <4>2 DEF CountersFollow
        <5> QED BY <1>1, <1>5, <1>6, <1>8, <4>1, <4>2, <5>1 DEF Larger
      <4>3. CASE e # d
        BY <1>1, <1>3, <4>1, <4>3
      <4> QED BY <4>2, <4>3
    <3> QED BY <3>1, <3>2
  <2>2. ASSUME NEW s \in Traces, Holds(s) PROVE
          \/ counted'[s].lost = totals'[s].lost
          \/ \E e \in Deliverers : /\ report'[e].step \in {"lookup", "buffers", "lost"}
                                   /\ report'[e].from = s
                                   /\ report'[e].lost = totals'[s].lost
    BY <1>1, <1>2, <1>3, <1>4, <1>8, <2>2 DEF NewestIsCounted
  <2> QED BY <2>1, <2>2, <1>1, ReportFrame DEF NewestIsCounted
<1> QED BY <1>9, <1>10, <1>11, <1>12, <1>13

LEMMA CountLostStep ==
  ASSUME IInv, MonitoringIInv, NEW d \in Deliverers, CountLost(d)
  PROVE  MonitoringIInv'
<1> USE DEF MonitoringIInv
<1>1. totals' = totals /\ UNCHANGED vars /\ report[d].step = "lost"
  BY DEF CountLost
<1>2. PICK t \in Traces : t = report[d].from /\ t = report[d].data
  BY <1>1 DEF ReportsAreOwn, Quiet
<1>3. /\ \A e \in Deliverers : e # d => report'[e] = report[e]
      /\ report'[d].step = "none"
      /\ report' \in [Deliverers -> [from : Traces \cup {Nobody}, data : Traces \cup {Nobody},
                                    buffers : Nat, lost : Nat,
                                    step : {"none", "lookup", "buffers", "lost"}]]
  BY DEF CountLost, MonitoringTypeOK, Silence
<1>4. report[d].lost \in Nat /\ report[d].lost <= totals[t].lost /\ consumer[t] # "none"
  BY <1>1, <1>2 DEF MonitoringTypeOK, ReportsAreOwn, Quiet
<1>5. \A s \in Traces : counted[s].lost \in Nat /\ totals[s].lost \in Nat
  BY DEF MonitoringTypeOK, Counters
<1>6. counted' = [counted EXCEPT ![t].lost = Larger(@, report[d].lost)]
  BY <1>2 DEF CountLost
<1>7. /\ counted' \in [Traces -> Counters]
      /\ counted'[t].lost = Larger(counted[t].lost, report[d].lost)
      /\ \A s \in Traces : s # t => counted'[s] = counted[s]
      /\ \A s \in Traces : /\ counted'[s].events = counted[s].events
                           /\ counted'[s].buffers = counted[s].buffers
  BY <1>4, <1>5, <1>6 DEF MonitoringTypeOK, Counters, Larger
<1>8. MonitoringTypeOK' /\ ReportsAreOwn'
  BY <1>1, <1>3, <1>7, ReportFrame DEF MonitoringTypeOK, ReportsAreOwn, Quiet
<1>9. CountersFollow'
  BY <1>1, <1>4, <1>5, <1>7, ReportFrame DEF CountersFollow, Larger
<1>10. EventsAreCounted'
  BY <1>1, <1>7, ReportFrame DEF EventsAreCounted
<1>11. NewestIsCounted'
  <2>1. ASSUME NEW s \in Traces, Holds(s) PROVE
          \/ counted'[s].lost = totals'[s].lost
          \/ \E e \in Deliverers : /\ report'[e].step \in {"lookup", "buffers", "lost"}
                                   /\ report'[e].from = s
                                   /\ report'[e].lost = totals'[s].lost
    <3>1. CASE counted[s].lost = totals[s].lost
      BY <1>1, <1>4, <1>5, <1>7, <3>1 DEF Larger
    <3>2. CASE counted[s].lost # totals[s].lost
      <4>1. PICK e \in Deliverers : /\ report[e].step \in {"lookup", "buffers", "lost"}
                                    /\ report[e].from = s
                                    /\ report[e].lost = totals[s].lost
        BY <2>1, <3>2 DEF NewestIsCounted
      <4>2. CASE e = d
        <5>1. s = t /\ counted[t].lost <= report[d].lost
          BY <1>2, <4>1, <4>2 DEF CountersFollow
        <5> QED BY <1>1, <1>4, <1>5, <1>7, <4>1, <4>2, <5>1 DEF Larger
      <4>3. CASE e # d
        BY <1>1, <1>3, <4>1, <4>3
      <4> QED BY <4>2, <4>3
    <3> QED BY <3>1, <3>2
  <2>2. ASSUME NEW s \in Traces, Holds(s) PROVE
          \/ counted'[s].buffers = totals'[s].buffers
          \/ \E e \in Deliverers : /\ report'[e].step \in {"lookup", "buffers"}
                                   /\ report'[e].from = s
                                   /\ report'[e].buffers = totals'[s].buffers
    BY <1>1, <1>2, <1>3, <1>7, <2>2 DEF NewestIsCounted
  <2> QED BY <2>1, <2>2, <1>1, ReportFrame DEF NewestIsCounted
<1> QED BY <1>8, <1>9, <1>10, <1>11
-----------------------------------------------------------------------------
(* The inductive invariant and what follows from it *)

LEMMA MonitoringHoldsAtFirst == MonitoringInit => MonitoringIInv
<1> SUFFICES ASSUME MonitoringInit PROVE MonitoringIInv
  OBVIOUS
<1> USE DEF MonitoringInit, Init
<1>1. MonitoringTypeOK
  BY DEF MonitoringTypeOK, Counters, None, Silence
<1>2. ReportsAreOwn /\ CountersFollow
  BY DEF ReportsAreOwn, Quiet, Silence, CountersFollow, None
<1>3. \A t \in Traces : /\ Waiting(t) = {} /\ totals[t] = counted[t]
                        /\ totals[t].events = counted[t].events + 0
  BY TracesAssumption DEF Waiting, None, TracesAssumption
<1>4. EventsAreCounted
  <2> HIDE DEF MonitoringInit
  <2>1. IsFiniteSet({}) /\ Cardinality({}) = 0
    BY FS_EmptySet
  <2> QED BY <1>3, <2>1 DEF EventsAreCounted
<1>5. NewestIsCounted
  BY <1>3 DEF NewestIsCounted
<1> QED BY <1>1, <1>2, <1>4, <1>5 DEF MonitoringIInv

LEMMA MonitoringIsKept ==
  ASSUME IInv, MonitoringIInv, [MonitoringNext]_monitoringVars
  PROVE  MonitoringIInv'
<1>1. ASSUME [Next]_vars, UNCHANGED <<monitors, origin, handling>> PROVE MonitoringIInv'
  BY <1>1, QuietStep DEF Waiting
<1>2. ASSUME NEW d \in Deliverers, Handled(d), UNCHANGED monitors PROVE MonitoringIInv'
  <2>1. \A t \in Traces : Waiting(t)' = Waiting(t)
    BY <1>2, TracesAssumption DEF Handled, Waiting, IInv, TypeOK, TracesAssumption
  <2> QED BY <1>2, <2>1, QuietStep DEF Next, Thunk
<1>3. ASSUME NEW t \in Traces, Consume(t), UNCHANGED monitors PROVE MonitoringIInv'
  BY <1>1, <1>3 DEF Next, Consume, Process, ProcessReturns, Drained, thunks
<1>4. ASSUME NEW t \in Traces, UNCHANGED monitors,
             Begin(t) \/ Start(t) \/ Spawn(t) \/ End(t) \/ Finish(t)
      PROVE  MonitoringIInv'
  <2>1. UNCHANGED thunks
    BY <1>4
    DEF Begin, Start, StopExisting, StartTrace, StartTraceFails, Configure, Mint, Insert, Open,
        Forget, Capture, GuardUnregister, GuardClose, GuardStop, Spawn, End, Finish, Unregister,
        Close, Stop, DropContext
  <2> QED BY <1>1, <1>4, <2>1 DEF Next, thunks
<1>5. ASSUME NEW n \in Names, OtherStarts(n), UNCHANGED monitors PROVE MonitoringIInv'
  BY <1>1, <1>5 DEF Next, OtherStarts, thunks
<1>6. ASSUME NEW l \in Loggers, OtherStops(l), UNCHANGED monitors PROVE MonitoringIInv'
  BY <1>1, <1>6 DEF Next, OtherStops, thunks
<1>7. ASSUME UNCHANGED monitoringVars PROVE MonitoringIInv'
  BY <1>1, <1>7 DEF monitoringVars, vars, thunks
<1> QED
  BY <1>2, <1>3, <1>4, <1>5, <1>6, <1>7, LookupStep, DeliverStep, BufferDoneStep,
     FindCountersStep, CountBuffersStep, CountLostStep
  DEF MonitoringNext, ConsumeMonitored, ThunkMonitored, Report, Finished, monitoringVars

\* Under the counters of any number of traces, whatever the order in which buffers
\* are reported: what is not counted yet is on its way.
THEOREM MonitoringInvariant == MonitoringSpec => [](IInv /\ MonitoringIInv)
<1>1. MonitoringInit => MonitoringIInv
  BY MonitoringHoldsAtFirst
<1>2. IInv /\ MonitoringIInv /\ [MonitoringNext]_monitoringVars => MonitoringIInv'
  BY MonitoringIsKept
<1> QED BY <1>1, <1>2, Invariant, MonitoringFollowsTraces, PTL DEF MonitoringSpec

\* With no callback under way, the counters of an open trace are those of the OS.
THEOREM CountersAlwaysCatchUp == MonitoringSpec => []CountersCatchUp
<1>1. ASSUME IInv, MonitoringIInv PROVE CountersCatchUp
  <2> SUFFICES ASSUME NEW t \in Traces, pc[t] \in {"capture", "live"},
                      \A d \in Deliverers : origin[d] # t /\ report[d].from # t
               PROVE  counted[t] = totals[t]
    BY DEF CountersCatchUp
  <2>1. Holds(t) /\ Waiting(t) = {}
    BY DEF Holds, Waiting
  <2>2. counted[t] \in Counters /\ totals[t] \in Counters
    BY <1>1 DEF MonitoringIInv, MonitoringTypeOK
  <2>3. counted[t].events = totals[t].events
    BY <1>1, <2>1, <2>2, FS_EmptySet DEF MonitoringIInv, EventsAreCounted, Counters
  <2>4. counted[t].buffers = totals[t].buffers /\ counted[t].lost = totals[t].lost
    BY <1>1, <2>1 DEF MonitoringIInv, NewestIsCounted
  <2> QED BY <2>2, <2>3, <2>4 DEF Counters
<1>2. IInv /\ MonitoringIInv => CountersCatchUp
  BY <1>1
<1> QED BY <1>2, MonitoringInvariant, PTL

\* A counter only grows, to the larger of what it was and what is reported.
THEOREM CountersNeverGoBackward == MonitoringSpec => CountersNeverGoBack
<1> DEFINE Grows == \A t \in Traces : \A c \in DOMAIN None : counted[t][c] <= counted'[t][c]
<1>1. ASSUME IInv, MonitoringIInv, [MonitoringNext]_monitoringVars
      PROVE  Grows \/ UNCHANGED monitoringVars
  <2>1. \A t \in Traces : counted[t] \in Counters
    BY <1>1 DEF MonitoringIInv, MonitoringTypeOK
  <2>2. ASSUME UNCHANGED counted PROVE Grows
    BY <2>1, <2>2 DEF None, Counters
  <2>3. ASSUME NEW d \in Deliverers, LookupCounting(d), ~UNCHANGED counted PROVE Grows
    <3>1. PICK t \in Traces : counted' = [counted EXCEPT ![t].events = @ + 1]
      <4>1. handling' \in [Deliverers -> Traces \cup {Nobody}]
        BY <1>1, TypeStep, MonitoredStep, <2>3 DEF IInv, MonitoringNext, ThunkMonitored, TypeOK
      <4> QED BY <2>3, <4>1 DEF LookupCounting
    <3> QED BY <1>1, <2>1, <3>1 DEF None, Counters, MonitoringIInv, MonitoringTypeOK
  <2>4. ASSUME NEW d \in Deliverers, CountBuffers(d) PROVE Grows
    <3>1. PICK t \in Traces : counted' = [counted EXCEPT ![t].buffers = Larger(@, report[d].buffers)]
      BY <1>1, <2>4 DEF CountBuffers, MonitoringIInv, ReportsAreOwn, Quiet
    <3>2. report[d].buffers \in Nat
      BY <1>1 DEF MonitoringIInv, MonitoringTypeOK
    <3> QED BY <1>1, <2>1, <3>1, <3>2 DEF None, Counters, Larger, MonitoringIInv, MonitoringTypeOK
  <2>5. ASSUME NEW d \in Deliverers, CountLost(d) PROVE Grows
    <3>1. PICK t \in Traces : counted' = [counted EXCEPT ![t].lost = Larger(@, report[d].lost)]
      BY <1>1, <2>5 DEF CountLost, MonitoringIInv, ReportsAreOwn, Quiet
    <3>2. report[d].lost \in Nat
      BY <1>1 DEF MonitoringIInv, MonitoringTypeOK
    <3> QED BY <1>1, <2>1, <3>1, <3>2 DEF None, Counters, Larger, MonitoringIInv, MonitoringTypeOK
  <2> HIDE DEF Grows
  <2> QED
    BY <1>1, <2>2, <2>3, <2>4, <2>5
    DEF MonitoringNext, ConsumeMonitored, ThunkMonitored, Report, DeliverMonitored, BufferDone,
        FindCounters, monitors
<1>2. ASSUME IInv, MonitoringIInv, [MonitoringNext]_monitoringVars
      PROVE  [Grows]_monitoringVars
  <2> HIDE DEF Grows
  <2> QED BY <1>1, <1>2
<1>3. IInv /\ MonitoringIInv /\ [MonitoringNext]_monitoringVars => [Grows]_monitoringVars
  BY <1>2
<1> QED BY <1>3, MonitoringInvariant, PTL DEF MonitoringSpec, CountersNeverGoBack
=============================================================================
