--------------------------- MODULE SessionSetup ---------------------------
(***************************************************************************)
(* What TraceBuilder::start and open_existing ask of Windows (trace.rs,    *)
(* native/evntrace.rs, native/etw_types.rs): the name, the properties, the *)
(* kernel configuration, the providers and their filters, in which order,  *)
(* and what becomes of the session if one of the calls fails.              *)
(*                                                                         *)
(* TraceLifecycle has the same calls as outcomes only, and follows the     *)
(* trace to its end; here one trace is set up, and what it configures is   *)
(* followed into the session.  Each call of the OS is a step, and other    *)
(* processes may start or stop sessions of the same names in between.      *)
(***************************************************************************)
EXTENDS Providers

CONSTANTS
  Requests,      \* builders an application may start
  OthersNames,   \* names of sessions that other processes run
  Us, Others,    \* who started a session
  MaxName,       \* TRACE_NAME_MAX_CHARS
  MaxSeconds,    \* the largest flush timer, in seconds
  MaxOutside     \* bound: sessions started or stopped by others

ASSUME SetupAssumption ==
  /\ Us # Others
  /\ MaxName \in Nat \ {0} /\ MaxSeconds \in Nat \ {0} /\ MaxOutside \in Nat

IsSequence(s) == s \in Seq({s[i] : i \in DOMAIN s})

\* What the builders' types say; only a kernel trace has stack tracing and extended groups.
ASSUME RequestsAssumption ==
  \A b \in Requests :
    /\ {b.kernel, b.windows8, b.existing, b.replace} \subseteq BOOLEAN
    /\ b.flush \in Nat
    /\ IsSequence(b.name) /\ IsSequence(b.providers)
    /\ \A i \in DOMAIN b.providers :
         /\ IsSequence(b.providers[i].filters)
         /\ \A j \in DOMAIN b.providers[i].filters : IsFilter(b.providers[i].filters[j])
    /\ b.kernel \/ (b.stacks = {} /\ b.groups = {})

VARIABLES
  request,   \* the builder
  phase,     \* the next step of start or open_existing
  next,      \* the next provider of a loop
  groupMask, \* the group mask it has queried
  error,     \* why it failed
  sessions,  \* OS: the sessions, by name; a partial function
  consumer,  \* OS: the consumer that OpenTraceW attached: "none", "open", "closed"
  rundown,   \* providers whose state was logged to a consumer that listened
  raced,     \* others started a session after stop_if_exist
  outside    \* sessions started or stopped by others so far

setupVars == <<request, phase, next, groupMask, error, sessions, consumer, rundown, raced, outside>>

Masks == 0 .. 7    \* PERFINFO_GROUPMASK; the first one holds the EnableFlags
NoFile == [path |-> <<>>, mode |-> {}]
RealTime == {"REAL_TIME", "NO_PER_PROCESSOR_BUFFERING"}
SystemLogger == "SYSTEM_LOGGER"
KernelLoggerName == <<"NT Kernel Logger">>
-----------------------------------------------------------------------------
(* The builder *)

\* named: before Windows 8 there is one kernel session.
Named(b, name) ==
  [b EXCEPT !.name = IF b.kernel /\ ~ b.windows8 THEN KernelLoggerName ELSE name]

\* UserTrace::new and KernelTrace::new, under a random name.
NewBuilder(kernel, windows8, random) ==
  Named([kernel |-> kernel, windows8 |-> windows8, name |-> <<>>, existing |-> FALSE,
         replace |-> TRUE, flush |-> 1000, mode |-> RealTime, file |-> NoFile,
         providers |-> <<>>, stacks |-> {}, groups |-> {}], random)

StopIfExist(b, replace) == [b EXCEPT !.replace = replace]
SetTraceProperties(b, flush, mode) == [b EXCEPT !.flush = flush, !.mode = mode]
SetEtlDumpFile(b, path, mode) == [b EXCEPT !.file = [path |-> path, mode |-> mode]]
Enable(b, provider) == [b EXCEPT !.providers = Append(@, provider)]
SetStackTracing(b, events) == [b EXCEPT !.stacks = events]
SetExtendedGroups(b, groups) == [b EXCEPT !.groups = groups]
OpenExisting(b) == [b EXCEPT !.existing = TRUE]
-----------------------------------------------------------------------------
(* The session that is asked for *)

\* A wide string ends at the first NUL; names and paths are cut to fit their buffers.
Wide(name) ==
  LET nuls == {i \in DOMAIN name : name[i] = NUL}
      len == IF nuls = {} THEN Len(name) ELSE (CHOOSE i \in nuls : \A j \in nuls : i <= j) - 1
  IN SubSeq(name, 1, IF len < MaxName THEN len ELSE MaxName)

Session == Wide(request.name)

\* Mutant: 0 is not made a second.
RoundedSeconds(ms) == IF (ms + 500) \div 1000 > MaxSeconds THEN MaxSeconds ELSE (ms + 500) \div 1000

FlushSeconds(ms) ==
  LET rounded == (ms + 500) \div 1000
  IN CASE rounded < 1 -> 1
       [] rounded > MaxSeconds -> MaxSeconds
       [] OTHER -> rounded

\* enable_flags: all the classic groups of the providers; user traces have none.
EnableFlags(b) ==
  IF b.kernel THEN UNION {b.providers[i].kernelFlags : i \in DOMAIN b.providers} ELSE {}

LogFileMode(b) ==
  (IF b.mode = {} THEN RealTime ELSE b.mode)
  \cup (IF b.kernel /\ b.windows8 THEN {SystemLogger} ELSE {})
  \cup b.file.mode

\* EventTraceProperties::new, in a session that StartTraceW starts.
NewSession(b) ==
  [owner |-> Us, flush |-> FlushSeconds(b.flush), mode |-> LogFileMode(b),
   file |-> Wide(b.file.path), masks |-> [m \in Masks |-> IF m = 0 THEN EnableFlags(b) ELSE {}],
   stacks |-> {}, enabled |-> [g \in {} |-> {}]]

\* PerfinfoGroupmask::set_groups: a group id is a mask and bits within it.
WithGroups(mask, groups) ==
  [m \in Masks |-> mask[m] \cup UNION {g.bits : g \in {g \in groups : g.mask = m}}]

\* The providers that start enables one by one: all those of a user trace, those with
\* filters of a kernel trace, whose EnableFlags have no room for filters.
ToEnable(p) == ~ request.kernel \/ p.filters # <<>>

ToCapture(p) == ~ request.kernel /\ p.capture
-----------------------------------------------------------------------------
(* The calls, in the order of start *)

Ours == Session \in DOMAIN sessions /\ sessions[Session].owner = Us

\* The error and the guard, armed once the session runs.
Fail(why) == phase' = "guardClose" /\ error' = why

\* A call on the session's control handle: it may fail, and does if the session is gone.
OnSession(after, changed) ==
  \/ Ours /\ phase' = after /\ sessions' = [sessions EXCEPT ![Session] = changed] /\ UNCHANGED error
  \/ Fail("os") /\ UNCHANGED sessions

Build ==
  /\ phase = "builder"
  /\ request' \in Requests
  /\ phase' = CASE request'.existing -> "open"
                [] ~ request'.existing /\ request'.replace -> "stopExisting"
                [] OTHER -> "startTrace"
  /\ UNCHANGED <<next, groupMask, error, sessions, consumer, rundown, raced, outside>>

\* Mutant: a session that others run is left to them.
StopOurs ==
  /\ phase = "stopExisting"
  /\ phase' = "startTrace"
  /\ UNCHANGED <<request, next, groupMask, error, sessions, consumer, rundown, raced, outside>>

\* stop_trace_by_name, by the name as it was given; that nobody runs it is no error.
StopExisting ==
  /\ phase = "stopExisting"
  /\ \/ /\ Has(request.name, NUL)
        /\ phase' = "failed" /\ error' = "invalidName"
        /\ UNCHANGED sessions
     \/ /\ ~ Has(request.name, NUL)
        /\ phase' = "startTrace"
        /\ sessions' = [n \in DOMAIN sessions \ {request.name} |-> sessions[n]]
        /\ UNCHANGED error
     \/ /\ ~ Has(request.name, NUL)
        /\ phase' = "failed" /\ error' = "stopRejected"
        /\ UNCHANGED sessions
  /\ UNCHANGED <<request, next, groupMask, consumer, rundown, raced, outside>>

StartTrace ==
  /\ phase = "startTrace"
  /\ \/ /\ Session \in DOMAIN sessions
        /\ phase' = "failed" /\ error' = "alreadyExists"
        /\ UNCHANGED sessions
     \/ /\ phase' = "failed" /\ error' = "os"
        /\ UNCHANGED sessions
     \/ /\ Session \notin DOMAIN sessions
        /\ phase' = IF request.kernel THEN "stacks" ELSE "enable"
        /\ sessions' = [n \in DOMAIN sessions \cup {Session} |->
                          IF n = Session THEN NewSession(request) ELSE sessions[n]]
        /\ UNCHANGED error
  /\ UNCHANGED <<request, next, groupMask, consumer, rundown, raced, outside>>

\* enable_stack_tracing: no events, no call.
SetStacks ==
  /\ phase = "stacks"
  /\ IF request.stacks = {}
     THEN phase' = "groups" /\ UNCHANGED <<error, sessions>>
     ELSE OnSession("groups", [sessions[Session] EXCEPT !.stacks = request.stacks])
  /\ UNCHANGED <<request, next, groupMask, consumer, rundown, raced, outside>>

\* set_extended_kernel_groups replaces the whole mask: what is there is queried first.
QueryGroups ==
  /\ phase = "groups"
  /\ \/ request.groups = {} /\ phase' = "checkFilters" /\ UNCHANGED <<groupMask, error>>
     \/ /\ request.groups # {} /\ request.windows8 /\ Ours
        /\ groupMask' = sessions[Session].masks
        /\ phase' = "setGroups"
        /\ UNCHANGED error
     \/ request.groups # {} /\ Fail("os") /\ UNCHANGED groupMask
  /\ UNCHANGED <<request, next, sessions, consumer, rundown, raced, outside>>

SetGroups ==
  /\ phase = "setGroups"
  /\ OnSession("checkFilters",
               [sessions[Session] EXCEPT !.masks = WithGroups(groupMask, request.groups)])
  /\ UNCHANGED <<request, next, groupMask, consumer, rundown, raced, outside>>

\* Before Windows 8 a filter could not be applied: never a silent no-op.
CheckFilters ==
  /\ phase = "checkFilters"
  /\ IF ~ request.windows8 /\ \E i \in DOMAIN request.providers : ToEnable(request.providers[i])
     THEN Fail("invalidFilter")
     ELSE phase' = "enable" /\ UNCHANGED error
  /\ UNCHANGED <<request, next, groupMask, sessions, consumer, rundown, raced, outside>>

\* The loop over the providers.  EnableTraceEx2 takes the filters of the provider, and
\* goes over any earlier enable of its GUID.
EnableNext ==
  /\ phase = "enable" /\ next <= Len(request.providers)
  /\ LET p == request.providers[next]
         session == sessions[Session]
     IN \/ ~ ToEnable(p) /\ UNCHANGED <<phase, error, sessions>>
        \/ ToEnable(p) /\ FiltersRejected(p) /\ Fail("invalidFilter") /\ UNCHANGED sessions
        \/ /\ ToEnable(p) /\ ~ FiltersRejected(p)
           /\ OnSession("enable",
                [session EXCEPT !.enabled = [g \in DOMAIN @ \cup {p.guid} |->
                   IF g = p.guid THEN EnableTraceParameters(p) ELSE @[g]]])
  /\ next' = next + 1
  /\ UNCHANGED <<request, groupMask, consumer, rundown, raced, outside>>

\* Mutant: the rundowns are requested along with the enables.
CaptureThenOpen ==
  /\ phase = "enable" /\ next > Len(request.providers)
  /\ next' = 1
  /\ phase' = "capture"
  /\ UNCHANGED <<request, groupMask, error, sessions, consumer, rundown, raced, outside>>

AllEnabled ==
  /\ phase = "enable" /\ next > Len(request.providers)
  /\ next' = 1
  /\ phase' = "open"
  /\ UNCHANGED <<request, groupMask, error, sessions, consumer, rundown, raced, outside>>

\* open_trace, by the same name as the session's.
Open ==
  /\ phase = "open"
  /\ \/ /\ phase' = IF request.existing THEN "live" ELSE "capture"
        /\ consumer' = "open"
        /\ UNCHANGED error
     \/ request.existing /\ phase' = "failed" /\ error' = "os" /\ UNCHANGED consumer
     \/ ~ request.existing /\ Fail("os") /\ UNCHANGED consumer
  /\ UNCHANGED <<request, next, groupMask, sessions, rundown, raced, outside>>

\* What a provider logs of its state is lost if nobody listens.
CaptureNext ==
  /\ phase = "capture" /\ next <= Len(request.providers)
  /\ LET p == request.providers[next]
     IN \/ ~ ToCapture(p) /\ UNCHANGED <<phase, error, sessions, rundown>>
        \/ /\ ToCapture(p)
           /\ OnSession("capture", sessions[Session])
           /\ rundown' = IF error' = "none" /\ consumer = "open"
                         THEN rundown \cup {p.guid} ELSE rundown
  /\ next' = next + 1
  /\ UNCHANGED <<request, groupMask, consumer, raced, outside>>

\* The guard hands the session over to the trace.
HandOver ==
  /\ phase = "capture" /\ next > Len(request.providers)
  /\ phase' = "live"
  /\ next' = 1
  /\ UNCHANGED <<request, groupMask, error, sessions, consumer, rundown, raced, outside>>

\* StartedSessionGuard closes the consumer, if there is one,
GuardClose ==
  /\ phase = "guardClose"
  /\ consumer' = IF consumer = "open" THEN "closed" ELSE consumer
  /\ phase' = "guardStop"
  /\ UNCHANGED <<request, next, groupMask, error, sessions, rundown, raced, outside>>

\* and stops the session, unless the OS refuses.
GuardStop ==
  /\ phase = "guardStop"
  /\ phase' = "failed"
  /\ \/ Ours /\ sessions' = [n \in DOMAIN sessions \ {Session} |-> sessions[n]]
     \/ UNCHANGED sessions
  /\ UNCHANGED <<request, next, groupMask, error, consumer, rundown, raced, outside>>
-----------------------------------------------------------------------------
(* Other processes *)

OtherStarts(n) ==
  /\ outside < MaxOutside
  /\ n \notin DOMAIN sessions
  /\ sessions' = [m \in DOMAIN sessions \cup {n} |->
                    IF m = n THEN [NewSession(request) EXCEPT !.owner = Others] ELSE sessions[m]]
  /\ raced' = (raced \/ phase = "startTrace")
  /\ outside' = outside + 1
  /\ UNCHANGED <<request, phase, next, groupMask, error, consumer, rundown>>

OtherStops(n) ==
  /\ outside < MaxOutside
  /\ sessions' = [m \in DOMAIN sessions \ {n} |-> sessions[m]]
  /\ outside' = outside + 1
  /\ UNCHANGED <<request, phase, next, groupMask, error, consumer, rundown, raced>>
-----------------------------------------------------------------------------
NoRequest == NewBuilder(FALSE, TRUE, <<>>)

SetupInit ==
  /\ request = NoRequest
  /\ phase = "builder"
  /\ next = 1
  /\ groupMask = [m \in Masks |-> {}]
  /\ error = "none"
  /\ sessions = [n \in {} |-> NewSession(NoRequest)]
  /\ consumer = "none"
  /\ rundown = {}
  /\ raced = FALSE
  /\ outside = 0

Configure == SetStacks \/ QueryGroups \/ SetGroups \/ CheckFilters \/ EnableNext \/ AllEnabled

SetupNext ==
  \/ Build \/ StopExisting \/ StartTrace \/ Configure
  \/ Open \/ CaptureNext \/ HandOver \/ GuardClose \/ GuardStop
  \/ \E n \in OthersNames : OtherStarts(n)
  \/ \E n \in DOMAIN sessions : OtherStops(n)
SetupSpec == SetupInit /\ [][SetupNext]_setupVars
-----------------------------------------------------------------------------
(* Properties *)

SetupTypeOK ==
  /\ request \in Requests \cup {NoRequest}
  /\ phase \in {"builder", "stopExisting", "startTrace", "stacks", "groups", "setGroups",
                "checkFilters", "enable", "open", "capture", "live", "guardClose", "guardStop", "failed"}
  /\ next \in 1 .. Len(request.providers) + 1
  /\ DOMAIN groupMask = Masks
  /\ error \in {"none", "invalidName", "stopRejected", "alreadyExists", "invalidFilter", "os"}
  /\ \A n \in DOMAIN sessions :
       /\ sessions[n].owner \in {Us, Others}
       /\ sessions[n].flush \in 1 .. MaxSeconds
       /\ DOMAIN sessions[n].masks = Masks
  /\ consumer \in {"none", "open", "closed"}
  /\ rundown \subseteq {request.providers[i].guid : i \in DOMAIN request.providers}
  /\ raced \in BOOLEAN
  /\ outside \in 0 .. MaxOutside

\* The flush interval is the second closest to the one asked for, and at least one
\* second, as TraceProperties documents it.
FlushAsRequested(seconds) ==
  \/ seconds = 1 /\ request.flush < 1000
  \/ seconds = MaxSeconds /\ request.flush > 1000 * MaxSeconds
  \/ 1000 * seconds - 500 <= request.flush /\ request.flush <= 1000 * seconds + 500

\* The providers that need an enable of their own: a kernel provider does if it has
\* filters.  The last one of each GUID decides how the GUID is enabled.
Deciding ==
  LET own == {i \in DOMAIN request.providers :
                request.kernel => Len(request.providers[i].filters) > 0}
  IN {request.providers[i] : i \in {i \in own :
        \A j \in own : request.providers[j].guid = request.providers[i].guid => j <= i}}

\* Windows filters the provider as each of its filters says, and collects stacks
\* if a flag or a stackwalk filter asks for them.
EnabledAsRequested(parameters, p) ==
  /\ {ReadBack(parameters.filters[i]) : i \in DOMAIN parameters.filters}
       = {Asked(p.filters[i]) : i \in DOMAIN p.filters}
  /\ StackTrace \in parameters.properties <=>
       \/ StackTrace \in p.traceFlags
       \/ \E i \in DOMAIN p.filters : p.filters[i].by = "stacks"
  /\ <<parameters.any, parameters.all, parameters.level>> = <<p.any, p.all, p.level>>

\* The groups of the session are those of its providers and those asked for on top.
GroupsAsRequested(masks) ==
  \A m \in Masks : masks[m] =
    (UNION {g.bits : g \in {g \in request.groups : g.mask = m}})
    \cup (UNION {request.providers[i].kernelFlags :
                   i \in {i \in DOMAIN request.providers : request.kernel /\ m = 0}})

\* A session that start hands out has what its builder asked for, or start has failed:
\* the flush timer, every group, the stack tracing and, of every provider, its keywords,
\* its level, the collection of stacks and its filters, of which none is silently left
\* out, misread or applied to something else.  The dump file, the mode of the log and
\* the other trace flags, which are copied, are not compared.
ConfiguredAsRequested ==
  phase = "live" /\ ~ request.existing /\ Ours =>
    LET s == sessions[Session]
    IN /\ FlushAsRequested(s.flush)
       /\ GroupsAsRequested(s.masks)
       /\ s.stacks = request.stacks
       /\ DOMAIN s.enabled = {p.guid : p \in Deciding}
       /\ \A p \in Deciding : EnabledAsRequested(s.enabled[p.guid], p)

\* Nothing flows before the settings are in place, and no rundown is lost: a consumer
\* is only attached to a session that has all its groups, stacks and providers, and
\* by the time start returns every provider that was to log its state had a listener.
SettingsBeforeEvents ==
  /\ consumer = "open" /\ Ours =>
       /\ GroupsAsRequested(sessions[Session].masks)
       /\ sessions[Session].stacks = request.stacks
       /\ \A p \in Deciding : p.guid \in DOMAIN sessions[Session].enabled
  /\ phase = "live" /\ ~ request.existing /\ ~ request.kernel =>
       \A i \in DOMAIN request.providers :
         request.providers[i].capture => request.providers[i].guid \in rundown

\* With stop_if_exist, start only finds the name taken if somebody took it in between,
\* or if the name is too long: it is stopped in full, and started cut.
ReplacedUnlessRaced ==
  error = "alreadyExists" /\ request.replace => raced \/ Len(request.name) > MaxName
-----------------------------------------------------------------------------
(* What the safety properties rest on *)

Unstarted == {"builder", "stopExisting", "startTrace"}
Grouping  == {"stacks", "groups", "setGroups"}
Attached  == {"capture", "live"}
Broken    == {"guardClose", "guardStop", "failed"}

\* The session is the record that its configuration changes field by field.
SessionsAreRecords ==
  /\ sessions = [n \in DOMAIN sessions |-> sessions[n]]
  /\ \A n \in DOMAIN sessions :
       LET s == sessions[n]
       IN s = [owner |-> s.owner, flush |-> s.flush, mode |-> s.mode, file |-> s.file,
               masks |-> s.masks, stacks |-> s.stacks, enabled |-> s.enabled]

\* What each phase starts from.
PhasesFollow ==
  /\ phase = "builder" => next = 1 /\ rundown = {}
  /\ phase # "builder" => request \in Requests
  /\ phase \notin {"enable", "capture"} \cup Broken => next = 1
  /\ phase \notin Broken => error = "none"
  /\ phase \notin Attached \cup Broken => consumer = "none"
  /\ phase \in Attached => consumer = "open"
  /\ phase \in {"stopExisting", "startTrace"} \cup Grouping \cup {"checkFilters", "enable", "capture"}
       => ~ request.existing
  /\ phase \in Grouping => request.kernel

\* Only a session that this trace started is its own.
OursIsStarted ==
  phase \in Unstarted \/ (phase # "builder" /\ request.existing) =>
    \A n \in DOMAIN sessions : sessions[n].owner = Others

FlushFollows == Ours => FlushAsRequested(sessions[Session].flush)

\* stop_if_exist has freed the name.
NameIsFree ==
  phase = "startTrace" /\ request.replace =>
    raced \/ Len(request.name) > MaxName \/ Session \notin DOMAIN sessions

Settled == phase \in {"checkFilters", "enable", "open"} \cup Attached \/ consumer = "open"

GroupsFollow ==
  /\ phase = "setGroups" => groupMask = NewSession(request).masks
  /\ Ours => /\ phase \in Grouping => sessions[Session].masks = NewSession(request).masks
             /\ Settled => GroupsAsRequested(sessions[Session].masks)

StacksFollow ==
  Ours =>
    /\ phase = "stacks" => sessions[Session].stacks = {}
    /\ phase \in {"groups", "setGroups"} \/ Settled => sessions[Session].stacks = request.stacks

Reached == IF phase \in Grouping \cup {"checkFilters", "enable"} THEN next ELSE Len(request.providers) + 1

\* What the first n providers of a builder leave enabled: the last one of a GUID
\* decides, and none of those has been rejected.
EnabledUpTo(n, b, enabled) ==
  LET reached == {i \in 1 .. n : ~ b.kernel \/ b.providers[i].filters # <<>>}
  IN /\ DOMAIN enabled = {b.providers[i].guid : i \in reached}
     /\ \A i \in reached :
          LET p == b.providers[i]
          IN (\A j \in reached : b.providers[j].guid = p.guid => j <= i) =>
               enabled[p.guid] = EnableTraceParameters(p) /\ ~ FiltersRejected(p)

EnablesFollow ==
  Ours /\ (phase \in Grouping \/ Settled) =>
    EnabledUpTo(Reached - 1, request, sessions[Session].enabled)

RundownsFollow ==
  phase \in Attached /\ ~ request.existing =>
    \A i \in DOMAIN request.providers :
      ToCapture(request.providers[i]) /\ (phase = "capture" => i < next) =>
        request.providers[i].guid \in rundown

\* The inductive invariant.
SetupIInv ==
  /\ SetupTypeOK
  /\ SessionsAreRecords
  /\ PhasesFollow
  /\ OursIsStarted
  /\ NameIsFree
  /\ ReplacedUnlessRaced
  /\ FlushFollows
  /\ GroupsFollow
  /\ StacksFollow
  /\ EnablesFollow
  /\ RundownsFollow
=============================================================================
