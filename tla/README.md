# ferrisetw2 in TLA+

`ferrisetw2` is a Rust library around Event Tracing for Windows (ETW): it starts or
opens tracing sessions, enables providers on them, receives events on threads that
Windows owns, and decodes the events on demand. This directory holds its
specification: TLA+ modules translated from the source, TLC models that check them on
small instances, and TLAPS proofs that hold for every instance. Paths are relative to
the repository.

Sections: [the system](#the-system), [the modules](#the-modules), [the runs](#the-runs),
[bounds](#bounds), [fairness](#fairness), [proofs](#proofs),
[disagreements found](#disagreements-found), [abstractions](#abstractions),
[not modelled](#not-modelled), [plan](#plan).

## The system

| Component | State | Operations | Shares with |
|---|---|---|---|
| Runtime provider mutation and dispatch (`src/trace.rs`, `src/trace/callback_data.rs`, `src/provider.rs`) | `RwLock<ProviderRegistry>` (a `Vec` of entries and a map from GUID to entries), the `session_mutations` mutex, one mutex of callbacks per provider; in the OS, the configuration a session keeps for each GUID | `enable_provider`, `disable_provider`, `on_event` | application threads, ETW's delivery threads, user callbacks, which may call enable and disable |
| Trace lifecycle and context registry (`src/trace.rs`, `src/native/evntrace.rs`) | the handles of each trace, `CONTEXT_REGISTRY` (context id to callback data), `NEXT_CONTEXT_ID`; in the OS, sessions and consumers | `start`, `open_existing`, file `start`, `stop`, `close`, `Drop`, `process`, the callback thunks | every trace of the process shares the registry; ETW threads look it up; other processes start and stop sessions |
| Schema cache (`src/schema_locator.rs`, `src/schema.rs`) | two levels of maps under a lock, and their number of schemas | `event_schema`, `store` | all the delivery threads of a trace |
| Event parser (`src/parser.rs`, `src/native/tdh_types.rs`, `src/native/tdh.rs`) | the slices located so far, the offset reached, where the next lookup of a name starts | `try_parse`, `property_bytes_at` | one callback; sizes it cannot tell are asked of TDH |
| Event serializer (`src/ser.rs`, with the decoding of `src/parser.rs` and the schemas of `src/native/tdh.rs`) | the parser's, and the document written so far | `Serialize` of an event, of structures and of arrays of them, of extended data | the parser; one callback |
| Providers and event filters (`src/provider/event_filter.rs`, `src/provider.rs`) | none | builders; the descriptors of an enable | every enable, which fails when they cannot be built |
| Buffer statistics, session queries (`src/trace/callback_data.rs`, `src/query.rs`, `src/native/evntrace.rs`) | atomic counters; a buffer of the size the OS asked for | `on_buffer`, `query_array_info` | ETW's buffer callback, on any thread; the rest of the system, which goes on |
| Kernel session configuration (`src/native/etw_types.rs`, `src/provider/kernel_providers.rs`) | none | names, properties, flags, group masks, stack tracing | `start`, call by call; other processes' sessions |
| Native conversions (`src/native/time.rs`, `src/native/sddl.rs`, `src/parser/socket_address.rs`, ...) and platform helpers (`src/native/pla.rs`, `src/utils.rs`, ...) | none | conversions of values; calls into Windows | |

What makes each hard, and what makes it correct:

* **Provider mutation.** A call takes a mutex, edits the registry under one lock, calls
  the OS, and edits the registry again when the OS refuses; meanwhile events are looked
  up, and callbacks that run without the registry's lock (but with their provider's
  mutex) issue the same calls. Correct: the two collections of the registry agree; a
  GUID the session delivers always has somebody to dispatch to; each call takes effect
  at one instant or not at all; every call and every event comes to its end.
* **Lifecycle.** `start` is a sequence of fallible steps with a guard; `stop` and `close`
  consume the trace, so a second cleanup follows in `Drop`; events may be queued, or in
  a callback, when the trace ends. Correct: an event reaches its own trace or nobody;
  an open trace drops none; a closed one begins no callback; no path leaks a context, a
  session or a consumer; `process` returns.
* **Schema cache.** Probe, build and store are separate, and threads race through them.
  Correct: the schema fits the event, all threads share one, nothing is evicted, and
  the bound holds.
* **Parser.** Every size depends on the values before, properties are located as they
  are asked for, in any order, and a failure leaves a prefix behind. Correct: the
  slices tile the buffer, each is a value of its property's type, and an answer belongs
  to what was asked.

* **Serializer.** It asks the parser for one property after the other, and for a count in
  between; it takes structures apart itself, member by member, and either fails or
  writes null when something cannot be decoded. Correct: an event that follows its
  schema becomes what was written; a loss never shifts what follows; a lenient
  serializer always writes every property.
* **Session setup.** A builder's settings reach Windows through ten calls, in flags, group
  masks, filter blobs and wide strings; others run sessions of the same names. Correct:
  a session that is handed out has every setting that was asked for, before its events
  are consumed; otherwise `start` fails and leaves nothing of it behind.
* **Counters and queries.** Totals are applied concurrently and late; an array is asked
  for by a size that may be stale. Correct: counters only grow and catch up; a query
  returns what the system has.

`PROJECT.json` lists under `hazards` where in the code each of these bites and which
property would notice.

## The modules

### AtomicSession

The abstract specification of `enable_provider` and `disable_provider`: `entries` and
`configured` change together, in `Enable(g, i)`, `Disable(g)`, or when somebody else
stops the session (`End`). There are no locks, threads or failures: a call that fails
leaves no trace. Once the session is not `alive` nothing takes effect: a disable that the
OS rejects because the session is gone must keep the entries.

### ProviderSession

| TLA+ | Code |
|---|---|
| `providers`, `byGuid`, `Add`, `RemoveAllByGuid`, `RemoveOne` | `ProviderRegistry` and its methods (`callback_data.rs`) |
| `mutex`, `LockFor` | `session_mutations`, `lock_session_mutations` |
| `CallEnable`, `LockEnable`, `Register`, `OsEnable`, `OsEnableFails`, `Rollback`, `Capture` | `UserTrace::enable_provider`, in order: call, lock, `add_provider_shared`, `EnableTraceEx2` (or a filter that cannot be built), the rollback, and after the lock the rundown request |
| `CallDisable`, `LockDisable`, `Check`, `OsDisable`, `OsDisableFails`, `Unregister` | `UserTrace::disable_provider` |
| `Deliver`, `Lookup`, `RunCallbacks`, `EndCallbacks`, `EndEvent` | `on_event`: the entries are cloned under the read lock, then called in order, each under its callbacks' mutex |
| `owned`, `configured`, `SessionEnds` | the OS's session, and its loss: stopped by name, by anybody |

An entry is the number of its registration, which stands for the identity of its
`Arc<Provider>`. A step is one critical section of the `RwLock` (which is never held
across anything else), one OS call, or the acquisition of a mutex that is held across
steps. A delivery thread that runs a callback may be inside enable or disable at the
same time: `pc` and `running` are independent, and `EndCallbacks` waits for `pc`.

`RejectedProvider` and `TraceFormatting` extend it: the first remembers which enables
the OS rejected, the second adds a thread that formats the trace with `{:?}`, for which
it splits the read lock and the callbacks' mutexes into acquisition and release.

### TraceLifecycle

Each trace is of one kind (`owned` by `start`, `existing`, `file`) and goes through
`builder`, the steps of its start, `live`, and one or two rounds of the steps of its
end. `call` says which round this is: after an explicit `stop` or `close` the `Drop`
follows and does it again. `Forget`, `GuardUnregister`, `GuardClose` and `GuardStop` are
the error paths: the drop of the context when `OpenTraceW` fails, and
`StartedSessionGuard`. `registry` and `nextId` are the process-wide context registry;
`Deliver`, `Lookup` and `Handled` are the thunk that ETW calls with a context id.
`logger`, `label`, `consumer`, `Drained`, `OtherStarts` and `OtherStops` are the OS.

### SchemaCache

`Call`, `Probe`, `Build` (or `BuildFails`) and `Store` are the critical sections and the
unlocked step of `SchemaLocator::event_schema`. A schema is the number of its building,
and `decoded` remembers from which event each was built: what `Arc::ptr_eq` compares and
what it must fit.

### PropertyWalk

`ProbeHit`, `ProbeMiss`, `IndexHit`, `ParseNext`, `ParseFails` and `Exhausted` are
`find_property`, `property_bytes_at` and `parse_next_property`, one property located per
step. `LocalSizes` is `find_property_size`; an `Option<usize>` is a set of at most one
element, and the empty set asks TDH. `Fits` says independently what a value of a
property looks like (a string ends at its only terminator, a count announces as many
elements as there are): the sizes are checked against it, and TDH, which is external,
answers any size that fits or an error. Events are arbitrary cells: they need not
follow their schema.

### TraceMonitoring

Extends `TraceLifecycle` with `counted`, the three counters of a trace's callback data,
and `report`, what a buffer callback is doing. `BufferDone` is ETW calling the buffer
callback with the trace's running totals; `FindCounters` is the registry lookup in
`buffer_callback_thunk`; `CountBuffers` and `CountLost` are the two `fetch_max` of
`on_buffer`, one step each. `LookupCounting` is the lookup of an event, which counts it.
Every other action of `TraceLifecycle` is taken as it is.

### TdhSchema, ExtendedData, PropertyValues, WrittenEvents

Pure definitions. `TdhSchema` parses the flat array of `TRACE_EVENT_INFO` into a tree of
properties (`Property::new`, `PropertyIterator`), and says in `InfoOf` how TDH lays such a
tree out. `ExtendedData` reads the items of an event within their size
(`to_extended_data_item`, `Sid::from_raw`, `get_event_name`) and decides where property
values start. `PropertyValues` is the choice of a handler by in and out type
(`get_parser`) and what each makes of its cells (the `TryParse` impls), as a set of
outcomes, since an array may lie at an odd address and Windows may refuse a SID. `Width` is
the number of bytes that a numeric handler reads: a hexadecimal out type goes before the in
type, as in the code, so that it may not be the width of the cells (`CellWidth`,
`ByteLengths`). Arrays have a handler for the `Elements` that the code reads and no others.

`WrittenEvents` is the other side, what the crate does not do: a provider that follows the
schema. It defines the events that are `written` as pieces, one for each property with
cells: what the cells of each type mean (`Means`, with a count of days of its own; `MeansAlone`
by the in type only), how many elements an array has, and of which parts a structure consists (`IsStructureOf`).

### EventSerializer

Extends these and `PropertyWalk`, whose steps it interleaves with its own: `AskBytes`
(`property_bytes_at` of the next property), `AskCount` (`resolve_struct_count`),
`WriteLocated` and `WriteCounted` (`ser_property`), `LoseBytes` (the walk has stopped),
`SerializeFields` (the optional fields, with extended data). `MemberEnds` is
`member_buffer` over all the members of all elements. The record carries its schema,
`written`, the pieces it consists of and what they mean, and in its items `reported`, what
their blobs say: the properties compare the document with these, and nothing else reads
them. Events of arbitrary cells have no `written`.

### EventFilters, Providers, SessionSetup, SystemQueries, SessionControl

`EventFilters` builds the descriptor of each type of filter, and `ReadBack` says what
Windows reads in one. `Providers` has the builder of a provider, the lookup of its GUID by
name, and the parameters of an `EnableTraceEx2`. `SessionSetup` is `TraceBuilder`: its
setters, and `start` or `open_existing` as one action per OS call (`StopExisting`,
`StartTrace`, `SetStacks`, `QueryGroups`, `SetGroups`, `CheckFilters`, `EnableNext`, `Open`,
`CaptureNext`, `HandOver`), the guard (`GuardClose`, `GuardStop`), and the session in the
OS, with its owner and all its settings. It says what a trace is configured with;
`TraceLifecycle` has the same calls as bare outcomes and follows a trace to its end.
`SystemQueries` is `query_array_info` and the parsing of the profile sources.
`SessionControl` composes the last two: an application does one or the other.

The loops of `start` over the providers of the builder are `EnableNext` and `CaptureNext`,
one provider per step, `ToEnable` and `ToCapture` being what they pass over.

### Concatenation

`Flat` puts the items of a list one after the other: TDH's array of properties, the array
of profile sources, and the names of a filter are laid out with it.

### Proof modules and MC modules

A component's theorems are in the module of its name with `Proofs` at the end
(`SessionControlProofs` has those of `SessionSetup` and `SystemQueries` too);
`DataInduction` has the induction that they share. The `MC` modules extend a component for
TLC and add at most a symmetry set or the inputs to enumerate. Definitions whose comment starts with `Mutant:` are broken
versions of an operation; `PROJECT.json` pairs each property with one that violates it.

## The runs

| Run | Checks | Shows |
|---|---|---|
| `provider_session` | `IndexesAgree`, `SessionMatchesRegistry`, `ConfiguredIsRegistered`, `IInv`, `MutationsAreAtomic`, `CallsReturn`, `EventsReachEntries`, `EventsEnd` | enables and disables from an application and from callbacks keep registry and session in line at every step, refine `AtomicSession`, return, and let every event reach the entries registered when it came |
| `trace_lifecycle` | `EventsReachOwnTrace`, `OpenTracesDispatch`, `ContextsAreFreed`, `NothingKeepsRunning`, `ClosedTracesStaySilent` | every path through two traces' lives, around an event in flight and another process's session, routes events correctly and cleans up |
| `trace_processing` | `ProcessingEnds`, `CountersNeverGoBack`, `CountersCatchUp` | `ProcessTrace` returns once the trace has ended, whichever way; a trace's counters only grow, in whatever order buffer callbacks report, and are the OS's totals once none is under way |
| `schema_cache` | `AnswersFit`, `AnswersShare`, `LenIsSum`, `CachedForGood` | racing threads agree on the right schema within the bound |
| `property_walk` | `SlicesTile`, `SlicesFit`, `AnswerMatches` | every sizing rule, in any order of requests and after any failure, locates the right cells |
| `event_serializer` | `SchemaAsDescribed`, `LenientKeepsAll`, `Faithful`, `StrictHasValues`, `ExtendedFaithful`, `SerializingEnds` | events of each class of types, in both modes, become the document that their provider wrote, but for the losses listed below; events of arbitrary cells become a complete document or an error |
| `session_control` | `ConfiguredAsRequested`, `SettingsBeforeEvents`, `ReplacedUnlessRaced`, `SourcesAsListed`, `GivesUpOnlyAfterGrowth` | settings reach the session, in the right order, or `start` fails; a name is taken over unless somebody races; a growing array is read whole |
| `rejected_provider` | `RejectedNeverFires` (violated) | see [disagreements](#disagreements-found) |
| `trace_formatting` | `CallbacksMayMutate` (violated) | same |
| `schema_cache_full` | `FullCacheStopsGrowing` (violated) | same |
| `repeated_names` | `FirstNameWins` (violated) | same |
| `strict_events` | `StrictFailsOnNulls` (violated) | same |

Each passing run but `trace_processing`, whose state `trace_lifecycle` types, also checks
the module's `TypeOK` (`SerializerTypeOK`, `SetupTypeOK`). Deadlock is checked everywhere; each
`Finished` action stutters where the system may really stop: all calls returned and all
events handled, all traces ended, the callback done with its event. `NothingKeepsRunning`
excuses a session whose last STOP the OS rejected: the code can do no more.

What the longer properties compare with:

* `Faithful` compares each entry with `record.written`, which `IsWritten` describes
  without the parser's sizing rules or handlers. It excepts what the code cannot
  know: properties from the first on whose size only TDH can tell and TDH refused, and
  values that are refused for a reason outside the event (alignment, Windows rendering a
  SID). A structure's member that is sized by another property is null, and so are those
  after it: that is the documented degradation, and `written` says so. It also says null of
  what the code has no handler for: values of an unknown in type, and arrays of 8-bit
  integers, floating-point numbers, GUIDs and other types that are not `Elements`. And it
  excepts numbers whose hexadecimal out type stands for another width than the in type has
  (`WidthsDiffer`; members of structures are not written so): a value is lost, an array is
  lost or keeps its cells in elements of the other width.
* `StrictHasValues` excepts values whose types say nothing (`IsUnknown`): the handler of an
  unknown in type writes null, in strict mode too. `StrictFailsOnNulls` is the other case of
  a null in a strict document.
* `ConfiguredAsRequested` rebuilds nothing: it reads the descriptors with `ReadBack`, which
  follows the documentation of Windows, and compares sets of names, ids and PIDs with
  what the application listed; the group masks with the union of what it asked for; the
  flush timer with the interval in milliseconds. Not compared are `LogFileMode`, the dump
  file and the trace flags other than the one for stack traces, which the code copies.
* `SettingsBeforeEvents` relates the consumer to the session at every step, and the
  rundowns of the finished start to the consumers that listened.

## Bounds

* `provider_session`: two GUIDs, up to one initial provider, one application and two
  delivery threads, two calls, two events; also traces that do not own their session.
  Two calls suffice for every race of two mutations (the mutex allows no third to
  overlap), with the second entry of a GUID, rollback beside another entry, and a disable
  of a GUID that was never enabled. Two deliverers and two events let one callback
  mutate while another waits for the same provider's mutex.
* `trace_lifecycle`: two traces of one name and one logger slot, which makes them collide
  on both; they are interchangeable, which the symmetry set uses (no liveness in that
  run). One event and one outside action. `trace_processing`: one trace, two deliverers,
  one event, two buffers and two outside actions, since a trace's end waits only for
  itself and its counters race only with its own callbacks: two buffers reported by two
  threads can be applied in both orders.
* `schema_cache`: two threads, two keys, of which one has names, two names (three kinds
  of event), room for two schemas, four calls: the cache fills up and the races go on.
* `property_walk`: three properties, a number, any of 33 shapes and a number; buffers of
  up to four cells with values up to 2; `usize::MAX` is 4, so counts that overflow do
  exist; requests are unbounded. The third property shows any shift of the second, and
  has the first one's name; the second has it where TDH, which is asked by name, is asked.

* `event_serializer`: a number, one of some ninety properties (each handler, each sizing
  rule, structures and arrays with literal and referred counts) and a number of the first
  one's name, that shows any shift; strings of 0 to 2 characters; pointers of one and two
  cells, and 0 to 3 of them in an array, with each hexadecimal out type and none; every whole
  number with out types of its own width and of others; a FILETIME beyond the signed ones; all cells up to 2 or 3, and up to 4 of them, for events that follow no schema;
  extended items cut at each place; nine dates around the leap years 1900, 2000 and 2100,
  compared with a count of days year by year; both modes, optional fields or none.
  `MaxUsize` is above every size: overflow is the business of `property_walk`.
* `session_control`: filters with 0 to 3 items where limits are 2 items, 6 and 5 cells;
  empty names, names with a separator or a NUL; pairs of filters; two providers, of one
  GUID or of two, with flags and rundowns; names of 1 to 3 characters where 2 fit, and one
  with a NUL; flush intervals at either clamp and at a half; two kernel providers of one
  GUID or two, overlapping groups in two masks, before and after Windows 8; two actions of
  others. Four attempts, as in the code, and up to five sources: the query can be outrun.

Context ids are at most the number of traces, since a trace mints at most one. Bounds
are guards (`MaxCalls`, `MaxEvents`, `MaxInitial`, `MaxOutside`,
`MaxBuffers`, `MaxSources`) or the sets of inputs
(`MaxBuffer`, `Cells`, `Schemas`, `Records`,
`Includes`, `Requests`, `Descriptions`); `MaxCached`, `MaxUsize`, `MaxIds`, `MaxPids`, `MaxData`,
`MaxNames`, `MaxName`, `MaxSeconds`, `MaxQuad`, `InitialCapacity` and `Attempts` are constants of
the code, scaled down but for the last.

## Fairness

`ProviderSession` assumes weak fairness of what a thread does once it is inside enable,
disable or a dispatch: threads are scheduled, OS calls return and user callbacks end.
Nothing makes a client call or an event come. The locks are `std` locks, which promise
no order, and none is granted more than weakly fairly: the liveness properties hold
because calls and events are finite in number, so that a mutex is free in the end. A
callback that never returns would make `EventsEnd` false, as it does in the code.

`TraceLifecycle` assumes the same of the steps of a start, of an end, of `ProcessTrace`
and of the thunks. Nothing makes an application start or end a trace: `ProcessingEnds`
is about traces that have ended. `MonitoringFairness` is that of `TraceLifecycle` carried
over, with the buffer callbacks, which run to their end like any other.
`FairSerializerSpec` assumes that a callback that serializes an event runs on: nothing in
it waits for anybody. `SchemaCache`, `PropertyWalk` and `SessionControl` have safety
properties only.

## Proofs

All theorems hold for every value of the constants under the named assumptions of the
module that declares them:

| Module | Assumptions | They say |
|---|---|---|
| `ProviderSession` | `ThreadsAssumption`, `GuidsAssumption`, `BoundsAssumption` | clients and deliverers are different threads, the null value is no GUID, bounds are numbers |
| `TraceLifecycle`, `TraceMonitoring` | `TracesAssumption`, `LoggersAssumption`, `BoundsAssumption`, `MaxBuffersAssumption` | finitely many traces; nobody, and other processes, are none of them; loggers are numbers other than 0, as control handles are |
| `SchemaCache` | `KeysAssumption`, `NamesAssumption`, `BoundsAssumption` | some keys have names, one name is empty |
| `PropertyWalk` | `NamesAssumption`, `CellsAssumption`, `BoundsAssumption`, `SchemasAssumption` | names are no numbers; cells are; a buffer fits a `usize`; properties have the fields and the ranges of `Property` |
| `PropertyValues`, `EventSerializer` | `DecodingAssumption`, `OutTypesAssumption`, `RecordsAssumption` | cells that are no text are cells; out types are those of the crate; an event carries the schema it is read with, and cells that fit the buffer |
| `EventSerializer` | `ItemsAssumption`, `WrittenAssumption` | `reported` says of each item what its blob says, `written` is a division of the cells that follows the schema. Neither restricts the events: an event that nothing is said of is read all the same, and only the two properties read what is said |
| `EventFilters`, `SessionSetup` | `FilterLimitsAssumption`, `SetupAssumption`, `RequestsAssumption` | limits are numbers; others are not us; builders, providers and filters have the fields and types of `TraceBuilder`, `Provider` and `EventFilter` (`IsFilter`: a PID or an event id is one cell, a name any cells), and only a kernel trace has stack tracing and groups |
| `SystemQueries` | `QueriesAssumption` | a description holds no terminator; at least one attempt |

Each property below was checked by TLC on the instance of its run before it was proved.

**ProviderSession.** `IndexesAgree` is inductive by itself, the others are not:
`SessionMatchesRegistry` says nothing while the mutex is held, and a rollback or a
disable in the middle would break it. `IInv` adds

* `LockHeld`: the thread in a critical step is the one that holds the mutex, so that at
  most one entry is uncommitted and at most one GUID is being dropped;
* `InFlight`: an enable in flight owns the newest entry, of its own GUID; a disable in
  flight has entries to remove. Numbers only grow, so the newest entry is the largest;
* `CommittedIsConfigured`: leaving out `Uncommitted` entries, the session holds for each
  GUID exactly the newest committed one. An entry that is being enabled, or rolled back,
  does not count yet; those of a GUID whose disable has succeeded do not count any more.

From it follow `IndexesAlwaysAgree`, `ConfiguredAlwaysRegistered` and
`SessionAlwaysMatchesRegistry`, and `MutationsAreAlwaysAtomic`: with `entries` mapped to
the committed entries, `OsEnable` maps to `Enable`, `OsDisable` to `Disable`,
`SessionEnds` to `End`, and all other steps to stuttering, since the rollback and the
unregistration touch uncommitted entries only. The linearization point is the
successful OS call.

**TraceLifecycle.** What an event in flight carries is a context id, and what it reaches is
whoever holds that id when the thunk looks it up. `EventsReachOwnTrace` therefore rests on
ids being minted once, in increasing order (`ContextsAreMinted`), and on the registry
holding at each moment exactly the contexts of the traces between `insert` and the first
step of their end (`RegistryMatchesTraces`, with `Holds`). A `Drop` after an explicit `stop`
passes the same steps a second time: `Holds` tells the two rounds apart by the consumer
(`ConsumersFollow`). `SessionsHaveHandles` says that a trace's session is that of its
control handle, which makes the last STOP stop it. The five properties of the run follow:
`EventsAlwaysReachOwnTrace`, `OpenTracesAlwaysDispatch`, `ContextsAreAlwaysFreed`,
`NothingEverKeepsRunning`, and of the steps `ClosedTracesAlwaysStaySilent`.

**TraceMonitoring.** `MonitoringFollowsTraces`: each of its steps is one of
`TraceLifecycle`, or none, so that the invariant above carries over. On top of it a counter
never exceeds the OS's total (`CountersFollow`), every report is of the trace whose counters
it is applied to (`ReportsAreOwn`), and a total that is not counted is in a report on its
way (`NewestIsCounted`); events differ from their total by the cardinality of those that
wait (`EventsAreCounted`). With nothing under way that is `CountersAlwaysCatchUp`;
`CountersNeverGoBackward` needs only that both `fetch_max` take a maximum.

**SchemaCache.** `AnswersShare` is kept by `Store` only because a thread stores what it
built from its own request (`InHand`), because what is cached was built from its own kind
(`CachedFit`), and because an answer that is not cached implies a full cache, which
stays full. `LenIsSum` is about a cardinality: an insertion adds exactly one kind.
`CachedIsForGood` is an action property from the same invariant.

**PropertyWalk.** `SlicesAlwaysTile`: an appended slice starts where the others end and
fits in the rest, whatever its size rule says; the schemas are not restricted at all.
`SlicesAlwaysFit` goes through the sizing rules: `ValueSizeFits`, `ArraySizeFits` and
`StructSizeFits` show that each rule of `find_property_size` yields the length of a value
(the first terminator is the only one, a count announces what follows, a checked product
does not wrap around), `SizeFits` puts them together with TDH's answers, and `FitsStays`
that a slice that fits goes on fitting when more are located. A structure's members are
sized as a whole. What a later property refers to is found among the slices before it
(`CarrierTypes`), which is where the tiling is needed. `AnswersAlwaysMatch` needs
`WalkFollows`: a walk for a name has passed no property of that name.

**EventSerializer.** `SerializingIsWalking`: without the document its steps are steps of
`PropertyWalk`, so that the slices it decodes fit as well (`SerializedSlicesFit`).
`SchemaAlwaysAsDescribed` is about data: for every tree of properties, parsing the flat
array that TDH lays it out in gives the tree back. `InfoLayout` says where the entries of
each property and of its members lie in the array, `PropertyReadsBack` that a property is
parsed from its entry and its members from where the entry points, and `SchemaReadsBack`
that the top-level count stops before the first member. `PhaseFollows` and `EntriesFollow`
say what is written in each phase: the entries are always those of the first properties,
by name, and none is null in a strict document but those of unknown types.
`LenientAlwaysKeepsAll` and `StrictAlwaysHasValues` follow; the second rests on
`WrittenIsNotNull`, that no other handler makes a null of a located value.

`ExtendedAlwaysFaithful` goes item by item: `ItemIsRead` says that a blob is read as what it
says and nothing past its size is, with one lemma for each way of reading (`FixedIsRead`,
`SidIsRead`, `StackIsRead`, `NameIsRead`). `SelectionsChoose` says what the serializer makes
of a list in which each item may be taken or refused, so that `ItemsAreReported` in the
order they came.

`AlwaysFaithful` is the longest argument, since it goes through all sizing rules and all
handlers. Its inductive invariant is `FaithfulIInv`: of each way `written` in which the cells
may have been written,

* the slices located so far are its first pieces, and the parser stands at the beginning of
  the next (`Walks`, along the `start` of each piece);
* the parser works for the property whose turn it is, or for a count that is among the
  slices already, so that asking for it moves nothing (`Asked`);
* a walk that has stopped short has no piece left, or a piece whose size only TDH can tell
  (`Stopped`), and
* the entries made so far are what their pieces mean (`SoFar`), unless they may be refused
  or the out type stands for another width.

That the walk stays on the pieces is `NextIsSized`: whatever the next piece is, the rule of
`find_property_size` for it gives exactly its length (`ValueIsSized`, `ArrayIsSized`,
`StructureIsSized`), given that what it refers to has been located where it was written
(`GivenIsTold`). It is an equality, which `SlicesFit` is not: here a string that is not
terminated takes all the rest, and a structure, of which the parser knows the fixed size of
an element or else asks TDH, must be cut in one way only (`OneCut`, `OneDivision`), since TDH
answers any size that fits. That an entry is what its piece means is `PieceIsRead`, over
`ValueIsRead` and `ArrayIsRead` with a lemma for each family of handlers (`StringIsRead`,
`DateIsRead`, for which `DaysAreCounted` compares the code's calendar with a count of days,
`AddressIsRead`), and for structures `MembersAreRead` and `StructArrayIsRead`: the
serializer's own walk over the members of all elements, which sizes a member without the
event, ends each where the part does (`PartsAreLocated`) until the first member that only
another property sizes.

**SessionSetup.** Once `StartTrace` has succeeded, the session of our name is ours until
others stop it, and what has been configured in it is a function of the phase and of the
provider that the loop has reached: `GroupsFollow`, `StacksFollow`, `EnablesFollow` (with
`EnabledUpTo`: the last provider of a GUID decides) and `RundownsFollow`. Each of the OS's
calls may fail, and then the phase is one of the guard's, which claims nothing.
`FlushFollows` is that the timer is at most half a second off. `SettingsAlwaysBeforeEvents`
follows when the loop is over, and so does most of `AlwaysConfiguredAsRequested`. Its rest is
about data: `Laid` describes items of any length in one buffer, each up to its mark, as
`NamesLaid` and `JoinedLaid` find them in the descriptors of event names and of executables;
`LaidMarks` says that the marks are where the items end and nowhere else, which is what the
checks for a NUL and a semicolon are for, `LaidReadBack` that a reader who cuts at the marks
gets the items back, `FilterReadBack` that this holds of every type of filter, and
`DecidingEnabled` that each GUID is left enabled by its last provider.
`AlwaysReplacedUnlessRaced`
rests on `NameIsFree`: after the stop the name is free unless others have raced, or unless
the name that is stopped is not the one that is started because it was cut.

**SystemQueries.** The list only grows, so each array that the OS has written or measured is
that of a prefix of the list (`First`). `SizesFollow` counts one more source for each retry,
which is `AlwaysGivesUpAfterGrowth`. `SourcesAlwaysAsListed` is about data again: `ArrayLayout`
says where each entry of the array begins, `EntryRead` that an entry's distance leads to the
next one and its description ends at its own terminator, and `ParsedArray` that the reader
thus returns every source of the list and nothing else.

**Induction over data.** The arguments about schemas, filters and arrays, and all about
`Flat`, are inductions over the length of a sequence. `DataInduction` derives them from the well-foundedness of `<`
(`WFMin`, which takes sets): `LeastNumber`, `Induction` for a set that holds 0 and each
successor, and `Recursion`, that a function defined by recursion on `0 .. N` exists and is
what its definition says. The recursive functions of the models are written so that
`Recursion` applies (`SelectionsRecursion`, `TotalRecursion`, `MemberEndsRecursion`,
`EndsRecursion` are its uses in the serializer's proofs), and none of the proved modules has
a RECURSIVE operator.

**Only model-checked.** Liveness (`CallsReturn`, `EventsReachEntries`, `EventsEnd`,
`ProcessingEnds`, `SerializingEnds`) is outside the prover's reach. Every safety property of
the runs has a theorem.

## Disagreements found

* `rejected_provider`: `trace.rs:777` rolls an enable back "so the callbacks of a
  provider the OS rejected never fire". The provider is registered before the OS is
  asked, and if another entry of its GUID is enabled, an event looked up in between
  runs the callbacks of the rejected one, even after the enable has returned its error.
* `trace_formatting`: `callback_data.rs:41` says that "a callback may itself enable or
  disable providers". While another thread formats the trace with `{:?}`, that deadlocks:
  the derived `Debug` holds the registry's read lock while `Provider`'s (`provider.rs:240`)
  waits for the callbacks' mutex, which the callback holds while it waits for the write
  lock.
* `schema_cache_full`: `schema_locator.rs:115` bounds the cache because it "would grow the
  cache forever". `entry(key).or_default()` (line 191) still adds an empty inner map for
  every new descriptor of a full cache.
* `repeated_names`: `parser.rs:456` claims the "first same-named match" semantics, as does
  the comment of a test (`parser.rs:1616`). The probe starts right after the last hit and
  wraps: with properties A, B, A, all located, a lookup of B makes the next lookup of A
  return the second one.

* `strict_events`: `ser.rs:63` says of `fail_unimplemented` that "the first such entry fails
  the whole event with an error", and `ser.rs:1587` that it fails "on the first undecodable
  member instead of emitting null". A member whose size is not known, and those after it,
  become null in strict mode too (`ser.rs:1603`), and so do the elements of a structure
  array from the first such one on (`ser.rs:1656`).

More of them have no run; the models have the code as it is:

* `pla.rs:87` compares the index with the count after the loop has advanced it past the
  match, so that `Provider::by_name` reports the provider that Windows lists last as not
  found (`FindProviderGuid`). No text of the repository states the opposite.
* An explicit `HexInt32` or `HexInt64` out type fixes the width that is read, whatever the
  in type (`ser.rs:1879`, `ser.rs:1947`), while it is said to be a matter of display
  (`ser.rs:1448`). A pointer of a 32-bit event with `HexInt64` is an error or null, and an
  even number of them in an array are read as half as many, merged. `Faithful` excepts
  these cases by name (`WidthsDiffer`).
* A value of an in type that is not known is null in strict mode too (`ser.rs:1814`, with
  `tdh_types.rs:313`), against the same text as in `strict_events`. `StrictHasValues`
  excepts it by name (`IsUnknown`).

## Abstractions

* Names, GUIDs, keys and payloads are model values in `TraceLifecycle`, which knows no
  truncation; `SessionSetup` has names character by character, as far as their length and
  a NUL matter.
* A panic in a callback ends the process in the code, so no action follows one.
* The OS may reuse a logger slot, and with it the value of a control handle, for the next
  session. Under that assumption the second STOP of a `Drop` can stop another session;
  since Windows decides, no property is stated.
* Parser cells: a number of 1, 2, 4 or 8 bytes is one cell, a count prefix is one cell, a
  wide character two, a pointer one for every four bytes. A handler that asks
  for a width is told the bytes of the cells by their type. SIDs and hex dumps are sized like counted strings, by a header. In
  types of fixed size are narrow or wide. A structure's members may not be structures.
* TDH resolves a repeated name to its first property; `SlicesFit` excepts the later one.
* The serializer takes one level of structures apart. The optional fields `Schema` and
  `Header` are written or not; their contents are copies of the event's header.
* Hexadecimal display does not change a value, only the width it is read with. A boolean of
  one byte is not told from one of four. In types of one width are one class, signed or not.
  UTF-8 is a set of cells that are no
  text (`NotUtf8`); UTF-16 is decoded with replacement characters and never fails.
* A FILETIME counts hours, and a SYSTEMTIME is a packed date and an hour: the calendar, the
  saturation and the wrap of the upper half of FILETIMEs are the code's, the units are not.
* A cell of extended data is four bytes, and one byte in the metadata of a TraceLogging
  event.
* In `SessionSetup` an application starts one trace, or makes one query; another process
  that starts a session of the same name uses the same settings, and none but us changes
  the group mask of a session of ours between its query and its update: such a change would
  be lost, as in the code, and nothing here says otherwise. The random name
  of a new builder and the version of Windows are inputs.
* `Arc`, clones and borrowed slices are values; freeing is the removal of the last user.

## Not modelled

* The tables of kernel providers, event types, group ids, trace flags and in types are data
  without behaviour; a provider's flags and a group are inputs.
* The accessors of the event header (`event_record.rs`), the `Display` and `Debug` of errors and
  values, the `Serialize` impls of the header and of the schema's names are copies of fields.
* `TraceTrait::statistics` and the queries of one fixed-size value are single OS calls whose
  answer is returned as it is.
* The rendering of a SID (`sddl.rs`) and the version test are single calls into Windows.
* Structures inside structures: the serializer recurses into them with the same code.
* Allocation, alignment and lifetimes of native buffers, which the model has no memory for.

## Plan

In order of importance; the first ten are done.

1. `AtomicSession`, `ProviderSession`, its refinement and proofs: concurrency of the
   library's main shared state.
2. `TraceLifecycle`: ownership, error paths, routing by context id.
3. `SchemaCache` with proofs.
4. `PropertyWalk`, with the proof of the tiling.
5. The disagreements above, each in a run of its own.
6. `EventSerializer`, on `PropertyWalk`, `PropertyValues`, `ExtendedData` and `TdhSchema`.
7. `TraceMonitoring`: the counters, concurrently reported.
8. `SessionSetup`, `Providers`, `EventFilters` and `SystemQueries`: settings and their effect.
9. Proofs of the safety properties of all components, as above.
10. The proofs of `ExtendedFaithful` and `Faithful`, handler by handler, from a definition of
   what each type of value looks like when it is written (`WrittenEvents`).
11. Structures inside structures, with a bound on their depth.
