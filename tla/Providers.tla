----------------------------- MODULE Providers -----------------------------
(***************************************************************************)
(* Providers and their builder (provider.rs, native/pla.rs), and what the  *)
(* crate makes of one for EnableTraceEx2 (native/evntrace.rs).             *)
(***************************************************************************)
EXTENDS EventFilters

StackTrace == "EVENT_ENABLE_PROPERTY_STACK_TRACE"
Verbose == 5
-----------------------------------------------------------------------------
(* The builder *)

ByGuid(guid) ==
  [guid |-> guid, any |-> 0, all |-> 0, level |-> Verbose, traceFlags |-> {},
   kernelFlags |-> {}, capture |-> FALSE, filters |-> <<>>]

\* A predefined kernel provider: a GUID and the classic groups it stands for.
Kernel(guid, flags) == [ByGuid(guid) EXCEPT !.kernelFlags = flags]

AnyKeyword(p, any) == [p EXCEPT !.any = any]
AllKeywords(p, all) == [p EXCEPT !.all = all]
AtLevel(p, level) == [p EXCEPT !.level = level]
TraceFlags(p, flags) == [p EXCEPT !.traceFlags = flags]
RequestCaptureState(p) == [p EXCEPT !.capture = TRUE]
AddFilter(p, filter) == [p EXCEPT !.filters = Append(@, filter)]

\* find_provider_guid, over the registered providers in the order PLA lists them:
\* the index it compares with the count has already passed the match.
FindProviderGuid(name, registered) ==
  LET hits == {i \in DOMAIN registered : registered[i].name = name}
      first == CHOOSE i \in hits : \A j \in hits : i <= j
  IN IF hits = {} \/ first = Len(registered) THEN {} ELSE {registered[first].guid}

\* Provider::by_name: the builder it returns, none when it fails.
ByName(name, registered) == {ByGuid(guid) : guid \in FindProviderGuid(name, registered)}
-----------------------------------------------------------------------------
(* What is passed to EnableTraceEx2 *)

Descriptors(p) == [i \in DOMAIN p.filters |-> Descriptor(p.filters[i])]

\* build_event_filter_descriptors: one filter that cannot be built, or two of one
\* type, fail the whole.
FiltersRejected(p) ==
  \/ \E i \in DOMAIN p.filters : Descriptors(p)[i] = Rejected
  \/ \E i, j \in DOMAIN p.filters : i # j /\ Descriptors(p)[i].type = Descriptors(p)[j].type

\* Mutant: a stackwalk filter without the property it needs.
InertParameters(p) ==
  [any |-> p.any, all |-> p.all, level |-> p.level, properties |-> p.traceFlags,
   filters |-> Descriptors(p)]

\* enable_provider: a stackwalk filter does nothing unless stacks are collected.
EnableTraceParameters(p) ==
  [any |-> p.any, all |-> p.all, level |-> p.level,
   properties |-> p.traceFlags
                  \cup {StackTrace : i \in {i \in DOMAIN p.filters : Descriptors(p)[i].type = "stacks"}},
   filters |-> Descriptors(p)]
=============================================================================
