------------------------- MODULE MCSessionControl -------------------------
(***************************************************************************)
(* The instance of SessionControl that TLC explores: filters of each type  *)
(* below, at and above each limit, well formed and not, alone and in       *)
(* pairs; user and kernel traces that use every setting; names that fit,   *)
(* are cut or hold a NUL; and others who start and stop sessions of those  *)
(* names.                                                                  *)
(***************************************************************************)
EXTENDS SessionControl

x == <<"x">>
xx == <<"x", "x">>
xxx == <<"x", "x", "x">>
xNx == <<"x", NUL, "x">>
OtherNames == {x, xx}

TwoDescriptions == {<<>>, <<1, 2>>}

Lists(a, b, c) == {<<>>, <<a>>, <<a, b>>, <<a, b, c>>}
Numbers == Lists(<<"1">>, <<"2">>, <<"3">>)
Words == Lists(<<"a">>, <<"b", "c">>, <<"d">>)
         \cup {<<<<>>>>, <<<<"a">>, <<>>>>, <<<<"a", Separator, "b">>>>, <<<<"a", NUL, "b">>>>}

Filters ==
  {ByPids(n) : n \in Numbers}
  \cup {ByEventIds(n, keep) : n \in Numbers, keep \in BOOLEAN}
  \cup {StackWalkByEventIds(n, keep) : n \in Numbers, keep \in BOOLEAN}
  \cup {ByExecutableNames(w) : w \in Words}
  \cup {ByEventNames(w, keep, match) : w \in Words, keep \in BOOLEAN, match \in {Everything}}
  \cup {ByEventNames(<<<<"a">>>>, TRUE, "some")}

OnePid == ByPids(<<<<"1">>>>)
Pairs ==
  {<<OnePid, StackWalkByEventIds(<<<<"1">>>>, TRUE)>>,
   <<ByEventIds(<<<<"1">>>>, TRUE), ByEventIds(<<<<"2">>>>, FALSE)>>,
   <<ByEventIds(<<<<"1">>>>, TRUE), StackWalkByEventIds(<<<<"1">>>>, FALSE)>>,
   <<ByEventNames(<<<<"a">>>>, FALSE, Everything), ByExecutableNames(<<<<"a">>, <<"b", "c">>>>)>>}

\* Providers as PLA lists them; the last one cannot be found by its name.
Registered == <<[name |-> "A", guid |-> "a"], [name |-> "B", guid |-> "b"], [name |-> "C", guid |-> "c"]>>

A == CHOOSE p \in ByName("A", Registered) : TRUE
B == AtLevel(AllKeywords(AnyKeyword(ByGuid("b"), 3), 1), 2)
Stacked == TraceFlags(A, {StackTrace, "EVENT_ENABLE_PROPERTY_SID"})
Captured == RequestCaptureState(A)

\* kernel_providers: two of one GUID, each with its group, and one of another.
Process == Kernel("PROCESS_GUID", {0})
ProcessCounter == Kernel("PROCESS_GUID", {3})
DiskIo == Kernel("DISK_IO_GUID", {8})

\* Groups of masks 1 and 6, one of which overlaps another.
Memory == [mask |-> 1, bits |-> {0}]
PoolTrace == [mask |-> 1, bits |-> {0, 6}]
SysCfgNetwork == [mask |-> 6, bits |-> {3}]

User == Named(NewBuilder(FALSE, TRUE, <<"r">>), x)
KernelOn(windows8) == Named(NewBuilder(TRUE, windows8, <<"r">>), x)

UserRequests ==
  {Enable(User, AddFilter(A, f)) : f \in Filters}
  \cup {Enable(User, AddFilter(AddFilter(B, p[1]), p[2])) : p \in Pairs}
  \cup {Enable(Enable(User, p), q) : p \in {Captured, Stacked, AddFilter(Captured, OnePid)},
                                     q \in {B, RequestCaptureState(B), A}}

NamedRequests ==
  {StopIfExist(Named(Enable(b, Captured), n), r) : b \in {User, OpenExisting(User)},
                                                   n \in {x, xx, xxx, xNx}, r \in BOOLEAN}
  \cup {SetEtlDumpFile(SetTraceProperties(User, ms, mode), path, {"SEQUENTIAL"}) :
          ms \in {499, 1500, 9000}, mode \in {{}, {"REAL_TIME"}}, path \in {xxx, xNx}}

KernelRequests ==
  {SetStackTracing(SetExtendedGroups(Enable(Enable(KernelOn(w), p), q), groups), stacks) :
     w \in BOOLEAN,
     p \in {Process, AddFilter(Process, OnePid)},
     q \in {DiskIo, AddFilter(ProcessCounter, ByEventIds(<<<<"1">>>>, TRUE))},
     groups \in {{}, {PoolTrace, Memory, SysCfgNetwork}},
     stacks \in {{}, {"SYSCALL_ENTER", "SYSCALL_EXIT"}}}

AllRequests == UserRequests \cup NamedRequests \cup KernelRequests
=============================================================================
