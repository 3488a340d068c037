--------------------------- MODULE EventFilters ---------------------------
(***************************************************************************)
(* Event filters (provider/event_filter.rs): what a filter asks for, the   *)
(* descriptor the crate lays out for EnableTraceEx2, and what Windows      *)
(* reads back from one.                                                    *)
(*                                                                         *)
(* A filter is [by, items, keep, match]: its type, what it lists, whether  *)
(* that is kept or dropped, and the keyword and level restriction of event *)
(* names.  An item is a sequence of cells, one cell for a PID or an event  *)
(* id, the characters of a name.  Sizes are counted in cells.              *)
(***************************************************************************)
EXTENDS FiniteSets, Concatenation

CONSTANTS
  MaxIds,    \* MAX_EVENT_FILTER_EVENT_ID_COUNT
  MaxPids,   \* MAX_EVENT_FILTER_PID_COUNT
  MaxData,   \* MAX_EVENT_FILTER_DATA_SIZE
  MaxNames   \* MAX_EVENT_FILTER_EVENT_NAME_SIZE, without the header

ASSUME FilterLimitsAssumption == {MaxIds, MaxPids, MaxData, MaxNames} \subseteq Nat

Everything == "any"    \* no restriction on keywords nor level
NUL == "NUL"
Separator == ";"

Has(name, c) == \E i \in DOMAIN name : name[i] = c
-----------------------------------------------------------------------------
(* The filters an application can ask for *)

ByPids(pids) == [by |-> "pids", items |-> pids, keep |-> TRUE, match |-> Everything]
ByEventIds(ids, keep) == [by |-> "ids", items |-> ids, keep |-> keep, match |-> Everything]
StackWalkByEventIds(ids, keep) == [by |-> "stacks", items |-> ids, keep |-> keep, match |-> Everything]
ByExecutableNames(names) == [by |-> "executables", items |-> names, keep |-> TRUE, match |-> Everything]
ByEventNames(names, keep, match) == [by |-> "names", items |-> names, keep |-> keep, match |-> match]

\* What these say of a filter.
IsFilter(filter) ==
  /\ filter.by \in {"pids", "ids", "stacks", "executables", "names"}
  /\ filter.items \in Seq(Seq(UNION {{name[c] : c \in DOMAIN name} : name \in
                                     {filter.items[i] : i \in DOMAIN filter.items}}))
  /\ filter.by \in {"pids", "ids", "stacks"} => \A i \in DOMAIN filter.items : Len(filter.items[i]) = 1
-----------------------------------------------------------------------------
(* The descriptors *)

Rejected == [type |-> "rejected", keep |-> TRUE, match |-> Everything, count |-> 0, data |-> <<>>]

\* EventFilterDescriptor::try_new: an empty filter is a mistake, each type has its limit.
TryNew(filter, count, data, max) ==
  IF data = <<>> \/ Len(data) > max
  THEN Rejected
  ELSE [type |-> filter.by, keep |-> filter.keep, match |-> filter.match,
        count |-> count, data |-> data]

Ids(filter) ==
  IF filter.items = <<>> \/ Len(filter.items) > MaxIds
  THEN Rejected
  ELSE TryNew(filter, Len(filter.items), Flat(filter.items), MaxData)

\* One string, the names separated by semicolons.
Joined(names) ==
  Flat([i \in DOMAIN names |-> IF i = 1 THEN names[i] ELSE <<Separator>> \o names[i]]) \o <<NUL>>

\* Mutant: a name may hold the separator.
ExecutablesUnchecked(filter) ==
  IF filter.items = <<>> \/ \E i \in DOMAIN filter.items : filter.items[i] = <<>> \/ Has(filter.items[i], NUL)
  THEN Rejected
  ELSE TryNew(filter, 1, Joined(filter.items), MaxData)

Executables(filter) ==
  IF \/ filter.items = <<>>
     \/ \E i \in DOMAIN filter.items :
          \/ filter.items[i] = <<>>
          \/ Has(filter.items[i], Separator)
          \/ Has(filter.items[i], NUL)
  THEN Rejected
  ELSE TryNew(filter, 1, Joined(filter.items), MaxData)

\* A header with the number of names, then each with its terminator.
EventNames(filter) ==
  IF \/ filter.items = <<>>
     \/ \E i \in DOMAIN filter.items : filter.items[i] = <<>> \/ Has(filter.items[i], NUL)
  THEN Rejected
  ELSE TryNew(filter, Len(filter.items),
              Flat([i \in DOMAIN filter.items |-> filter.items[i] \o <<NUL>>]), MaxNames)

Pids(filter) ==
  IF Len(filter.items) > MaxPids
  THEN Rejected
  ELSE TryNew(filter, Len(filter.items), Flat(filter.items), MaxData)

\* EventFilter::to_event_filter_descriptor
Descriptor(filter) ==
  CASE filter.by = "pids" -> Pids(filter)
    [] filter.by \in {"ids", "stacks"} -> Ids(filter)
    [] filter.by = "executables" -> Executables(filter)
    [] filter.by = "names" -> EventNames(filter)
-----------------------------------------------------------------------------
(* What Windows reads in a descriptor, as the documentation of each type has it *)

\* The runs of cells before a mark, up to the first mark that ends them all.
Pieces(data, marks, final) ==
  LET stops == {i \in DOMAIN data : data[i] \in final}
      last == IF stops = {} THEN Len(data) ELSE CHOOSE i \in stops : \A j \in stops : i <= j
      ends == {i \in 1 .. last : data[i] \in marks}
      starts == {1} \cup {i + 1 : i \in ends}
  IN {SubSeq(data, p[1], p[2] - 1) :
        p \in {p \in starts \X ends : p[1] <= p[2] /\ p[1] .. p[2] - 1 \cap ends = {}}}

ReadBack(d) ==
  [by |-> d.type, keep |-> d.keep, match |-> d.match,
   items |-> CASE d.type = "executables" -> Pieces(d.data, {Separator, NUL}, {NUL})
               [] d.type = "names" -> Pieces(d.data, {NUL}, {})
               [] OTHER -> {<<d.data[i]>> : i \in 1 .. d.count}]

Asked(filter) ==
  [by |-> filter.by, keep |-> filter.keep, match |-> filter.match,
   items |-> {filter.items[i] : i \in DOMAIN filter.items}]
=============================================================================
