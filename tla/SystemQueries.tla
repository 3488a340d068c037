--------------------------- MODULE SystemQueries ---------------------------
(***************************************************************************)
(* Queries of system-wide arrays (native/evntrace.rs, query_array_info) by *)
(* the profile sources that SessionlessInfo lists with them (query.rs).    *)
(*                                                                         *)
(* The OS says how much room the array needs, and the array may have grown *)
(* when it is asked for again; the caller follows it a few times.  A       *)
(* source is its description, characters that the OS ends with a zero; an  *)
(* entry of the array is the distance to the next one, the id of the       *)
(* source and its description.                                             *)
(***************************************************************************)
EXTENDS Concatenation

CONSTANTS
  Descriptions,     \* descriptions of sources: sequences of characters, not zero
  InitialCapacity,  \* cells asked for at first
  Attempts,         \* attempts before the query gives up: 4
  MaxSources        \* bound: sources of the system

ASSUME QueriesAssumption ==
  /\ Descriptions \subseteq Seq(Nat \ {0})
  /\ InitialCapacity \in Nat
  /\ Attempts \in Nat \ {0}
  /\ MaxSources \in Nat

VARIABLES
  listed,    \* OS: the sources of the system, in order
  step,      \* what the caller is doing
  attempt,   \* the attempt under way
  capacity,  \* cells of its buffer
  buffer,    \* what the OS wrote
  sources,   \* what the query returned
  before     \* the sources when the query began

queryVars == <<listed, step, attempt, capacity, buffer, sources, before>>

FixedCells == 2      \* the distance and the id
End == 0

\* The array of the OS, entry by entry; the last one's distance is 0.
Entry(list, i) ==
  <<IF i = Len(list) THEN 0 ELSE FixedCells + Len(list[i]) + 1, i>> \o Append(list[i], End)

Array(list) == Flat([i \in DOMAIN list |-> Entry(list, i)])
-----------------------------------------------------------------------------
(* parse_profile_sources *)

\* decode_description: up to the terminator, or to the end of the buffer.
Description(cells) ==
  LET ends == {i \in DOMAIN cells : cells[i] = End}
  IN IF ends = {} THEN cells
     ELSE SubSeq(cells, 1, (CHOOSE i \in ends : \A j \in ends : i <= j) - 1)

\* Mutant: an entry is as long as its fixed part and its description.
ParsedByLength(cells) ==
  LET from[o \in 0 .. Len(cells) + FixedCells] ==
        IF o + FixedCells > Len(cells) THEN <<>>
        ELSE LET text == Description(SubSeq(cells, o + FixedCells + 1, Len(cells)))
             IN <<[id |-> cells[o + 2], text |-> text]>>
                \o (IF cells[o + 1] = 0 THEN <<>> ELSE from[o + FixedCells + Len(text)])
  IN from[0]

\* The entries one after the other, as long as the next one's fixed part fits.
Parsed(cells) ==
  LET from[o \in 0 .. Len(cells)] ==
        LET distance == cells[o + 1]
            source   == [id |-> cells[o + 2],
                         text |-> Description(SubSeq(cells, o + FixedCells + 1, Len(cells)))]
        IN CASE o + FixedCells > Len(cells) -> <<>>
             [] o + FixedCells <= Len(cells) /\ (distance = 0 \/ o + distance > Len(cells)) -> <<source>>
             [] OTHER -> <<source>> \o from[o + distance]
  IN from[0]
-----------------------------------------------------------------------------
(* query_array_info *)

QueryInit ==
  /\ listed = <<>>
  /\ step = "idle"
  /\ attempt = 0
  /\ capacity = InitialCapacity
  /\ buffer = <<>>
  /\ sources = <<>>
  /\ before = <<>>

\* The hardware, or a driver, brings another source.
SourceAppears ==
  /\ Len(listed) < MaxSources
  /\ \E d \in Descriptions : listed' = Append(listed, d)
  /\ UNCHANGED <<step, attempt, capacity, buffer, sources, before>>

CallQuery ==
  /\ step = "idle"
  /\ step' = "query"
  /\ attempt' = 1
  /\ capacity' = InitialCapacity
  /\ before' = listed
  /\ UNCHANGED <<listed, buffer, sources>>

\* ERROR_SUCCESS: the buffer is cut to what was written.
QuerySucceeds ==
  /\ step = "query"
  /\ Len(Array(listed)) <= capacity
  /\ buffer' = Array(listed)
  /\ step' = "parse"
  /\ UNCHANGED <<listed, attempt, capacity, sources, before>>

\* Mutant: the loop asks again without the size it was told.
RetrySameSize ==
  /\ step = "query"
  /\ Len(Array(listed)) > capacity
  /\ step' = IF attempt = Attempts THEN "gaveUp" ELSE "query"
  /\ attempt' = IF attempt = Attempts THEN attempt ELSE attempt + 1
  /\ UNCHANGED <<listed, capacity, buffer, sources, before>>

\* ERROR_INSUFFICIENT_BUFFER: once more, with the size that was needed just now.
QueryRetries ==
  /\ step = "query"
  /\ Len(Array(listed)) > capacity
  /\ capacity' = Len(Array(listed))
  /\ step' = IF attempt = Attempts THEN "gaveUp" ELSE "query"
  /\ attempt' = IF attempt = Attempts THEN attempt ELSE attempt + 1
  /\ UNCHANGED <<listed, buffer, sources, before>>

\* Any other error of TraceQueryInformation.
QueryFails ==
  /\ step = "query"
  /\ step' = "failed"
  /\ UNCHANGED <<listed, attempt, capacity, buffer, sources, before>>

Parse ==
  /\ step = "parse"
  /\ sources' = Parsed(buffer)
  /\ step' = "done"
  /\ UNCHANGED <<listed, attempt, capacity, buffer, before>>

QueryNext ==
  SourceAppears \/ CallQuery \/ QuerySucceeds \/ QueryRetries \/ QueryFails \/ Parse
-----------------------------------------------------------------------------
(* Properties *)

\* A query lists sources of the system only, in order, with their descriptions,
\* and all those it had when the query began, however it grows meanwhile.
SourcesAsListed ==
  step = "done" =>
    /\ Len(sources) \in Len(before) .. Len(listed)
    /\ \A i \in DOMAIN sources : sources[i] = [id |-> i, text |-> listed[i]]

\* The query only gives up when the array outgrew each size that was asked for:
\* after that many sources came while it ran.
GivesUpOnlyAfterGrowth ==
  step = "gaveUp" => Len(listed) - Len(before) >= Attempts - 1
-----------------------------------------------------------------------------
(* What the safety properties rest on *)

\* The first k sources: the system has had no others when it had k.
First(k) == SubSeq(listed, 1, k)

QueryTypeOK ==
  /\ listed \in Seq(Descriptions)
  /\ before \in Seq(Descriptions)
  /\ step \in {"idle", "query", "parse", "done", "gaveUp", "failed"}
  /\ attempt \in 0 .. Attempts
  /\ step = "query" => attempt >= 1

\* A retry asks for what an earlier array took, and each one has seen it outgrown.
SizesFollow ==
  /\ Len(before) <= Len(listed)
  /\ step = "query" /\ attempt > 1 =>
       \E k \in Len(before) + attempt - 2 .. Len(listed) : capacity = Len(Array(First(k)))

\* What is parsed was the array at some time since the query began.
ArraysFollow ==
  /\ step = "parse" => \E k \in Len(before) .. Len(listed) : buffer = Array(First(k))
  /\ step = "done" => \E k \in Len(before) .. Len(listed) : sources = Parsed(Array(First(k)))

\* The inductive invariant.
QueryIInv == QueryTypeOK /\ SizesFollow /\ ArraysFollow /\ GivesUpOnlyAfterGrowth
=============================================================================
