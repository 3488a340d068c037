-------------------------- MODULE EventSerializer --------------------------
(***************************************************************************)
(* `EventSerializer` (ser.rs): an event as a document.                     *)
(*                                                                         *)
(* The serializer owns a parser of the event (PropertyWalk), and asks it   *)
(* for one property after the other by index; the count of a structure     *)
(* array may make it ask for another one in between.  Structures are taken *)
(* apart by the serializer itself.  What cannot be decoded fails the event *)
(* (strict, `fail_unimplemented`) or becomes null.                         *)
(*                                                                         *)
(* `record` is the event as Windows hands it over, with what TDH knows of  *)
(* it; `schema` in it, and what was `written`, are for the properties only.*)
(***************************************************************************)
EXTENDS WrittenEvents, ExtendedData

CONSTANTS
  Records,   \* sets of events
  Includes   \* sets of the optional fields of a document

ASSUME RecordsAssumption ==
  \A family \in Records : \A r \in family :
    /\ r.schema \in Schemas /\ IsDescribed(r.schema)
    /\ r.buffer \in Seq(Cells) /\ Len(r.buffer) <= MaxBuffer
    /\ r.pointerSize \in {1, 2}

ASSUME ItemsAssumption ==
  \A family \in Records : \A r \in family :
    /\ r.items \in Seq({r.items[k] : k \in DOMAIN r.items})
    /\ \A k \in DOMAIN r.items : IsReported(r.items[k])

ASSUME WrittenAssumption ==
  \A family \in Records : \A r \in family : \A written \in r.written : IsWritten(r, written)

VARIABLES
  record,
  include,   \* EventSerializerOptions: the optional fields,
  strict,    \* and whether what cannot be decoded is an error
  phase,     \* what the serializer is doing
  at,        \* the properties that have their entry
  fields,    \* the optional fields that were written
  extended,  \* the items of the field Extended
  entries    \* the entries of the field Event

given      == <<record, include, strict>>
document   == <<fields, extended, entries>>
serializer == <<given, phase, at, document>>
allVars    == <<vars, serializer>>

SerializerTypeOK ==
  /\ WalkTypeOK
  /\ include \in Includes
  /\ strict \in BOOLEAN
  /\ phase \in {"fields", "entries", "bytes", "count", "done", "failed"}
  /\ at \in 0 .. Len(properties)
  /\ fields \subseteq include
  /\ Len(entries) <= Len(properties)
-----------------------------------------------------------------------------
(* Structures *)

\* Mutant: a string is sized without its terminator.
UnterminatedSize(p, cells) ==
  IF p.form = "value" /\ p.length = Literally(0) /\ p.in \in {"ansi", "wide"} \cup ContentSized
  THEN {IF p.in = "ansi" THEN n - 1 ELSE n : n \in SizeByContent(p.in, cells) \ {Failed}} ELSE {}

\* variable_member_size: from its leading cells, without TDH.
VariableMemberSize(p, cells) ==
  IF p.form = "value" /\ p.length = Literally(0) /\ p.in \in {"ansi", "wide"} \cup ContentSized
  THEN SizeByContent(p.in, cells) \ {Failed} ELSE {}

\* Mutant: a member of unknown size is passed over, and the next one read in its place.
EndsPassingOver(p, v, n) ==
  LET end[k \in 0 .. n] ==
        IF k = 0 THEN {0}
        ELSE LET m == MemberOf(p, k)
             IN UNION {LET size == IF FixedSize(m) # {} THEN FixedSize(m)
                                   ELSE VariableMemberSize(m, SubSeq(v, b + 1, Len(v)))
                       IN IF size = {} THEN {b} ELSE {b + s : s \in size} \cap 0 .. Len(v) : b \in end[k - 1]}
  IN end

\* member_buffer: where a member may end that starts at b; {} if its size is unknown
\* or too large.
EndsFrom(m, v, b) ==
  LET size == IF FixedSize(m) # {} THEN FixedSize(m)
              ELSE VariableMemberSize(m, SubSeq(v, b + 1, Len(v)))
  IN {b + s : s \in size} \cap 0 .. Len(v)

\* Of one member after the other over all elements, where each of n ends: {} from
\* the first on that is not located.
MemberEnds(p, v, n) ==
  LET end[k \in 0 .. n] ==
        IF k = 0 THEN {0} ELSE UNION {EndsFrom(MemberOf(p, k), v, b) : b \in end[k - 1]}
  IN end

\* What the k-th member may become; one that is not located is null, even if the
\* serializer is strict.
MemberOutcomes(p, v, end, k) ==
  IF end[k] = {} THEN {Null}
  ELSE Outcomes(MemberOf(p, k), SubSeq(v, The(end[k - 1]) + 1, The(end[k])))

ChoicesWith(chosen, set) == {Append(c, x) : c \in chosen, x \in set}

\* All ways to choose one of each set.
Selections(sets) ==
  LET upTo[k \in 0 .. Len(sets)] ==
        IF k = 0 THEN {<<>>} ELSE ChoicesWith(upTo[k - 1], sets[k])
  IN upTo[Len(sets)]

\* ser_property: an error fails the event, or degrades to null.
Degraded(x) == IF x = Error /\ ~strict THEN Null ELSE x

\* StructSer: the members of one element, of all that were chosen.
ElementMap(p, chosen, i) ==
  LET m == Len(p.members)
  IN Map([k \in 1 .. m |-> Entry(p.members[k].name, Degraded(chosen[(i - 1) * m + k]))])

HasError(chosen, i, m) == \E k \in 1 .. m : chosen[(i - 1) * m + k] = Error

StructOutcomes(p, v) ==
  LET m   == Len(p.members)
      end == MemberEnds(p, v, m)
  IN {IF strict /\ HasError(c, 1, m) THEN Error ELSE ElementMap(p, c, 1) :
        c \in Selections([k \in 1 .. m |-> MemberOutcomes(p, v, end, k)])}

\* StructArraySer: as many elements as counted.  From the first on whose end is
\* not known, they are null, even if the serializer is strict.
StructArrayOutcomes(p, v, count) ==
  LET m   == Len(p.members)
      end == MemberEnds(p, v, count * m)
      complete == {i \in 1 .. count : end[i * m] # {}}
      located  == Cardinality(complete) * m
  IN {IF strict /\ \E i \in complete : HasError(c, i, m) THEN Error
      ELSE List([i \in 1 .. count |-> IF i \in complete THEN ElementMap(p, c, i) ELSE Null]) :
        c \in Selections([k \in 1 .. located |-> MemberOutcomes(p, v, end, k)])}

\* A structure is an array of them if it has a count.
IsStructArray(p) == p.form = "struct" /\ p.count # Literally(1)

\* ser_property; the count of a structure array is none if it is not found.
PropertyOutcomes(p, v, counts) ==
  CASE p.form # "struct" -> Outcomes(p, v)
    [] p.form = "struct" /\ ~IsStructArray(p) -> StructOutcomes(p, v)
    [] IsStructArray(p) /\ counts = {} -> {Error}
    [] IsStructArray(p) /\ counts # {} -> StructArrayOutcomes(p, v, The(counts))
-----------------------------------------------------------------------------
(* The document *)

\* Parser::create over the record and its schema, and EventSerializer::new
SerializerInit ==
  /\ \E family \in Records : record \in family
  /\ properties = PropertiesOf(InfoOf(record.schema))
  /\ buffer = record.buffer
  /\ pointerSize = record.pointerSize
  /\ dataStart = ValuesStart(record.source, record.items)
  /\ include \in Includes
  /\ strict \in BOOLEAN
  /\ slices = <<>> /\ nextProbe = 0 /\ lastOffset = 0
  /\ pc = "idle" /\ request = Nothing /\ answer = NotFound
  /\ phase = "fields" /\ at = 0
  /\ fields = {} /\ extended = <<>> /\ entries = <<>>

\* ExtendedSer: the items that can be read, in their order.  Windows may refuse
\* to render a SID.
ItemOutcomes(k) ==
  LET item == record.items[k]
  IN IF ItemOf(item) = {} THEN {{}}
     ELSE {ItemOf(item)} \cup IF item.type = "sid" THEN {{}} ELSE {}

ItemSelections ==
  IF "Extended" \in include THEN Selections([k \in DOMAIN record.items |-> ItemOutcomes(k)]) ELSE {<<>>}

\* The values of the options that have one, in their order.
Values(options) ==
  LET some == SelectSeq(options, LAMBDA o : o # {})
  IN [k \in DOMAIN some |-> The(some[k])]

SerializeFields ==
  /\ phase = "fields"
  /\ \E items \in ItemSelections :
       LET refused == strict /\ \E k \in DOMAIN items : items[k] = {}
       IN /\ phase' = IF refused THEN "failed" ELSE "entries"
          /\ fields' = IF refused THEN include \ {"Extended"} ELSE include
          /\ extended' = IF refused THEN <<>> ELSE Values(items)
  /\ UNCHANGED <<vars, given, at, entries>>

\* property_bytes_at, of the serializer's next property or of a count
AskFor(i) ==
  /\ request' = i
  /\ pc' = "parse"
  /\ UNCHANGED <<event, cache, answer>>

AskBytes ==
  /\ phase = "entries"
  /\ at < Len(properties)
  /\ AskFor(at + 1)
  /\ phase' = "bytes"
  /\ UNCHANGED <<given, at, document>>

\* The parser's steps, one request at a time.
Walking == Walk /\ UNCHANGED serializer

Got(i) == answer = i /\ pc = "idle"

NullEntry(i) == Entry(properties[i].name, Null)

\* Mutant: the property is asked for again.
AskAgain ==
  /\ phase = "bytes"
  /\ pc = "idle"
  /\ answer # at + 1
  /\ phase' = IF strict THEN "failed" ELSE "entries"
  /\ UNCHANGED <<vars, given, at, document>>

\* Mutant: the property is counted among those after it.
LoseTwice ==
  /\ phase = "bytes"
  /\ pc = "idle"
  /\ answer # at + 1
  /\ phase' = IF strict THEN "failed" ELSE "done"
  /\ entries' = IF strict THEN entries
                ELSE entries \o <<NullEntry(at + 1)>> \o
                     [i \in 1 .. Len(properties) - at |-> NullEntry(at + i)]
  /\ UNCHANGED <<vars, given, at, fields, extended>>

\* Mutant: the properties after it are left out.
LoseTheRest ==
  /\ phase = "bytes"
  /\ pc = "idle"
  /\ answer # at + 1
  /\ phase' = IF strict THEN "failed" ELSE "done"
  /\ entries' = IF strict THEN entries ELSE Append(entries, NullEntry(at + 1))
  /\ UNCHANGED <<vars, given, at, fields, extended>>

\* The walk stopped: this property and those after it are null.
LoseBytes ==
  /\ phase = "bytes"
  /\ pc = "idle"
  /\ answer # at + 1
  /\ phase' = IF strict THEN "failed" ELSE "done"
  /\ entries' = IF strict THEN entries
                ELSE [i \in DOMAIN properties |-> IF i <= at THEN entries[i] ELSE NullEntry(i)]
  /\ UNCHANGED <<vars, given, at, fields, extended>>

\* resolve_struct_count: only a top-level property can be asked for.
CountIsAsked(p) ==
  IsStructArray(p) /\ ~Literal(p.count) /\ p.count.n \in DOMAIN properties

AskCount ==
  /\ phase = "bytes"
  /\ Got(at + 1)
  /\ CountIsAsked(properties[at + 1])
  /\ AskFor(properties[at + 1].count.n)
  /\ phase' = "count"
  /\ UNCHANGED <<given, at, document>>

\* Mutant: a count that is not found is no error.
WriteAnyway(counts) ==
  \E x \in PropertyOutcomes(properties[at + 1], ValueOf(at + 1), counts) :
    /\ phase' = "entries"
    /\ at' = at + 1
    /\ entries' = Append(entries, Entry(properties[at + 1].name, IF x = Error THEN Null ELSE x))
    /\ UNCHANGED <<vars, given, fields, extended>>

Write(counts) ==
  \E x \in PropertyOutcomes(properties[at + 1], ValueOf(at + 1), counts) :
    /\ phase' = IF strict /\ x = Error THEN "failed" ELSE "entries"
    /\ at' = IF strict /\ x = Error THEN at ELSE at + 1
    /\ entries' = IF strict /\ x = Error THEN entries
                  ELSE Append(entries, Entry(properties[at + 1].name, Degraded(x)))
    /\ UNCHANGED <<vars, given, fields, extended>>

WriteLocated ==
  LET p == properties[at + 1]
  IN /\ phase = "bytes"
     /\ Got(at + 1)
     /\ ~CountIsAsked(p)
     /\ Write(IF Literal(p.count) THEN {p.count.n} ELSE {})

WriteCounted ==
  /\ phase = "count"
  /\ pc = "idle"
  /\ Write(IF answer = request THEN Carrier(slices, request) ELSE {})

AllWritten ==
  /\ phase = "entries"
  /\ at = Len(properties)
  /\ phase' = "done"
  /\ UNCHANGED <<vars, given, at, document>>

Ended == phase \in {"done", "failed"}

SerializeEvent ==
  \/ AskBytes \/ Walking \/ LoseBytes \/ AskCount
  \/ WriteLocated \/ WriteCounted \/ AllWritten

SerializerNext == SerializeFields \/ SerializeEvent \/ (Ended /\ UNCHANGED allVars)

SerializerSpec == SerializerInit /\ [][SerializerNext]_allVars

\* The callback runs on: nothing in the serializer waits for anybody.
FairSerializerSpec == SerializerSpec /\ WF_allVars(SerializeFields \/ SerializeEvent)
-----------------------------------------------------------------------------
(* Properties *)

Done == phase = "done"

\* The flat array of TDH, members behind the top-level properties, parses back to
\* the tree it describes: no member is taken for a property, no index for a number.
SchemaAsDescribed == properties = record.schema

\* A lenient serializer never fails, and writes one entry for each property, in
\* their order, whatever the event looks like.
LenientKeepsAll ==
  /\ ~strict => phase # "failed"
  /\ Done => [i \in DOMAIN entries |-> entries[i].name] =
             [i \in DOMAIN properties |-> properties[i].name]

\* What TDH alone can size may be refused by it.
AsksTdh(p) ==
  \/ p.form = "struct" /\ MembersSize(p) = {}
  \/ p.form = "value" /\ p.in \in {"binary", "null"} /\ ~HasLength(p)

\* An array may lie at an odd address, and Windows may refuse to render a SID.
MayBeRefused(p) == p.form # "struct" /\ (Handler(p) = "numbers" \/ p.in = "sid")

\* An event that follows its schema is serialized as what was written, property by
\* property, through counts, terminators, structures and the types of its schema.
\* Of a structure with a member that only another one could size, that member and
\* those after it are null, and so is an array of anything but whole numbers of more
\* than a byte.  Excepted are the properties from the first on whose size TDH refuses
\* to tell, and those that may be refused; both are null.  Where a hexadecimal out
\* type stands for another width than the in type has, a number is lost, and an array
\* at best keeps its cells, cut in elements of that other width.
Faithful ==
  Done =>
    \A written \in record.written : \A i \in DOMAIN entries :
      \/ entries[i].value = Meant(written, i)
      \/ /\ entries[i].value = Null
         /\ \/ i \notin DOMAIN slices /\ \E j \in 1 .. i : AsksTdh(properties[j])
            \/ MayBeRefused(properties[i])
            \/ WidthsDiffer(pointerSize, properties[i])
            \/ dataStart = {}
      \/ /\ properties[i].form = "array" /\ WidthsDiffer(pointerSize, properties[i])
         /\ i \in DOMAIN written
         /\ entries[i].value = Numbers(OutWidth(properties[i]), written[i].cells)

\* A property of a type that is not known, and whose out type does not tell either.
IsUnknown(p) == p.form = "value" /\ p.in = "null" /\ p.out = "none"

\* A strict serializer that succeeds has a value for each property, whatever could not
\* be sized, counted or decoded, but for those of an unknown type: these are null in
\* any document, although their cells are lost.
StrictHasValues ==
  strict /\ Done =>
    \A i \in DOMAIN entries : entries[i].value = Null => IsUnknown(properties[i])

\* An item is reported as it was written, cut to what its size holds: a value of a
\* fixed size and a SID whole or not at all, a stack by its whole addresses, a name
\* only with its terminator.  Passed over is what says nothing, and a SID that
\* Windows refuses; by a strict serializer nothing.
ExtendedFaithful ==
  phase \notin {"fields", "failed"} /\ "Extended" \in include =>
    LET items  == record.items
        silent == {k \in DOMAIN items : items[k].reported = {}}
        sids   == {k \in DOMAIN items : items[k].type = "sid"}
        others(passed) == Values([k \in DOMAIN items |->
                                    IF k \in passed THEN {} ELSE items[k].reported])
    IN \E passed \in SUBSET (silent \cup sids) :
         /\ silent \subseteq passed
         /\ strict => passed = {}
         /\ Len(extended) = Len(others(passed)) /\ extended = others(passed)

\* The event that a strict serializer accepts has no null in it at all: "When
\* `true`, the first such entry fails the whole event with an error" (ser.rs).
HoldsNull(v) ==
  \/ v = Null
  \/ v.is = "map" /\ \E k \in DOMAIN v.entries : v.entries[k].value = Null
  \/ v.is = "list" /\ \E i \in DOMAIN v.items :
       v.items[i] = Null \/ \E k \in DOMAIN v.items[i].entries : v.items[i].entries[k].value = Null

StrictFailsOnNulls ==
  strict /\ Done => \A i \in DOMAIN entries : ~HoldsNull(entries[i].value)

\* Serializing ends, with a document or an error.
SerializingEnds == <>Ended
-----------------------------------------------------------------------------
(* What the safety properties rest on *)

\* The parser only works for a property or a count that was asked for.
PhaseFollows ==
  IF phase \in {"bytes", "count"} THEN at < Len(properties) ELSE pc = "idle"

\* Each entry is the one of its property, and a null of a strict serializer is the
\* value of an unknown type.
EntriesFollow ==
  /\ entries \in Seq(Range(entries))
  /\ Len(entries) = IF Done THEN Len(properties) ELSE at
  /\ \A i \in DOMAIN entries :
       /\ entries[i].name = properties[i].name
       /\ strict /\ entries[i].value = Null => IsUnknown(properties[i])
  /\ phase = "failed" => strict

\* The inductive invariant.
SerializerIInv == SerializerTypeOK /\ SchemaAsDescribed /\ PhaseFollows /\ EntriesFollow
=============================================================================
