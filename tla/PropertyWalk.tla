---------------------------- MODULE PropertyWalk ----------------------------
(***************************************************************************)
(* `Parser` (parser.rs): the properties of one event, located on demand.   *)
(*                                                                         *)
(* The values of an event follow each other in its user buffer, and most   *)
(* sizes depend on the values before.  A parser walks the buffer in schema *)
(* order, as far as a request needs, and caches what it found.  Requests   *)
(* come by name (try_parse) or by index (the serializer), in any order.    *)
(*                                                                         *)
(* The buffer is a sequence of cells: a number of 1, 2, 4 or 8 bytes is    *)
(* one cell, and so is a count prefix.  In types are classes, those that   *)
(* are sized and decoded alike: "int32" stands for the 32-bit integers,    *)
(* signed, unsigned or hexadecimal, and "null" for every type that is not  *)
(* known.  Indexes count from 1.                                           *)
(***************************************************************************)
EXTENDS Integers, Sequences, FiniteSets, Functions

CONSTANTS
  Names,      \* property names
  Nothing,    \* no request yet
  Schemas,    \* sequences of properties
  Cells,      \* cell values: natural numbers
  MaxBuffer,  \* bound: cells of a user buffer
  MaxUsize    \* usize::MAX

ASSUME NamesAssumption   == Nothing \notin Names \cup Int /\ Names \cap Int = {}
ASSUME CellsAssumption   == Cells \subseteq Nat
ASSUME BoundsAssumption  ==
  MaxBuffer \in Nat /\ MaxUsize \in Nat /\ MaxBuffer <= MaxUsize

\* The in types by class.  Sized by their own cells, whatever length the schema
\* declares, are the counted families with the hex dump and the SIDs (a header that
\* holds a count, and what it counts), and those that span the rest.
Counted      == {"counted", "countedwide", "blob", "sid"}
Remaining    == {"rest", "restwide"}
ContentSized == Counted \cup Remaining
Numeric      == {"int8", "int16", "int32", "int64", "float", "double"}
Single       == Numeric \cup {"ansichar", "widechar", "bool", "filetime"}
InTypes      == Single \cup ContentSized
                \cup {"pointer", "guid", "systemtime", "ansi", "wide", "ipv6", "binary", "null"}

\* What the types of the schema say of a property.
IsProperty(p) ==
  /\ p.name \in Names
  /\ p.form \in {"value", "array", "struct", "unsupported"}
  /\ p.form = "value" => p.in \in InTypes

ASSUME SchemasAssumption ==
  \A s \in Schemas : s \in Seq({s[i] : i \in DOMAIN s}) /\ \A i \in DOMAIN s : IsProperty(s[i])

VARIABLES
  properties,   \* the schema's top-level properties
  buffer,       \* the event's user buffer
  pointerSize,  \* what the header flags say
  dataStart,    \* where the values start; {} if the layout is not supported
  slices,       \* the properties located so far, in schema order
  nextProbe,    \* where the next lookup of a name starts
  lastOffset,   \* the cells located so far
  pc,           \* what the parser is doing
  request,      \* the name or index it does it for, or did last
  answer        \* what the last request got

event == <<properties, buffer, pointerSize, dataStart>>
cache == <<slices, nextProbe, lastOffset>>
vars  == <<event, cache, pc, request, answer>>

\* An answer is the index of a property, or an error.
NotFound == 0
Failed   == -1

\* The state of the parser, whatever the event is.
WalkTypeOK ==
  /\ pointerSize \in {1, 2}
  /\ dataStart \in {{}, {0}}
  /\ slices \in Seq([start : Nat, len : Nat])
  /\ Len(slices) <= Len(properties)
  /\ nextProbe \in Nat
  /\ lastOffset \in Nat
  /\ pc \in {"idle", "probe", "parse"}
  /\ request \in Names \cup Nat \cup {Nothing}
  /\ answer \in Int

TypeOK == properties \in Schemas /\ buffer \in Seq(Cells) /\ WalkTypeOK
-----------------------------------------------------------------------------
(* TdhInType: an Option<usize> is a set with at most one element *)

\* The in types that are one cell, and those that are wider.
FixedSizeOf(in) ==
  CASE in \in Single -> {1}
    [] in \in {"guid", "systemtime"} -> {2}
    [] OTHER -> {}

\* The length of a Unicode string counts characters of two cells.
InCells(in, n) == IF in = "wide" THEN 2 * n ELSE n

\* Mutant: the product wraps around.
Wrapped(n) == {n % (MaxUsize + 1)}

\* checked_mul: a product that does not fit a usize is none.
Checked(n) == {n} \cap 0 .. MaxUsize

LengthInCells(in, n) == Checked(InCells(in, n))

\* index_value_from_bytes: the value a length or a count refers to, if that
\* property is among the known ones and is a number.
Carrier(known, i) ==
  IF i \in 1 .. Len(known) /\ known[i].len = 1
  THEN {buffer[known[i].start + 1]} ELSE {}

Literal(x) == x.by = "literal"

HasLength(p) == ~Literal(p.length) \/ p.length.n > 0

\* The size of one element, if it follows from the schema alone.
ElementSize(p) ==
  CASE p.in = "pointer" -> {pointerSize}
    [] p.in # "pointer" /\ ~Literal(p.length) -> {}
    [] p.in # "pointer" /\ Literal(p.length) ->
         IF HasLength(p) THEN {InCells(p.in, p.length.n)} ELSE FixedSizeOf(p.in)

\* Property::fixed_size, of a member of a structure that is not one itself.
FixedSize(p) ==
  CASE p.form = "value" -> IF p.in \in ContentSized THEN {} ELSE ElementSize(p)
    [] p.form = "array" /\ Literal(p.count) -> UNION {Checked(e * p.count.n) : e \in ElementSize(p)}
    [] p.form = "unsupported" /\ Literal(p.length) /\ HasLength(p) -> {p.length.n}
    [] OTHER -> {}

The(option) == CHOOSE x \in option : TRUE

Total(sizes) ==
  LET upTo[k \in 0 .. Len(sizes)] == IF k = 0 THEN 0 ELSE upTo[k - 1] + sizes[k]
  IN upTo[Len(sizes)]

\* The members of a structure, together; none if one of them varies.
MembersSize(p) ==
  IF \E k \in DOMAIN p.members : FixedSize(p.members[k]) = {} THEN {}
  ELSE {Total([k \in DOMAIN p.members |-> The(FixedSize(p.members[k]))])}

\* The k-th member of all elements, one element after the other.
MemberOf(p, k) == p.members[((k - 1) % Len(p.members)) + 1]
-----------------------------------------------------------------------------
(* What the values of an event look like, independently of how the walk       *)
(* finds their sizes: also what TDH knows of them                             *)

\* The numbers a length or a count stands for: none if the carrier is not known.
Given(known, x) == IF Literal(x) THEN {x.n} ELSE Carrier(known, x.n)

\* What the schema says of the size of a type that is sized alone.
TypeSize(p) ==
  IF Literal(p.length) /\ HasLength(p) THEN {p.length.n} ELSE FixedSizeOf(p.in)

Nuls(v) == {k \in DOMAIN v : v[k] = 0}

\* The characters of a Unicode string, two cells each.
Chars(v) == [k \in 1 .. Len(v) \div 2 |-> v[2 * k - 1] + v[2 * k]]

\* The lengths and the counts are what the schema gives or refers to.
ValueFits(ptr, lengths, p, v, isLast) ==
  CASE p.in = "pointer" -> Len(v) = ptr
    [] FixedSizeOf(p.in) # {} -> Len(v) \in TypeSize(p)
    [] p.in \in Counted -> v # <<>> /\ v[1] = Len(v) - 1
    [] p.in \in Remaining -> isLast
    [] p.in \in {"ansi", "wide", "ipv6", "binary", "null"} /\ HasLength(p) ->
         \A n \in lengths : Len(v) = InCells(p.in, n)
    [] p.in = "ansi" /\ ~HasLength(p) -> Nuls(v) = {Len(v)}
    [] p.in = "wide" /\ ~HasLength(p) -> Len(v) % 2 = 0 /\ Nuls(Chars(v)) = {Len(Chars(v))}
    [] p.in = "ipv6" /\ ~HasLength(p) -> Len(v) = 2
    [] p.in \in {"binary", "null"} /\ ~HasLength(p) -> TRUE

\* As many elements as counted; a string ends at its terminator.
ArrayFits(ptr, lengths, counts, p, v) ==
  \A c \in counts :
    CASE p.in = "pointer" -> Len(v) = ptr * c
      [] FixedSizeOf(p.in) # {} -> \A n \in TypeSize(p) : Len(v) = n * c
      [] p.in = "ansi" /\ ~HasLength(p) ->
           Cardinality(Nuls(v)) = c /\ (v # <<>> => Len(v) \in Nuls(v))
      [] p.in \in {"ansi", "wide"} /\ HasLength(p) ->
           \A n \in lengths : Len(v) = InCells(p.in, n) * c
      [] OTHER -> TRUE

MemberFits(known, p, v, isLast) ==
  CASE p.form = "value"       -> ValueFits(pointerSize, Given(known, p.length), p, v, isLast)
    [] p.form = "array"       -> ArrayFits(pointerSize, Given(known, p.length), Given(known, p.count), p, v)
    [] p.form = "unsupported" -> HasLength(p) => \A n \in Given(known, p.length) : Len(v) = n

\* Where the k-th member, of one element after the other, may end if it starts there.
EndsAfter(known, p, v, isLast, k, starts) ==
  UNION {{e \in b .. Len(v) : MemberFits(known, MemberOf(p, k), SubSeq(v, b + 1, e), isLast /\ e = Len(v))} :
           b \in starts}

\* Where each of n members may end.
Ends(known, p, v, isLast, n) ==
  LET ends[k \in 0 .. n] ==
        IF k = 0 THEN {0} ELSE EndsAfter(known, p, v, isLast, k, ends[k - 1])
  IN ends

\* Some way of cutting the cells into one piece per member of each element.
StructFits(known, p, v, isLast) ==
  \A c \in Given(known, p.count) :
    IF MembersSize(p) # {} THEN \A m \in MembersSize(p) : Len(v) = m * c
    ELSE LET n == c * Len(p.members) IN Len(v) \in Ends(known, p, v, isLast, n)[n]

Fits(known, p, v, isLast) ==
  IF p.form = "struct" THEN StructFits(known, p, v, isLast) ELSE MemberFits(known, p, v, isLast)
-----------------------------------------------------------------------------
(* Parser::find_property_size, of the next property: {} asks TDH *)

Rest == SubSeq(buffer, lastOffset + 1, Len(buffer))

\* The least of some positions, or an error.
FirstOf(positions) ==
  IF positions = {} THEN {Failed} ELSE {k \in positions : \A j \in positions : k <= j}

\* No usable length: the size is in the cells of the value or in its type.
SizeByContent(in, cells) ==
  CASE in = "ansi"        -> FirstOf(Nuls(cells))
    [] in = "wide"        -> {IF k = Failed THEN Failed ELSE 2 * k : k \in FirstOf(Nuls(Chars(cells)))}
    [] in \in Counted    -> IF cells = <<>> THEN {Failed} ELSE {1 + cells[1]}
    [] in \in Remaining  -> {Len(cells)}
    [] in = "ipv6"        -> {2}
    [] OTHER              -> FixedSizeOf(in)

ReferredLength(p) ==
  IF FixedSizeOf(p.in) # {} THEN FixedSizeOf(p.in)
  ELSE UNION {LengthInCells(p.in, n) : n \in Carrier(slices, p.length.n)}

ValueSizes(p) ==
  CASE p.in = "pointer" -> {pointerSize}
    [] p.in \in ContentSized -> SizeByContent(p.in, Rest)
    [] p.in \notin ContentSized \cup {"pointer"} /\ ~Literal(p.length) -> ReferredLength(p)
    [] p.in \notin ContentSized \cup {"pointer"} /\ Literal(p.length) ->
         IF HasLength(p) THEN ElementSize(p) ELSE SizeByContent(p.in, Rest)

\* An empty array has no cells, even of elements that vary in size.
ArraySizes(p) ==
  LET elem == IF p.in # "pointer" /\ ~Literal(p.length) THEN ReferredLength(p) ELSE ElementSize(p)
  IN UNION {IF elem = {} /\ c = 0 THEN {0} ELSE UNION {Checked(e * c) : e \in elem} :
              c \in Given(slices, p.count)}

StructSizes(p) == UNION {Checked(m * c) : m \in MembersSize(p), c \in Given(slices, p.count)}

LocalSizes(p) ==
  CASE p.form = "value"       -> ValueSizes(p)
    [] p.form = "array"       -> ArraySizes(p)
    [] p.form = "struct"      -> StructSizes(p)
    [] p.form = "unsupported" -> IF HasLength(p) THEN Given(slices, p.length) ELSE {}

\* TdhGetPropertySize, which is given a name: for a name that is repeated it
\* answers for the first one.
TdhSizes(p) ==
  LET same == {j \in DOMAIN slices : properties[j].name = p.name}
  IN {Failed} \cup
     IF same # {} THEN {slices[j].len : j \in FirstOf(same)}
     ELSE {n \in 0 .. Len(Rest) : Fits(slices, p, SubSeq(Rest, 1, n), n = Len(Rest))}

Sizes(p) == IF LocalSizes(p) # {} THEN LocalSizes(p) ELSE TdhSizes(p)
-----------------------------------------------------------------------------
(* Parser::find_property and Parser::property_bytes_at *)

\* One parser serves one event: any name may be asked for, and the indexes come
\* from the schema (those of members lie past the top-level properties).
Ask ==
  /\ pc = "idle"
  /\ request' \in Names \cup 1 .. Len(properties) + 1
  /\ pc' = IF request' \in Names THEN "probe" ELSE "parse"
  /\ UNCHANGED <<event, cache, answer>>

Return(a) ==
  /\ answer' = a
  /\ pc' = "idle"

Hits == {i \in DOMAIN slices : properties[i].name = request}

\* The slices are probed from nextProbe on, wrapping around.
Distance(i) == (i - 1 - nextProbe) % Len(slices)

ProbeHit ==
  /\ pc = "probe"
  /\ \E i \in Hits :
       /\ \A j \in Hits : Distance(i) <= Distance(j)
       /\ nextProbe' = i % Len(slices)
       /\ Return(i)
  /\ UNCHANGED <<event, slices, lastOffset, request>>

ProbeMiss ==
  /\ pc = "probe"
  /\ Hits = {}
  /\ pc' = "parse"
  /\ UNCHANGED <<event, cache, request, answer>>

\* The property the request was waiting for is in the cache.
Reached(n) == n >= 1 /\ (request = n \/ properties[n].name = request)

\* An index that is cached already needs no parsing.
IndexHit ==
  /\ pc = "parse"
  /\ request \in DOMAIN slices
  /\ Return(request)
  /\ UNCHANGED <<event, cache, request>>

Pending == pc = "parse" /\ request \notin DOMAIN slices

\* Mutant: the end of the buffer is not looked at.
ParsePastEnd ==
  LET next == Len(slices) + 1
  IN /\ Pending
     /\ next <= Len(properties)
     /\ dataStart # {}
     /\ \E n \in Sizes(properties[next]) \ {Failed} :
          /\ slices' = Append(slices, [start |-> lastOffset, len |-> n])
          /\ lastOffset' = lastOffset + n
     /\ IF Reached(next) THEN Return(next) ELSE UNCHANGED <<pc, answer>>
     /\ UNCHANGED <<event, nextProbe, request>>

\* Mutant: an error of the size is taken for a size.
ParseErrors ==
  LET next == Len(slices) + 1
  IN /\ Pending
     /\ next <= Len(properties)
     /\ dataStart # {}
     /\ \E n \in Sizes(properties[next]) :
          /\ n <= Len(Rest)
          /\ slices' = Append(slices, [start |-> lastOffset, len |-> n])
          /\ lastOffset' = lastOffset + n
     /\ IF Reached(next) THEN Return(next) ELSE UNCHANGED <<pc, answer>>
     /\ UNCHANGED <<event, nextProbe, request>>

\* parse_next_property: the next slice is what its size takes of the rest.
ParseNext ==
  LET next == Len(slices) + 1
  IN /\ Pending
     /\ next <= Len(properties)
     /\ dataStart # {}
     /\ \E n \in 0 .. Len(Rest) :
          /\ n \in Sizes(properties[next])
          /\ slices' = Append(slices, [start |-> lastOffset, len |-> n])
          /\ lastOffset' = lastOffset + n
     /\ IF Reached(next) THEN Return(next) ELSE UNCHANGED <<pc, answer>>
     /\ UNCHANGED <<event, nextProbe, request>>

\* A layout that is not supported, a size that cannot be found, or one past the
\* end of the buffer: what was parsed before stays.
ParseFails ==
  LET next == Len(slices) + 1
  IN /\ Pending
     /\ next <= Len(properties)
     /\ dataStart = {} \/ \E n \in Sizes(properties[next]) : n \notin 0 .. Len(Rest)
     /\ Return(Failed)
     /\ UNCHANGED <<event, cache, request>>

\* Mutant: the walk stops before the last property.
ExhaustedEarly ==
  /\ Pending
  /\ Len(slices) + 1 >= Len(properties)
  /\ Return(NotFound)
  /\ UNCHANGED <<event, cache, request>>

Exhausted ==
  /\ Pending
  /\ Len(slices) = Len(properties)
  /\ Return(NotFound)
  /\ UNCHANGED <<event, cache, request>>
-----------------------------------------------------------------------------
\* Any event that TDH has a schema for, its cells whatever they are: a provider
\* may write an event that does not follow its own schema.
Init ==
  /\ properties \in Schemas
  /\ buffer \in UNION {[1 .. n -> Cells] : n \in 0 .. MaxBuffer}
  /\ pointerSize \in {1, 2}
  /\ dataStart \in {{}, {0}}
  /\ slices = <<>>
  /\ nextProbe = 0
  /\ lastOffset = 0
  /\ pc = "idle"
  /\ request = Nothing
  /\ answer = NotFound

Walk == ProbeHit \/ ProbeMiss \/ IndexHit \/ ParseNext \/ ParseFails \/ Exhausted

\* The callback is done with the event.
Finished == pc = "idle" /\ UNCHANGED vars

Next == Ask \/ Walk \/ Finished

Spec == Init /\ [][Next]_vars
-----------------------------------------------------------------------------
(* Properties *)

EndOf(i) == IF i = 0 THEN 0 ELSE slices[i].start + slices[i].len

ValueOf(i) == SubSeq(buffer, slices[i].start + 1, EndOf(i))

\* Whatever was asked in whatever order, and whatever failed on the way, the
\* slices follow each other from the start of the buffer without gap or overlap;
\* an event whose values cannot be told from its metadata yields none.
SlicesTile ==
  /\ \A i \in DOMAIN slices : slices[i].start = EndOf(i - 1)
  /\ lastOffset = EndOf(Len(slices))
  /\ lastOffset <= Len(buffer)
  /\ dataStart = {} => slices = <<>>

\* Every property gets cells that are a value of its type, of the length and the
\* count that the values before it announce: no size is off, wraps around or
\* depends on what was asked first.  Excepted are the sizes that TDH, which goes
\* by the name, gives to the later of two properties of one name.
SlicesFit ==
  \A i \in DOMAIN slices :
    \/ Fits(SubSeq(slices, 1, i - 1), properties[i], ValueOf(i), EndOf(i) = Len(buffer))
    \/ \E j \in 1 .. i - 1 : /\ properties[j].name = properties[i].name
                            /\ slices[j].len = slices[i].len

Answered == pc = "idle" /\ request # Nothing

\* An index gets its own property and a name one of that name, from the cache or
\* from the walk; only what the schema does not have is not found.
AnswerMatches ==
  Answered =>
    /\ answer = NotFound =>
         \A i \in DOMAIN properties : request # i /\ properties[i].name # request
    /\ answer > 0 =>
         answer \in DOMAIN slices /\ (request = answer \/ properties[answer].name = request)

\* A name that the manifest repeats stands for its first property: the lookup
\* "keeps the first same-named match semantics" (parser.rs).
FirstNameWins ==
  Answered /\ request \in Names =>
    \A i \in DOMAIN properties : i < answer => properties[i].name # request
-----------------------------------------------------------------------------
(* What the safety properties rest on *)

\* A name is probed for first, and the walk for it only passes other names.
WalkFollows ==
  /\ pc = "probe" => request \in Names
  /\ pc = "parse" => request # Nothing /\ \A i \in DOMAIN slices : properties[i].name # request

\* The inductive invariant.
WalkIInv == TypeOK /\ SlicesTile /\ SlicesFit /\ WalkFollows /\ AnswerMatches
=============================================================================
