--------------------------- MODULE WrittenEvents ---------------------------
(***************************************************************************)
(* The events that follow their schema: what a provider writes, property   *)
(* by property, and what the cells of each piece mean.  Of the properties  *)
(* of EventSerializer only: nothing here is what the crate does, and it is *)
(* what the document of such an event is compared with.                    *)
(*                                                                         *)
(* An event is `written` as a sequence of pieces, one for each property up *)
(* to the first that has no cells left.  A piece has cells and a value; of *)
(* a structure it has parts, one for each member of each element.          *)
(***************************************************************************)
EXTENDS PropertyValues, TdhSchema

\* The number that a length or a count stands for: of a piece that is one.
Told(written, i, x) ==
  IF Literal(x) THEN {x.n}
  ELSE IF x.n \in 1 .. i - 1 /\ Len(written[x.n].cells) = 1 THEN {written[x.n].cells[1]}
  ELSE {}

\* A string ends with a NUL, or where its cells end; others announce their size.
IsString(in, v, s) ==
  /\ s \in Seq(Nat)
  /\ CASE in = "ansi" ->
            /\ IsText(v) /\ Len(s) <= Len(v)
            /\ \A k \in DOMAIN v : IF k <= Len(s) THEN v[k] = s[k] /\ s[k] # 0 ELSE v[k] = 0
       [] in = "wide" ->
            /\ Len(v) % 2 = 0 /\ 2 * Len(s) <= Len(v)
            /\ \A k \in DOMAIN s : s[k] = v[2 * k - 1] + v[2 * k] /\ s[k] # 0
            /\ 2 * Len(s) < Len(v) => v[2 * Len(s) + 1] + v[2 * Len(s) + 2] = 0
       [] in \in {"ansichar", "rest"} -> s = v /\ IsText(v)
       [] in = "widechar" -> s = v
       [] in = "counted" -> IsText(s) /\ v = <<Len(s)>> \o s
       [] in = "countedwide" ->
            /\ Len(v) = 2 * Len(s) + 1
            /\ \A k \in DOMAIN s : s[k] = v[2 * k] + v[2 * k + 1]
       [] in = "sid" -> s = v
       [] in = "restwide" ->
            /\ Len(s) = Len(v) \div 2
            /\ \A k \in DOMAIN s : s[k] = v[2 * k - 1] + v[2 * k]

\* A family, and an address of that family; cells of any other mean nothing.
IsAddress(v, x) ==
  /\ v # <<>>
  /\ CASE v[1] = 2 /\ Len(v) >= 4 -> x = Plain("inet", <<v[2], v[3]>>)
       [] v[1] = 23 /\ Len(v) >= 6 -> x = Plain("inet6", <<v[2], v[3], v[4], v[5], v[6]>>)
       [] OTHER -> x = Plain("raw", v)

\* The days from 1970 to a date: a year has 365 of them, and one more if it is leap.
IsLeap(y)     == y % 4 = 0 /\ (y % 100 # 0 \/ y % 400 = 0)
LeapYears(y)  == y \div 4 - y \div 100 + y \div 400
DaysBefore(m) == <<0, 31, 59, 90, 120, 151, 181, 212, 243, 273, 304, 334>>[m]
DaysSince1970(y, m, d) ==
  365 * (y - 1970) + LeapYears(y - 1) - LeapYears(1969)
  + DaysBefore(m) + (IF m > 2 /\ IsLeap(y) THEN 1 ELSE 0) + d - 1

\* A date from 1601 on, and the hour; none is later than a FILETIME can tell.
IsDate(v, x) ==
  LET y == v[1] \div 512
      m == (v[1] \div 32) % 16
      d == v[1] % 32
      hours == 24 * DaysSince1970(y, m, d) + v[2]
  IN /\ y >= 1601 /\ m \in 1 .. 12 /\ d \in 1 .. 31
     /\ x = Plain("time", <<IF hours + EpochHours <= MaxQuad THEN hours ELSE MaxQuad - EpochHours>>)

\* The types of whole numbers, which may be shown in hexadecimal.
WholeNumbers == {"int8", "int16", "int32", "int64", "pointer"}

\* What the cells of a value mean by its in type; those of a type that is not known mean
\* nothing.
MeansAlone(in, v, x) ==
  CASE in \in TextTypes -> x = Plain("text", x.cells) /\ IsString(in, v, x.cells)
    [] in \in Numeric \cup {"pointer"} -> x = Plain("number", v)
    [] in = "null" -> x = Null
    [] in \in {"binary", "ipv6"} -> x = Plain("binary", v)
    [] in = "blob" -> x = Plain("binary", Tail(v))
    [] in = "bool" -> x = Plain("bool", <<IF v[1] = 0 THEN 0 ELSE 1>>)
    [] in = "guid" -> x = Plain("guid", v)
    [] in = "filetime" -> v[1] <= MaxQuad /\ x = Plain("time", <<v[1] - EpochHours>>)
    [] in = "systemtime" -> IsDate(v, x)

\* What they mean by both types of the property.
Means(p, v, x) ==
  CASE p.out = "ip" -> p.in \in {"int32", "ipv6"} /\ x = Plain("ip", v)
    [] p.out = "socket" -> p.in = "binary" /\ IsAddress(v, x)
    [] p.out = "utf8" -> p.in \in TextTypes /\ MeansAlone(p.in, v, x)
    [] p.out \in Hexadecimal -> p.in \in WholeNumbers /\ x = Plain("number", v)
    [] p.out = "none" -> MeansAlone(p.in, v, x)

\* The cells that a type and its length allow, wherever they are.
Allows(ptr, lengths, p, v) == ValueFits(ptr, lengths, p, v, TRUE)

\* The cells of a value and what they mean.  A number is not declared wider than it
\* is, and only TDH knows the length of other data that has none in the schema.
IsValue(ptr, lengths, p, v, x) ==
  /\ v \in Seq(Nat)
  /\ Allows(ptr, lengths, p, v)
  /\ lengths # {}
  /\ FixedSizeOf(p.in) # {} => Len(v) \in FixedSizeOf(p.in)
  /\ p.in = "ipv6" => Len(v) = 2
  /\ p.in \in {"binary", "null"} => HasLength(p)
  /\ Means(p, v, x)

\* The bytes of a number, and of what its hexadecimal out type stands for: a manifest
\* may declare a pointer win:HexInt64, and be written by a process of 32 bits.
OwnWidth(ptr, p) == IF p.in = "pointer" THEN 4 * ptr ELSE CellWidth(p.in)
OutWidth(p)      == IF p.out = "hex32" THEN 4 ELSE 8
WidthsDiffer(ptr, p) == p.out \in Hexadecimal /\ OutWidth(p) # OwnWidth(ptr, p)

\* As many elements as counted, of one size; whole numbers of more than a byte are values
\* of their own, or those that are shown in hexadecimal.
IsArrayOf(ptr, lengths, counts, p, v, x) ==
  /\ v \in Seq(Nat)
  /\ ArrayFits(ptr, lengths, counts, p, v)
  /\ lengths # {} /\ counts # {}
  /\ p.in = "pointer" \/ FixedSizeOf(p.in) # {} \/ (p.in \in {"ansi", "wide"} /\ HasLength(p))
  /\ p.out \in Hexadecimal => p.in \in WholeNumbers
  /\ x = IF p.out \in Hexadecimal \/ p.in \in WholeNumbers \ {"int8"}
         THEN Numbers(OwnWidth(ptr, p), v) ELSE Null
-----------------------------------------------------------------------------
(* Structures *)

\* Whether the size of a member is in its type, its own cells or the schema.
SizedAlone(m) == m.in = "pointer" \/ Literal(m.length)

\* The members that are written: values, of no type that spans the rest, that may
\* be refused or whose cells are counted twice.
IsMember(m) ==
  /\ m.form = "value"
  /\ m.in \in InTypes \ (Remaining \cup {"sid"}) /\ m.out \in OutTypes
  /\ m.in \in Counted => Literal(m.length) /\ ~HasLength(m)
  /\ m.in = "ipv6" => HasLength(m)

\* The members of the j-th element up to the first that only another property sizes.
Element(p, parts, j) ==
  Map([k \in 1 .. Len(p.members) |->
         Entry(p.members[k].name,
               IF \A h \in 1 .. k : SizedAlone(p.members[h])
               THEN parts[(j - 1) * Len(p.members) + k].value ELSE Null)])

\* A structure is an array of them if it has a count.  Its elements are told apart
\* only if all members are.
IsStructureOf(ptr, written, i, p) ==
  LET parts == written[i].parts
      all   == \A k \in DOMAIN p.members : SizedAlone(p.members[k])
  IN /\ p.members # <<>>
     /\ \A k \in DOMAIN p.members : IsMember(p.members[k]) /\ ~WidthsDiffer(ptr, p.members[k])
     /\ parts \in Seq({parts[k] : k \in DOMAIN parts})
     /\ \E c \in Told(written, i, p.count) :
          /\ Len(parts) = c * Len(p.members)
          /\ written[i].value =
               IF p.count = Literally(1) THEN Element(p, parts, 1)
               ELSE List([j \in 1 .. c |-> IF all THEN Element(p, parts, j) ELSE Null])
     /\ \A k \in DOMAIN parts :
          LET m == MemberOf(p, k)
          IN IsValue(ptr, Told(written, i, m.length), m, parts[k].cells, parts[k].value)
     /\ written[i].cells = Flat([k \in DOMAIN parts |-> parts[k].cells])
-----------------------------------------------------------------------------
\* What spans the rest is the last piece.
IsPiece(r, written, i) ==
  LET p == r.schema[i]
      v == written[i].cells
      x == written[i].value
      lengths == Told(written, i, p.length)
      counts  == Told(written, i, p.count)
  IN CASE p.form = "value" ->
            /\ IsValue(r.pointerSize, lengths, p, v, x)
            /\ p.in \in Remaining => i = Len(written)
       [] p.form = "array" -> IsArrayOf(r.pointerSize, lengths, counts, p, v, x)
       [] p.form = "unsupported" -> v \in Seq(Nat) /\ HasLength(p) /\ Len(v) \in lengths /\ x = Null
       [] p.form = "struct" ->
            /\ IsStructureOf(r.pointerSize, written, i, p)
            /\ \A j \in 1 .. i - 1 : r.schema[j].name # p.name

\* A property that no cells are left for: one of a fixed size.
HasNoCells(p) == p.form = "value" /\ (p.in = "pointer" \/ FixedSizeOf(p.in) # {})

\* An event that follows its schema: one piece after the other.  TDH goes by the
\* name, so that no structure has the name of a property before it.
IsWritten(r, written) ==
  /\ written \in Seq({written[i] : i \in DOMAIN written})
  /\ Len(written) <= Len(r.schema)
  /\ \A i \in DOMAIN written : IsPiece(r, written, i)
  /\ Len(written) < Len(r.schema) => HasNoCells(r.schema[Len(written) + 1])
  /\ r.buffer = Flat([i \in DOMAIN written |-> written[i].cells])

\* A property without a piece is null.
Meant(written, i) == IF i \in DOMAIN written THEN written[i].value ELSE Null
=============================================================================
