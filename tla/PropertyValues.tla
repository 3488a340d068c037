--------------------------- MODULE PropertyValues ---------------------------
(***************************************************************************)
(* What the cells of a located property stand for: the handler that the    *)
(* serializer picks by the types of the schema (get_parser, ser.rs) and    *)
(* the decoding it leads to (the TryParse impls of parser.rs, time.rs,     *)
(* socket_address.rs).                                                     *)
(*                                                                         *)
(* Types are classes, as in PropertyWalk: those that decode alike.  Some   *)
(* decodings ask for a number of bytes: a cell has the bytes of its type.  *)
(* A date is one cell, and so is a time in hours: FILETIMEs count hours.   *)
(***************************************************************************)
EXTENDS PropertyWalk

CONSTANTS
  NotUtf8,        \* the cells that are no text
  MaxQuad         \* i64::MAX, as a FILETIME

ASSUME DecodingAssumption == NotUtf8 \subseteq Cells /\ MaxQuad \in Nat

\* What the out types of the schema are; "none" is for those that change nothing.
Hexadecimal == {"hex32", "hex64"}
OutTypes    == {"none", "ip", "socket", "utf8"} \cup Hexadecimal

ASSUME OutTypesAssumption ==
  \A s \in Schemas : \A i \in DOMAIN s : s[i].form = "value" => s[i].out \in OutTypes

Null      == [is |-> "null"]
Error     == [is |-> "error"]
Plain(kind, cells) == [is |-> kind, cells |-> cells]
Numbers(width, cells) == [is |-> "numbers", width |-> width, cells |-> cells]
Map(entries)       == [is |-> "map", entries |-> entries]
List(items)        == [is |-> "list", items |-> items]
Entry(name, value) == [name |-> name, value |-> value]
-----------------------------------------------------------------------------
(* Bytes *)

\* The bytes of one cell; of strings and of binary data a cell is a byte, unless it is a
\* field of a socket address.
CellWidth(in) ==
  CASE in \in {"int16", "widechar"} -> 2
    [] in \in {"int32", "float", "bool", "pointer"} -> 4
    [] in \in {"int64", "double", "filetime", "guid", "systemtime", "ipv6"} -> 8
    [] OTHER -> 1

\* The bytes of a value: a count prefix has two of them, or four in a hex dump; of a
\* SID, the header has eight and each relative ID four.
ByteLengths(in, v) ==
  CASE in \in {"counted", "countedwide"} -> {Len(v) + 1}
    [] in = "blob" -> {Len(v) + 1, Len(v) + 3}
    [] in = "sid" -> {4 * Len(v) + 4}
    [] in \notin Counted -> {CellWidth(in) * Len(v)}
-----------------------------------------------------------------------------
(* Strings *)

IsText(v) == \A k \in DOMAIN v : v[k] \notin NotUtf8

\* str::from_utf8
Text(v) == IF IsText(v) THEN Plain("text", v) ELSE Error

\* What a count prefix announces; {} if the cells end before.
Payload(v) ==
  IF v = <<>> \/ 1 + v[1] > Len(v) THEN {} ELSE {SubSeq(v, 2, 1 + v[1])}

\* trim_matches: without the NULs at either end.
Trimmed(v) ==
  LET kept == DOMAIN v \ Nuls(v)
      low  == CHOOSE k \in kept : \A j \in kept : k <= j
      high == CHOOSE k \in kept : \A j \in kept : j <= k
  IN IF kept = {} THEN <<>> ELSE SubSeq(v, low, high)

\* take_while: up to the first NUL, or all.
UpToNul(v) ==
  LET nul == CHOOSE k \in Nuls(v) : \A j \in Nuls(v) : k <= j
  IN IF Nuls(v) = {} THEN v ELSE SubSeq(v, 1, nul - 1)

\* UTF-16 is decoded with replacement characters: any cells will do.
WideText(v) ==
  IF Len(v) % 2 # 0 THEN Error ELSE Plain("text", UpToNul(Chars(v)))

CountedText(v, wide) ==
  IF Payload(v) = {} THEN Error
  ELSE LET data == CHOOSE d \in Payload(v) : TRUE
       IN IF wide THEN Plain("text", Chars(data)) ELSE Text(data)

\* A SID that is complete is rendered by Windows, which may refuse it.
SidOutcomes(v) ==
  IF v = <<>> \/ Len(v) < 1 + v[1] THEN {Error}
  ELSE {Plain("text", SubSeq(v, 1, 1 + v[1])), Error}

\* TryParse<String>
TextOutcomes(in, v) ==
  CASE in = "wide"        -> {WideText(v)}
    [] in = "ansi"        -> {IF IsText(v) THEN Plain("text", Trimmed(v)) ELSE Error}
    [] in = "widechar"    -> {IF Len(v) = 1 THEN Plain("text", v) ELSE Error}
    [] in = "ansichar"    -> {Text(v)}
    [] in = "sid"         -> SidOutcomes(v)
    [] in = "countedwide" -> {CountedText(v, TRUE)}
    [] in = "counted"     -> {CountedText(v, FALSE)}
    [] in = "restwide"    -> {Plain("text", Chars(v))}
    [] in = "rest"        -> {Text(v)}
    [] OTHER              -> {Error}
-----------------------------------------------------------------------------
(* Times *)

\* The cells of a SYSTEMTIME: its date, packed, and its time of day.
Packed(y, m, d) == y * 512 + m * 32 + d

\* days_from_civil: the days since 1970-01-01, by eras of 400 years that begin
\* in March.
DaysFromCivil(year, m, d) ==
  LET y   == IF m <= 2 THEN year - 1 ELSE year
      era == (IF y >= 0 THEN y ELSE y - 399) \div 400
      yoe == y - era * 400
      mp  == (m + 9) % 12
      doy == (153 * mp + 2) \div 5 + d - 1
      doe == yoe * 365 + yoe \div 4 - yoe \div 100 + doy
  IN era * 146097 + doe - 719468

\* Days and hours between 1601 and 1970.
EpochDays  == 134774
EpochHours == 24 * EpochDays

\* SystemTime::as_filetime_quad, saturating
SystemQuad(date, hour) ==
  LET days == DaysFromCivil(date \div 512, (date \div 32) % 16, date % 32)
      quad == (days + EpochDays) * 24 + hour
  IN IF quad > MaxQuad THEN MaxQuad ELSE quad

UnixTime(quad) == Plain("time", <<quad - EpochHours>>)

\* FileTime::as_quad, signed: the upper half of its values wraps around.
SignedQuad(quad) == IF quad > MaxQuad THEN quad - 2 * (MaxQuad + 1) ELSE quad
-----------------------------------------------------------------------------
(* The other types *)

\* A primitive has the bytes of the type that its handler reads.
NumberOutcomes(in, v, width) ==
  {IF n = width THEN Plain("number", v) ELSE Error : n \in ByteLengths(in, v)}

\* An array is borrowed from the user buffer as elements of that width, if it happens
\* to be aligned there; of elements that hold a count, any number of bytes.
NumbersOutcomes(in, v, width) ==
  {Error} \cup IF in \in Counted \/ (CellWidth(in) * Len(v)) % width = 0
               THEN {Numbers(width, v)} ELSE {}

DecodedGuid(in, v) == IF in = "guid" /\ Len(v) = 2 THEN Plain("guid", v) ELSE Error

DecodedBool(in, v) ==
  IF in = "bool" /\ Len(v) \in {1, 2}
  THEN Plain("bool", <<IF \E k \in DOMAIN v : v[k] # 0 THEN 1 ELSE 0>>) ELSE Error

\* An IPv4 address has four bytes and an IPv6 address sixteen.
IpOutcomes(in, v) ==
  {IF n \in {4, 16} THEN Plain("ip", v) ELSE Error : n \in ByteLengths(in, v)}

\* from_property_buffer: the family, then the port and the address, and for IPv6
\* the flow and the scope too.  What is cut short or of another family stays raw.
DecodedSocket(v) ==
  CASE v = <<>> -> Error
    [] v # <<>> /\ v[1] = 2 /\ Len(v) >= 4 -> Plain("inet", SubSeq(v, 2, 3))
    [] v # <<>> /\ v[1] = 23 /\ Len(v) >= 6 -> Plain("inet6", SubSeq(v, 2, 6))
    [] OTHER -> Plain("raw", v)

DecodedFileTime(in, v) ==
  IF in = "filetime" /\ Len(v) = 1 THEN UnixTime(SignedQuad(v[1])) ELSE Error

DecodedSystemTime(in, v) ==
  IF in = "systemtime" /\ Len(v) = 2 THEN UnixTime(SystemQuad(v[1], v[2])) ELSE Error

\* TryParse<Vec<u8>>: without the count, if there is one.
DecodedBinary(in, v) ==
  CASE in = "blob" /\ Payload(v) # {} -> Plain("binary", CHOOSE d \in Payload(v) : TRUE)
    [] in = "blob" /\ Payload(v) = {} -> Error
    [] in # "blob" -> Plain("binary", v)
-----------------------------------------------------------------------------
(* get_parser: the out type first, then the in type *)

TextTypes ==
  {"ansi", "wide", "ansichar", "widechar", "counted", "countedwide", "sid", "rest", "restwide"}

\* A type that is not known is null, as is no type at all: without an error.
ValueHandler(p) ==
  CASE p.out = "ip" -> "ip"
    [] p.out = "socket" -> "socket"
    [] p.out = "utf8" \/ (p.out = "none" /\ p.in \in TextTypes) -> "text"
    [] p.out \in Hexadecimal \/ (p.out = "none" /\ p.in \in Numeric \cup {"pointer"}) -> "number"
    [] p.out = "none" /\ p.in \in {"blob", "binary", "ipv6"} -> "binary"
    [] p.out = "none" /\ p.in \in {"null", "bool", "guid", "filetime", "systemtime"} -> p.in

\* The elements that are read in arrays.
Elements == {"int16", "int32", "int64", "pointer"}

Handler(p) ==
  CASE p.form = "value" -> ValueHandler(p)
    [] p.form = "array" /\ (p.out \in Hexadecimal \/ p.in \in Elements) -> "numbers"
    [] p.form = "array" /\ p.out \notin Hexadecimal /\ p.in \notin Elements -> "none"
    [] p.form = "unsupported" -> "none"

\* The bytes that a number is read from: a hexadecimal out type goes before the in
\* type, whatever the width of that is.
Width(p) ==
  CASE p.out = "hex32" -> 4
    [] p.out = "hex64" -> 8
    [] p.out \notin Hexadecimal /\ p.in = "pointer" -> 4 * pointerSize
    [] p.out \notin Hexadecimal /\ p.in # "pointer" -> CellWidth(p.in)

\* ser_from_bytes: what the cells of a property that is not a structure may
\* become.  Without a handler it is an error.
Outcomes(p, v) ==
  CASE Handler(p) = "number"     -> NumberOutcomes(p.in, v, Width(p))
    [] Handler(p) = "numbers"    -> NumbersOutcomes(p.in, v, Width(p))
    [] Handler(p) = "text"       -> TextOutcomes(p.in, v)
    [] Handler(p) = "binary"     -> {DecodedBinary(p.in, v)}
    [] Handler(p) = "guid"       -> {DecodedGuid(p.in, v)}
    [] Handler(p) = "bool"       -> {DecodedBool(p.in, v)}
    [] Handler(p) = "ip"         -> IpOutcomes(p.in, v)
    [] Handler(p) = "socket"     -> {DecodedSocket(v)}
    [] Handler(p) = "filetime"   -> {DecodedFileTime(p.in, v)}
    [] Handler(p) = "systemtime" -> {DecodedSystemTime(p.in, v)}
    [] Handler(p) = "null"       -> {Null}
    [] Handler(p) = "none"       -> {Error}
=============================================================================
