------------------------- MODULE MCEventSerializer -------------------------
(* Events of three properties: a number, which the second property may     *)
(* refer to, a property of any kind, and a number of the first one's name, *)
(* that shows any shift.  Some follow their schema, others are any cells.  *)
EXTENDS EventSerializer

CONSTANTS A, B, C, D

Lit(n) == Literally(n)
Ref(i) == [by |-> "index", n |-> i]

Property(name, form, in, out, length, count, members) ==
  [name |-> name, form |-> form, in |-> in, out |-> out, length |-> length,
   count |-> count, members |-> members]

Typed(in, out, length)   == Property(B, "value", in, out, length, Lit(1), <<>>)
Value(in, length)        == Typed(in, "none", length)
Array(in, length, count) == Property(B, "array", in, "none", length, count, <<>>)
Shown(p, out)            == [p EXCEPT !.out = out]
Struct(members, count)   == Property(B, "struct", "none", "none", Lit(0), count, members)
Unsupported(length)      == Property(B, "unsupported", "none", "none", length, Lit(1), <<>>)
Number(name)             == [Value("int32", Lit(0)) EXCEPT !.name = name]
Member(name, in, length) == [Value(in, length) EXCEPT !.name = name]

Around(p) == <<Number(A), p, Number(A)>>
-----------------------------------------------------------------------------
(* What a provider may write: cells, and what they have to become *)

Piece(cells, value) == [cells |-> cells, parts |-> <<>>, value |-> value]
Whole(parts, value) ==
  [cells |-> Flat([k \in DOMAIN parts |-> parts[k].cells]), parts |-> parts, value |-> value]

Num(n)       == Piece(<<n>>, Plain("number", <<n>>))
Bytes(s)     == Piece(s, Plain("binary", s))
Ansi(s)      == Piece(s \o <<0>>, Plain("text", s))
Padded(s, n) == Piece(s \o [k \in 1 .. n - Len(s) |-> 0], Plain("text", s))
Pairs(s)     == [k \in 1 .. 2 * Len(s) |-> IF k % 2 = 1 THEN s[(k + 1) \div 2] ELSE 0] \o <<>>
Sized(s)     == <<Len(s)>> \o s
SizedText(s) == Piece(Sized(s), Plain("text", s))
Counts(s, n) == [k \in 1 .. n |-> s[((k - 1) % Len(s)) + 1]] \o <<>>

Address(s, ptr) == Piece(Counts(s, ptr), Plain("number", Counts(s, ptr)))
Elems(width, s) == Piece(s, Numbers(width, s))

Strings == {<<>>, <<1>>, <<1, 2>>}

\* The days since 1970, counted year by year.
DayOfYear(y, m, d) == DaysBefore(m) + (IF IsLeap(y) /\ m > 2 THEN 1 ELSE 0) + d - 1
YearDays(years) == 365 * Cardinality(years) + Cardinality({y \in years : IsLeap(y)})
CountedDays(y, m, d) == DayOfYear(y, m, d) + YearDays(1970 .. y - 1) - YearDays(y .. 1969)

Dates == {<<1601, 1, 1>>, <<1900, 2, 28>>, <<1900, 3, 1>>, <<1969, 12, 31>>, <<1970, 1, 1>>,
          <<2000, 2, 29>>, <<2000, 12, 31>>, <<2024, 3, 1>>, <<2100, 3, 1>>}

SystemTime(t, h) ==
  Piece(<<Packed(t[1], t[2], t[3]), h>>, Plain("time", <<24 * CountedDays(t[1], t[2], t[3]) + h>>))

\* Its cells do not fit a FILETIME.
FarAway == Piece(<<Packed(65535, 12, 31), 23>>, Plain("time", <<MaxQuad - EpochHours>>))

Pair(n, m) == Map(<<Entry(C, Plain("number", <<n>>)), Entry(D, Plain("number", m))>>)
Line(s, n) == Map(<<Entry(C, Plain("text", s)), Entry(D, Plain("number", <<n>>))>>)

\* A property, the number before it, and its own piece, on a pointer size.
Pieces(ptr) ==
  {<<Value(in, Lit(0)), 1, Num(2)>> : in \in Numeric}
  \cup {<<Typed(in, out, Lit(0)), 1, Num(2)>> : in \in WholeNumbers \ {"pointer"}, out \in Hexadecimal}
  \cup {<<Value(in, Lit(0)), 1, Piece(<<n>>, Plain("text", <<n>>))>> : in \in {"ansichar", "widechar"}, n \in 0 .. 1}
  \cup {<<Value("null", length), 2, Piece(<<2, 1>>, Null)>> : length \in {Lit(2), Ref(1)}}
  \cup {<<Value("bool", Lit(0)), 1, Piece(<<n>>, Plain("bool", <<IF n = 0 THEN 0 ELSE 1>>))>> : n \in 0 .. 2}
  \cup {<<Typed("pointer", out, Lit(0)), 1, Address(<<1, 2>>, ptr)>> : out \in {"none"} \cup Hexadecimal}
  \cup {<<Value("guid", Lit(0)), 1, Piece(<<1, 2>>, Plain("guid", <<1, 2>>))>>}
  \cup {<<Value("filetime", Lit(0)), 1, Piece(<<EpochHours + 5>>, Plain("time", <<5>>))>>}
  \cup {<<Value("systemtime", Lit(0)), 1, p>> : p \in {SystemTime(t, 13) : t \in Dates} \cup {FarAway}}
  \cup {<<Typed("int32", "ip", Lit(0)), 1, Piece(<<2>>, Plain("ip", <<2>>))>>,
        <<Typed("ipv6", "ip", Lit(0)), 1, Piece(<<2, 1>>, Plain("ip", <<2, 1>>))>>}
  \cup {<<Typed("binary", "socket", Ref(1)), Len(s), Piece(s, v)>> :
          <<s, v>> \in {<<<<2, 1, 2, 0>>, Plain("inet", <<1, 2>>)>>,
                        <<<<2, 1, 2, 0, 1>>, Plain("inet", <<1, 2>>)>>,
                        <<<<23, 1, 0, 1, 2, 0>>, Plain("inet6", <<1, 0, 1, 2, 0>>)>>,
                        <<<<2, 1, 2>>, Plain("raw", <<2, 1, 2>>)>>, <<<<1>>, Plain("raw", <<1>>)>>}}
  \cup UNION {{<<Value("ansi", Lit(0)), 1, Ansi(s)>>,
               <<Value("wide", Lit(0)), 1, Piece(Pairs(s) \o <<0, 0>>, Plain("text", s))>>,
               <<Value("ansi", Lit(2)), 1, Padded(s, 2)>>,
               <<Value("ansi", Ref(1)), Len(s), Padded(s, Len(s))>>,
               <<Value("binary", Ref(1)), Len(s), Bytes(s)>>,
               <<Typed("counted", "utf8", Lit(0)), 1, SizedText(s)>>,
               <<Value("countedwide", Lit(0)), 1, Piece(Sized(Pairs(s)), Plain("text", s))>>,
               <<Value("blob", Lit(2)), 1, Piece(Sized(s), Plain("binary", s))>>,
               <<Value("sid", Lit(0)), 1, Piece(Sized(s), Plain("text", Sized(s)))>>,
               <<Array("int32", Lit(0), Ref(1)), Len(s), Elems(4, s)>>,
               <<Shown(Array("int8", Lit(0), Ref(1)), "hex32"), Len(s), Elems(1, s)>>,
               <<Array("int8", Lit(0), Ref(1)), Len(s), Piece(s, Null)>>,
               <<Struct(<<Member(C, "ansi", Lit(0)), Member(D, "int32", Lit(0))>>, Lit(1)), 1,
                 Whole(<<Ansi(s), Num(2)>>, Line(s, 2))>>,
               <<Struct(<<Member(C, "ansi", Lit(0)), Member(D, "int32", Lit(0))>>, Ref(1)), 2,
                 Whole(<<Ansi(s), Num(2), Ansi(<<1>>), Num(1)>>, List(<<Line(s, 2), Line(<<1>>, 1)>>))>>,
               <<Struct(<<Member(C, "counted", Lit(0)), Member(D, "int32", Lit(0))>>, Lit(2)), 1,
                 Whole(<<SizedText(<<>>), Num(2), SizedText(s), Num(1)>>,
                       List(<<Line(<<>>, 2), Line(s, 1)>>))>>} :
              s \in Strings}
  \cup {<<Shown(Array("pointer", Lit(0), Ref(1)), out), n, Elems(4 * ptr, Counts(<<1, 2>>, n * ptr))>> :
          n \in 0 .. 3, out \in {"none"} \cup Hexadecimal}
  \cup {<<Array(in, Lit(0), Lit(2)), 1, Elems(CellWidth(in), <<1, 2>>)>> : in \in {"int16", "int64"}}
  \cup {<<Array(in, Lit(0), Lit(2)), 1, Piece(<<1, 2>>, Null)>> : in \in {"float", "double"}}
  \cup {<<Array("guid", Lit(0), Ref(1)), 2, Piece(<<1, 2, 1, 2>>, Null)>>,
        <<Unsupported(Lit(1)), 1, Piece(<<2>>, Null)>>}
  \cup {<<Struct(<<Member(C, "int32", Lit(0)), Member(D, "pointer", Lit(0))>>, Lit(1)), 1,
          Whole(<<Num(1), Address(<<2, 1>>, ptr)>>, Pair(1, Counts(<<2, 1>>, ptr)))>>,
        <<Struct(<<Member(C, "int32", Lit(0)), Member(D, "pointer", Lit(0))>>, Ref(1)), 2,
          Whole(<<Num(1), Address(<<2, 1>>, ptr), Num(2), Address(<<1, 2>>, ptr)>>,
                List(<<Pair(1, Counts(<<2, 1>>, ptr)), Pair(2, Counts(<<1, 2>>, ptr))>>))>>,
        <<Struct(<<Member(C, "int32", Lit(0)), Member(D, "int32", Lit(0))>>, Ref(1)), 0, Whole(<<>>, List(<<>>))>>,
        \* A member whose length another property tells cannot be located, nor what follows it.
        <<Struct(<<Member(C, "int32", Lit(0)), Member(D, "ansi", Ref(1))>>, Lit(1)), 1,
          Whole(<<Num(1), Padded(<<2>>, 1)>>, Map(<<Entry(C, Plain("number", <<1>>)), Entry(D, Null)>>))>>,
        <<Struct(<<Member(C, "ansi", Ref(1)), Member(D, "int32", Lit(0))>>, Lit(1)), 1,
          Whole(<<Padded(<<1>>, 1), Num(2)>>, Map(<<Entry(C, Null), Entry(D, Null)>>))>>,
        <<Struct(<<Member(C, "int32", Lit(0)), Member(D, "ansi", Ref(1))>>, Ref(1)), 2,
          Whole(<<Num(1), Padded(<<1, 2>>, 2), Num(2), Padded(<<1, 2>>, 2)>>, List(<<Null, Null>>))>>}

Event(schema, ptr, cells, written) ==
  [schema |-> schema, pointerSize |-> ptr, buffer |-> cells,
   source |-> "manifest", items |-> <<>>, written |-> written]

Written ==
  {Event(Around(p[1]), ptr[1], <<p[2]>> \o p[3].cells \o <<2>>,
         {<<Num(p[2]), p[3], Num(2)>>}) :
     <<ptr, p>> \in UNION {{<<ptr>>} \X Pieces(ptr) : ptr \in {1, 2}}}

\* A string that spans the rest leaves no cells for the last property.
ToTheEnd ==
  {Event(Around(Value("rest", Lit(0))), 1, <<1>> \o s, {<<Num(1), Piece(s, Plain("text", s))>>}) :
     s \in Strings}

\* A FILETIME beyond what is signed.
LateTime == {Event(Around(Value("filetime", Lit(0))), 1, <<1, MaxQuad + 1, 2>>, {})}

\* No value in these cells has to make sense.
Shapes ==
  {Value(in, Lit(0)) : in \in {"int32", "guid", "pointer", "ansi", "wide", "counted", "countedwide",
                               "blob", "sid", "rest", "restwide", "binary", "ansichar", "null"}}
  \cup {Typed(in, "hex32", Lit(0)) : in \in {"counted", "blob", "wide"}}
  \cup {Typed("int32", "utf8", Lit(0)), Typed("binary", "ip", Ref(1)),
        Typed("binary", "socket", Ref(1)), Value("int32", Lit(2)), Value("bool", Lit(2)),
        Value("widechar", Lit(2)), Unsupported(Ref(1))}
  \cup {Array("int32", Lit(0), Ref(1)), Array("pointer", Lit(0), Lit(2))}
  \cup {Struct(<<Member(C, "int32", Lit(0)), m>>, c) :
          m \in {Member(D, "ansi", Lit(0)), Member(D, "int32", Lit(0)), Unsupported(Ref(1))},
          c \in {Lit(1), Lit(2), Ref(1), Ref(3), Ref(4)}}

AnyCells == UNION {[1 .. n -> 0 .. 3] : n \in 0 .. 3} \cup [1 .. 4 -> {0, 2}] \cup [1 .. 4 -> 1 .. 2]

Garbage == {Event(Around(p), 1, cells, {}) : p \in Shapes, cells \in AnyCells}
-----------------------------------------------------------------------------
(* Extended data: a blob that is cut short at each place, and what it says *)

Item(type, data, reported) ==
  [type |-> type, data |-> data,
   reported |-> {[type |-> type, value |-> v] : v \in reported}]

Cut(blob, n) == SubSeq(blob, 1, n)

Fixed(type, n) ==
  {Item(type, {Counts(<<1>>, k)}, IF k >= n THEN {Counts(<<1>>, n)} ELSE {}) : k \in {0, n - 1, n, n + 1}}

Stack(type, width) ==
  {Item(type, {Counts(<<1, 2>>, k)},
        IF k < 2 THEN {}
        ELSE {[matchId |-> <<1, 2>>,
               addresses |-> IF width = 1 THEN [i \in 1 .. k - 2 |-> <<IF i % 2 = 1 THEN 1 ELSE 2>>]
                             ELSE [i \in 1 .. (k - 2) \div 2 |-> <<1, 2>>]]}) : k \in 1 .. 5}

Metadata == <<7, 129, 1, 65, 66, 0, 9>>

Items ==
  Fixed("tsId", 1) \cup Fixed("containerId", 4) \cup Fixed("eventKey", 2)
  \cup Fixed("relatedActivityId", 4) \cup Fixed("processStartKey", 2) \cup Fixed("instanceInfo", 6)
  \cup Stack("stackTrace32", 1) \cup Stack("stackTrace64", 2)
  \cup {Item("sid", {Cut(<<2, 0, 5, 6, 7>>, k)}, IF k >= 4 THEN {<<2, 0, 5, 6>>} ELSE {}) : k \in 0 .. 5}
  \cup {Item("traceLogging", {Cut(Metadata, k)}, {IF k >= 6 THEN <<65, 66>> ELSE <<>>}) : k \in 0 .. 7}
  \cup {Item("traceLogging", {<<n>> \o Tail(Metadata)}, {IF n >= 6 THEN <<65, 66>> ELSE <<>>}) :
          n \in {0, 2, 5, 6, 200}}
  \cup {Item("provTraits", {Cut(<<1, 2>>, k)}, {Cut(<<1, 2>>, k)}) : k \in 0 .. 2}
  \cup {Item("unknown", {<<1>>}, {}), Item("tsId", {}, {})}

Described(source, items, written) ==
  [Event(<<Number(A)>>, 1, <<1>>, written) EXCEPT !.source = source, !.items = items]

WithItems ==
  {Described("manifest", <<i, j>>, {<<Num(1)>>}) :
     i \in Items, j \in {x \in Items : x.type = "sid" \/ x.data = {}}}
  \cup {Described("tlg", <<i>>, {<<Num(1)>>}) : i \in Items}

MCRecords == {Written, ToTheEnd, LateTime, Garbage, WithItems}

MCSchemas ==
  {<<Number(A)>>}
  \cup {Around(p) : p \in UNION {Shapes, {Value(in, Lit(0)) : in \in {"rest", "filetime"}},
                                   {q[1] : q \in Pieces(1) \cup Pieces(2)}}}

MCIncludes == {{}, {"Schema", "Header", "Extended"}}

MCCells == 0 .. 23 \cup UNION {{r.buffer[k] : k \in DOMAIN r.buffer} : r \in Written \cup LateTime}

\* A structure with a member that cannot be located.
UnsizedMembers == {{r \in Written : \E p \in Range(r.schema) : p.form = "struct"}}
=============================================================================
