-------------------------- MODULE MCPropertyWalk --------------------------
(* Schemas of three properties: a number, which the second property may    *)
(* refer to, a property of any kind, and a number that shows any shift.    *)
EXTENDS PropertyWalk

CONSTANTS A, B

Lit(n) == [by |-> "literal", n |-> n]
Ref(i) == [by |-> "index", n |-> i]

Shape(form, in, length, count, members) ==
  [form |-> form, in |-> in, length |-> length, count |-> count, members |-> members]

Value(in, length)        == Shape("value", in, length, Lit(1), <<>>)
Array(in, length, count) == Shape("array", in, length, count, <<>>)
Struct(members, count)   == Shape("struct", "none", Lit(0), count, members)
Unsupported(length)      == Shape("unsupported", "none", length, Lit(1), <<>>)

Number   == Value("int32", Lit(0))
Pointers == Value("pointer", Lit(0))
Text     == Value("ansi", Lit(0))

Shapes ==
  {Value(in, Lit(0)) : in \in {"int32", "guid", "pointer", "ansi", "wide", "counted",
                               "rest", "ipv6", "null"}}
  \cup {Value(in, Ref(1)) : in \in {"ansi", "wide", "binary", "guid", "counted"}}
  \cup {Value("ansi", Lit(2)), Value("wide", Lit(1)), Value("ansi", Ref(3))}
  \cup {Array(in, Lit(0), Ref(1)) : in \in {"int32", "guid", "pointer", "ansi"}}
  \cup {Array("guid", Lit(0), Lit(2)), Array("wide", Lit(1), Ref(1)),
        Array("wide", Ref(1), Ref(1)), Array("ansi", Lit(0), Lit(2))}
  \cup {Struct(<<Number, Pointers>>, c) : c \in {Lit(1), Lit(2), Ref(1)}}
  \cup {Struct(<<Number, Text>>, Lit(1)), Struct(<<Array("int32", Lit(0), Lit(2)), Unsupported(Lit(1))>>, Lit(1))}
  \cup {Unsupported(l) : l \in {Lit(0), Lit(1), Ref(1)}}

Named(n, s) ==
  [name |-> n, form |-> s.form, in |-> s.in, length |-> s.length, count |-> s.count,
   members |-> s.members]

\* The shapes of which TDH is asked, which goes by the name.
Unsized ==
  {Value("binary", Lit(0)), Value("ansi", Ref(3)), Array("ansi", Lit(0), Lit(2)),
   Struct(<<Number, Text>>, Lit(1)), Unsupported(Lit(0))}

MCSchemas ==
  {<<Named(A, Number), Named(B, s), Named(A, Number)>> : s \in Shapes}
  \cup {<<Named(A, Number), Named(A, s), Named(B, Number)>> : s \in Unsized}

RepeatedNames == {<<Named(A, Number), Named(B, Number), Named(A, Number)>>}
=============================================================================
