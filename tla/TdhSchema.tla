----------------------------- MODULE TdhSchema -----------------------------
(***************************************************************************)
(* From a TRACE_EVENT_INFO to the properties of a schema (tdh.rs,          *)
(* tdh_types.rs, schema.rs).                                               *)
(*                                                                         *)
(* TDH describes the properties of an event as one flat array: first the   *)
(* top-level ones, then the members of the structures among them, which a  *)
(* structure names by the index where its members start and their number.  *)
(* Two fields of an entry are unions: a flag tells whether `length` and    *)
(* `count` are numbers or the index of the property that holds them.       *)
(*                                                                         *)
(* Indexes of the array count from 0, as TDH's; positions count from 1.    *)
(***************************************************************************)
EXTENDS Concatenation, SequencesExt, FiniteSetsExt

Literally(n) == [by |-> "literal", n |-> n]

\* The index of a property, as a position in the schema.
ByReference(index) == [by |-> "index", n |-> index + 1]

\* The entry says how many elements there are: an array. TDH reports a count
\* of 1 for what is not one.
IsArray(e) == "paramCount" \in e.flags \/ e.count > 1

\* Mutant: the index in the union is read as a number, unless it is above 1.
IsLongArray(e) == e.count > 1

\* PropertyLength and PropertyCount
LengthOf(e) ==
  IF "paramLength" \in e.flags THEN ByReference(e.length) ELSE Literally(e.length)

CountOf(e) ==
  CASE "paramCount" \in e.flags -> ByReference(e.count)
    [] "paramCount" \notin e.flags /\ IsArray(e) -> Literally(e.count)
    [] "paramCount" \notin e.flags /\ ~IsArray(e) -> Literally(1)

\* Property::new: a property that is not a structure. One of a custom schema
\* keeps its place, and its size if the entry gives it.
NewProperty(e) ==
  IF "customSchema" \in e.flags
  THEN [name |-> e.name, form |-> "unsupported", in |-> "none", out |-> "none",
        length |-> LengthOf(e), count |-> Literally(1), members |-> <<>>]
  ELSE [name |-> e.name, form |-> IF IsArray(e) THEN "array" ELSE "value",
        in |-> e.in, out |-> e.out,
        length |-> LengthOf(e), count |-> CountOf(e), members |-> <<>>]

\* parse_members: the region of a structure's members, clamped to the array.
MemberPositions(e, n) ==
  LET start == Min({e.start, n})
  IN start + 1 .. Min({start + e.members, n})

\* parse_property, of every entry: a structure takes its members, which lie
\* behind it, from their own entries.
ParsedProperties(entries) ==
  LET n == Len(entries)
      parse[i \in 1 .. n] ==
        LET e  == entries[i]
            at == MemberPositions(e, n)
        IN IF "struct" \in e.flags
           THEN [name |-> e.name, form |-> "struct", in |-> "none", out |-> "none",
                 length |-> Literally(0), count |-> CountOf(e),
                 members |-> [k \in 1 .. Cardinality(at) |-> parse[Min(at) + k - 1]]]
           ELSE NewProperty(e)
  IN parse

\* Mutant: the members are listed among the top-level properties.
WholeArray(info) == Len(info.entries)

\* PropertyIterator::new: every entry is at the top if TDH does not say.
TopLevelCount(info) ==
  IF info.topLevel = 0 THEN Len(info.entries) ELSE Min({info.topLevel, Len(info.entries)})

\* Schema::properties
PropertiesOf(info) ==
  LET parse == ParsedProperties(info.entries)
  IN [i \in 1 .. TopLevelCount(info) |-> parse[i]]
-----------------------------------------------------------------------------
(* The array TDH describes some properties by, from what its documentation    *)
(* says of it: what parsing it has to give back                               *)

EntryOf(p, start) ==
  [name    |-> p.name,
   flags   |-> (IF p.form = "struct" THEN {"struct"} ELSE {})
               \cup (IF p.form = "unsupported" THEN {"customSchema"} ELSE {})
               \cup (IF p.length.by = "index" THEN {"paramLength"} ELSE {})
               \cup (IF p.count.by = "index" THEN {"paramCount"} ELSE {}),
   in      |-> p.in,
   out     |-> p.out,
   length  |-> IF p.length.by = "index" THEN p.length.n - 1 ELSE p.length.n,
   count   |-> IF p.count.by = "index" THEN p.count.n - 1 ELSE p.count.n,
   start   |-> start,
   members |-> Len(p.members)]

\* The members of each structure follow the top-level properties, in their order.
InfoOf(schema) ==
  LET members(n) == [i \in 1 .. n |->
                       [k \in DOMAIN schema[i].members |-> EntryOf(schema[i].members[k], 0)]]
      tops == [i \in DOMAIN schema |-> EntryOf(schema[i], Len(schema) + Len(Flat(members(i - 1))))]
  IN [entries |-> tops \o Flat(members(Len(schema))), topLevel |-> Len(schema)]

\* What it can describe: a number that is given or referred to, a property that is
\* not a structure, and a structure of such.
IsNumber(x) ==
  /\ x = [by |-> x.by, n |-> x.n]
  /\ x.by \in {"literal", "index"}
  /\ x.n \in Nat
  /\ x.by = "index" => x.n > 0

IsRecord(p) ==
  p = [name |-> p.name, form |-> p.form, in |-> p.in, out |-> p.out,
       length |-> p.length, count |-> p.count, members |-> p.members]

IsSimple(p) ==
  /\ IsRecord(p)
  /\ p.form \in {"value", "array", "unsupported"}
  /\ p.form = "unsupported" => p.in = "none" /\ p.out = "none"
  /\ IsNumber(p.length)
  /\ IF p.form = "array" THEN IsNumber(p.count) /\ (p.count.by = "literal" => p.count.n > 1)
     ELSE p.count = Literally(1)
  /\ p.members = <<>>

IsStructure(p) ==
  /\ IsRecord(p)
  /\ p.form = "struct" /\ p.in = "none" /\ p.out = "none"
  /\ p.length = Literally(0)
  /\ IsNumber(p.count) /\ (p.count.by = "literal" => p.count.n > 0)
  /\ p.members \in Seq(Range(p.members))
  /\ \A k \in DOMAIN p.members : IsSimple(p.members[k])

IsDescribed(schema) ==
  /\ schema \in Seq(Range(schema))
  /\ \A i \in DOMAIN schema : IsSimple(schema[i]) \/ IsStructure(schema[i])
=============================================================================
