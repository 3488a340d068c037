----------------------- MODULE EventSerializerProofs -----------------------
(***************************************************************************)
(* Proofs about EventSerializer: the schema it works from is the one that  *)
(* TDH describes, its parser is asked as any other, a document has every   *)
(* property, without a null in a strict one, and of an event that follows  *)
(* its schema it says what was written, extended data included.            *)
(***************************************************************************)
EXTENDS EventSerializer, PropertyWalkProofs

(* The flat array parses back *)

LEMMA LeastOfTwo ==
  ASSUME NEW a \in Int, NEW b \in Int, a <= b
  PROVE  Min({a, b}) = a
BY DEF Min

LEMMA LeastOfRange ==
  ASSUME NEW a \in Int, NEW b \in Int, a <= b
  PROVE  Min(a .. b) = a
BY DEF Min

\* A property that is not a structure is told by its entry alone.
LEMMA SimpleReadsBack ==
  ASSUME NEW p, IsSimple(p), NEW start
  PROVE  "struct" \notin EntryOf(p, start).flags /\ NewProperty(EntryOf(p, start)) = p
<1> DEFINE e == EntryOf(p, start)
<1>1. /\ "struct" \notin e.flags
      /\ "customSchema" \in e.flags <=> p.form = "unsupported"
      /\ "paramLength" \in e.flags <=> p.length.by = "index"
      /\ "paramCount" \in e.flags <=> p.count.by = "index"
  BY DEF IsSimple, EntryOf
<1>2. /\ e.name = p.name /\ e.in = p.in /\ e.out = p.out
      /\ e.length = IF p.length.by = "index" THEN p.length.n - 1 ELSE p.length.n
      /\ e.count = IF p.count.by = "index" THEN p.count.n - 1 ELSE p.count.n
  BY DEF EntryOf
<1> HIDE DEF e
<1>3. LengthOf(e) = p.length
  BY <1>1, <1>2 DEF LengthOf, ByReference, Literally, IsSimple, IsNumber
<1>4. p.form = "array" => IsArray(e) /\ CountOf(e) = p.count
  BY <1>1, <1>2 DEF CountOf, IsArray, ByReference, Literally, IsSimple, IsNumber
<1>5. p.form # "array" => ~IsArray(e) /\ CountOf(e) = p.count /\ p.count = Literally(1)
  BY <1>1, <1>2 DEF CountOf, IsArray, Literally, IsSimple
<1>6. NewProperty(e) = p
  <2>1. CASE p.form = "unsupported"
    BY <1>1, <1>2, <1>3, <1>5, <2>1 DEF NewProperty, IsSimple, IsRecord
  <2>2. CASE p.form = "array"
    BY <1>1, <1>2, <1>3, <1>4, <2>2 DEF NewProperty, IsSimple, IsRecord
  <2>3. CASE p.form = "value"
    BY <1>1, <1>2, <1>3, <1>5, <2>3 DEF NewProperty, IsSimple, IsRecord
  <2> QED BY <2>1, <2>2, <2>3 DEF IsSimple
<1> QED BY <1>1, <1>6 DEF e

\* The entries of the members of the first n properties.
MembersOf(schema, n) ==
  [i \in 1 .. n |-> [k \in DOMAIN schema[i].members |-> EntryOf(schema[i].members[k], 0)]]

MemberEntries(schema) ==
  UNION {{EntryOf(schema[i].members[k], 0) : k \in DOMAIN schema[i].members} : i \in DOMAIN schema}

\* How many members a property has, and that they are no structures.
LEMMA MembersSimple ==
  ASSUME NEW schema, IsDescribed(schema), NEW i \in DOMAIN schema
  PROVE  /\ Len(schema[i].members) \in Nat
         /\ DOMAIN schema[i].members = 1 .. Len(schema[i].members)
         /\ \A k \in DOMAIN schema[i].members : IsSimple(schema[i].members[k])
<1>1. CASE IsSimple(schema[i])
  BY <1>1 DEF IsSimple
<1>2. CASE IsStructure(schema[i])
  <2>1. schema[i].members \in Seq(Range(schema[i].members))
    BY <1>2 DEF IsStructure
  <2> QED BY <1>2, <2>1, SeqElements DEF IsStructure
<1> QED BY <1>1, <1>2 DEF IsDescribed

LEMMA SchemaIsSeq ==
  ASSUME NEW schema, IsDescribed(schema)
  PROVE  Len(schema) \in Nat /\ DOMAIN schema = 1 .. Len(schema)
<1>1. schema \in Seq(Range(schema))
  BY DEF IsDescribed
<1> QED BY <1>1, SeqElements

LEMMA FunctionIsSeq ==
  ASSUME NEW n \in Nat, NEW S, NEW f, f = [i \in 1 .. n |-> f[i]], \A i \in 1 .. n : f[i] \in S
  PROVE  f \in Seq(S) /\ Len(f) = n /\ DOMAIN f = 1 .. n
<1>1. f \in [1 .. n -> S]
  OBVIOUS
<1> QED BY <1>1

LEMMA MembersList ==
  ASSUME NEW schema, IsDescribed(schema), NEW n \in 0 .. Len(schema)
  PROVE  /\ ListOf(MembersOf(schema, n), MemberEntries(schema))
         /\ Len(MembersOf(schema, n)) = n
         /\ \A i \in 1 .. n :
              /\ Len(MembersOf(schema, n)[i]) = Len(schema[i].members)
              /\ \A k \in 1 .. Len(schema[i].members) :
                   MembersOf(schema, n)[i][k] = EntryOf(schema[i].members[k], 0)
<1> DEFINE X == MemberEntries(schema)
           f == MembersOf(schema, n)
<1>1. n \in Nat /\ \A i \in 1 .. n : i \in DOMAIN schema
  BY SchemaIsSeq
<1>2. ASSUME NEW i \in 1 .. n
      PROVE  /\ f[i] \in Seq(X) /\ Len(f[i]) = Len(schema[i].members)
             /\ \A k \in 1 .. Len(schema[i].members) : f[i][k] = EntryOf(schema[i].members[k], 0)
  <2>1. f[i] = [k \in 1 .. Len(schema[i].members) |-> EntryOf(schema[i].members[k], 0)]
    BY <1>1, MembersSimple DEF MembersOf
  <2>2. \A k \in 1 .. Len(schema[i].members) :
          EntryOf(schema[i].members[k], 0) \in X /\ f[i][k] = EntryOf(schema[i].members[k], 0)
    BY <1>1, <2>1, MembersSimple DEF MemberEntries
  <2>3. Len(schema[i].members) \in Nat
    BY <1>1, MembersSimple
  <2> HIDE DEF f, X
  <2>4. f[i] \in Seq(X) /\ Len(f[i]) = Len(schema[i].members)
    BY <2>1, <2>2, <2>3, FunctionIsSeq
  <2> QED BY <2>2, <2>4
<1>3. f = [i \in 1 .. n |-> f[i]]
  BY DEF MembersOf
<1> HIDE DEF f, X
<1>4. f \in Seq(Seq(X)) /\ Len(f) = n
  BY <1>1, <1>2, <1>3, FunctionIsSeq
<1> QED BY <1>2, <1>4 DEF ListOf, f, X

\* Where everything lies in the array: a property of the schema at its own position,
\* and the members of each from where its entry says.
Laid(schema, array, start) ==
  /\ Len(array) \in Nat /\ Len(array) >= Len(schema)
  /\ \A i \in 1 .. Len(schema) :
       /\ array[i] = EntryOf(schema[i], Len(schema) + start[i])
       /\ start[i] \in Nat
       /\ Len(schema) + start[i] + Len(schema[i].members) <= Len(array)
       /\ \A k \in 1 .. Len(schema[i].members) :
            array[Len(schema) + start[i] + k] = EntryOf(schema[i].members[k], 0)
  /\ \A q \in Len(schema) + 1 .. Len(array) : "struct" \notin array[q].flags

LEMMA InfoLayout ==
  ASSUME NEW schema, IsDescribed(schema)
  PROVE  /\ InfoOf(schema).topLevel = Len(schema)
         /\ Len(schema) = 0 => Len(InfoOf(schema).entries) = 0
         /\ \E start : Laid(schema, InfoOf(schema).entries, start)
<1> DEFINE X == MemberEntries(schema)
           all == MembersOf(schema, Len(schema))
<1>1. PICK N \in Nat : N = Len(schema) /\ DOMAIN schema = 1 .. N
  BY SchemaIsSeq
<1>2. N \in 0 .. Len(schema)
  BY <1>1
<1>3. ListOf(all, X) /\ Len(all) = N
  BY <1>1, <1>2, MembersList
<1>4. \A i \in 1 .. N :
        /\ Len(all[i]) = Len(schema[i].members)
        /\ \A k \in 1 .. Len(schema[i].members) : all[i][k] = EntryOf(schema[i].members[k], 0)
  BY <1>1, <1>2, MembersList
<1>5. PICK start : Starts(start, all)
  BY <1>3, FlatLayout
<1>6. Flat(all) \in Seq(X)
  BY <1>3, FlatLayout
<1>7. ASSUME NEW i \in 1 .. N PROVE Len(Flat(MembersOf(schema, i - 1))) = start[i]
  <2>1. PICK n \in 0 .. N : n = i - 1 /\ n \in 0 .. Len(schema) /\ n + 1 = i
    BY <1>1
  <2>2. ListOf(MembersOf(schema, n), X) /\ Len(MembersOf(schema, n)) = n
    BY <2>1, MembersList
  <2>3. \A j \in 1 .. n : MembersOf(schema, n)[j] = all[j]
    BY <1>1, <2>1 DEF MembersOf
  <2>4. n \in 0 .. Len(all)
    BY <1>3
  <2>5. Len(Flat(MembersOf(schema, n))) = start[n + 1]
    <3> HIDE DEF all, X
    <3> QED BY <1>3, <1>5, <2>2, <2>3, <2>4, FlatPrefix
  <2> QED BY <2>1, <2>5
<1> DEFINE tops == [i \in DOMAIN schema |-> EntryOf(schema[i], N + Len(Flat(MembersOf(schema, i - 1))))]
           T == {EntryOf(schema[i], N + start[i]) : i \in 1 .. N}
<1>8. \A i \in 1 .. N : tops[i] = EntryOf(schema[i], N + start[i])
  BY <1>1, <1>7
<1>9. tops \in Seq(T \cup X) /\ Len(tops) = N
  <2>1. tops = [i \in 1 .. N |-> tops[i]]
    BY <1>1
  <2>2. \A i \in 1 .. N : tops[i] \in T \cup X
    <3> HIDE DEF tops
    <3> QED BY <1>8
  <2> HIDE DEF tops, T, X
  <2> QED BY <1>1, <2>1, <2>2, FunctionIsSeq
<1>10. Flat(all) \in Seq(T \cup X)
  <2> HIDE DEF all, T, X
  <2> QED BY <1>6, WiderSeq
<1>11. InfoOf(schema) = [entries |-> tops \o Flat(all), topLevel |-> N]
  BY <1>1 DEF InfoOf, MembersOf
<1> DEFINE array == tops \o Flat(all)
<1>12. PICK L \in Nat : L = Len(Flat(all)) /\ L = start[N + 1]
  <2>1. Len(Flat(all)) \in Nat
    <3> HIDE DEF all, X
    <3> QED BY <1>6
  <2> QED BY <1>3, <1>5, <2>1 DEF Starts
<1>13. /\ Len(array) = N + L
       /\ \A i \in 1 .. N : array[i] = tops[i]
       /\ \A i \in 1 .. L : array[N + i] = Flat(all)[i]
  <2>1. PICK x, y : x = tops /\ y = Flat(all)
    OBVIOUS
  <2>2. x \in Seq(T \cup X) /\ y \in Seq(T \cup X)
    <3> HIDE DEF tops, all, T, X
    <3> QED BY <1>9, <1>10, <2>1
  <2>3. /\ Len(x \o y) = Len(x) + Len(y)
        /\ \A i \in 1 .. Len(x) : (x \o y)[i] = x[i]
        /\ \A i \in 1 .. Len(y) : (x \o y)[Len(x) + i] = y[i]
    <3> HIDE DEF T, X
    <3> QED BY <2>2, ConcatTypes
  <2>4. array = x \o y
    BY <2>1
  <2> HIDE DEF array, tops, all
  <2> QED BY <1>9, <1>12, <2>1, <2>3, <2>4
<1>14. ASSUME NEW i \in 1 .. N
       PROVE  /\ start[i] \in Nat
              /\ start[i] + Len(schema[i].members) <= L
              /\ \A k \in 1 .. Len(schema[i].members) :
                   array[N + start[i] + k] = EntryOf(schema[i].members[k], 0)
  <2>1. PICK m \in Nat : m = Len(schema[i].members)
    BY <1>1, MembersSimple
  <2>2. start[i] \in Nat /\ start[i + 1] = start[i] + m
        /\ \A k \in 1 .. m : Flat(all)[start[i] + k] = all[i][k]
    BY <1>3, <1>4, <1>5, <2>1 DEF Starts
  <2>3. start[i + 1] <= L
    <3>1. i + 1 \in 1 .. Len(all) + 1
      BY <1>3
    <3> HIDE DEF all, X
    <3> QED BY <1>3, <1>5, <1>12, <3>1, StartsGrow
  <2>4. ASSUME NEW k \in 1 .. m PROVE array[N + start[i] + k] = EntryOf(schema[i].members[k], 0)
    <3>1. PICK c \in 1 .. L : c = start[i] + k /\ N + start[i] + k = N + c
      <4>1. PICK b \in Nat : b = start[i] /\ b + m <= L
        BY <2>2, <2>3
      <4>2. b + k \in 1 .. L /\ N + b + k = N + (b + k)
        BY <4>1
      <4> QED BY <4>1, <4>2
    <3>2. array[N + c] = Flat(all)[c]
      BY <1>13
    <3>3. Flat(all)[c] = EntryOf(schema[i].members[k], 0)
      BY <1>4, <2>1, <2>2, <3>1
    <3> HIDE DEF array, all
    <3> QED BY <3>1, <3>2, <3>3
  <2> HIDE DEF array, all
  <2> QED BY <2>1, <2>2, <2>3, <2>4
<1>15. ASSUME NEW q \in N + 1 .. N + L PROVE "struct" \notin array[q].flags
  <2>1. PICK c \in 1 .. L : q = N + c
    <3>1. q - N \in 1 .. L /\ q = N + (q - N)
      OBVIOUS
    <3> QED BY <3>1
  <2>2. array[q] \in X
    <3>1. Flat(all)[c] \in X
      <4> HIDE DEF all, X
      <4> QED BY <1>6, <1>12, SeqElements
    <3> HIDE DEF array, all, X
    <3> QED BY <1>13, <2>1, <3>1
  <2>3. PICK i \in DOMAIN schema : \E k \in DOMAIN schema[i].members :
          array[q] = EntryOf(schema[i].members[k], 0)
    <3> HIDE DEF array
    <3> QED BY <2>2 DEF MemberEntries
  <2> HIDE DEF array
  <2> QED BY <2>3, MembersSimple, SimpleReadsBack
<1>16. Laid(schema, array, start)
  <2> HIDE DEF array, tops
  <2> QED BY <1>1, <1>8, <1>12, <1>13, <1>14, <1>15 DEF Laid
<1>17. N = 0 => Len(array) = 0
  <2>1. start[1] = 0
    BY <1>5 DEF Starts
  <2> HIDE DEF array
  <2> QED BY <1>12, <1>13, <2>1
<1> HIDE DEF array, tops, all
<1> QED BY <1>1, <1>11, <1>16, <1>17 DEF array

\* What the walk over the array makes of its i-th entry, if it makes `parse` of all.
ParsedAt(array, parse, i) ==
  LET e  == array[i]
      places == MemberPositions(e, Len(array))
  IN IF "struct" \in e.flags
     THEN [name |-> e.name, form |-> "struct", in |-> "none", out |-> "none",
           length |-> Literally(0), count |-> CountOf(e),
           members |-> [k \in 1 .. Cardinality(places) |-> parse[Min(places) + k - 1]]]
     ELSE NewProperty(e)

IsParse(array, parse) == parse = [i \in 1 .. Len(array) |-> ParsedAt(array, parse, i)]

\* A property becomes what it is, if the members of the structures do.
LEMMA PropertyReadsBack ==
  ASSUME NEW schema, IsDescribed(schema), NEW array, NEW start, Laid(schema, array, start),
         NEW parse, \A q \in Len(schema) + 1 .. Len(array) : parse[q] = NewProperty(array[q]),
         NEW i \in 1 .. Len(schema)
  PROVE  ParsedAt(array, parse, i) = schema[i]
<1>1. PICK N, L, p, e, b, m : /\ N = Len(schema) /\ L = Len(array) /\ p = schema[i] /\ e = array[i]
                              /\ b = start[i] /\ m = Len(schema[i].members)
  OBVIOUS
<1>2. e = EntryOf(p, N + b)
  BY <1>1 DEF Laid
<1>3. CASE IsSimple(p)
  <2>1. "struct" \notin e.flags /\ NewProperty(e) = p
    BY <1>2, <1>3, SimpleReadsBack
  <2> QED BY <1>1, <2>1 DEF ParsedAt
<1>4. CASE IsStructure(p)
  <2>1. N \in Nat /\ L \in Nat /\ b \in Nat /\ m \in Nat /\ i \in DOMAIN schema /\ N + b + m <= L
    <3>1. N \in Nat /\ i \in DOMAIN schema
      BY <1>1, SchemaIsSeq
    <3>2. m \in Nat
      BY <1>1, <3>1, MembersSimple
    <3> QED BY <1>1, <3>1, <3>2 DEF Laid
  <2>2. "struct" \in e.flags /\ e.start = N + b /\ e.members = m /\ e.name = p.name
    BY <1>1, <1>2, <1>4 DEF EntryOf, IsStructure
  <2>3. CountOf(e) = p.count
    <3>1. /\ "paramCount" \in e.flags <=> p.count.by = "index"
          /\ e.count = IF p.count.by = "index" THEN p.count.n - 1 ELSE p.count.n
      BY <1>2 DEF EntryOf
    <3> QED BY <1>4, <3>1 DEF CountOf, IsArray, ByReference, Literally, IsStructure, IsNumber
  <2>4. MemberPositions(e, L) = N + b + 1 .. N + b + m
    <3>1. PICK s \in Nat : s = N + b /\ s <= L /\ s + m <= L
      <4>1. N + b \in Nat /\ N + b <= L
        BY <2>1
      <4> QED BY <2>1, <4>1
    <3>2. Min({s, L}) = s /\ Min({s + m, L}) = s + m
      <4>1. s \in Int /\ L \in Int /\ s + m \in Int
        BY <2>1
      <4> QED BY <3>1, <4>1, LeastOfTwo
    <3> QED BY <2>2, <3>1, <3>2 DEF MemberPositions
  <2> DEFINE places == N + b + 1 .. N + b + m
             members == [k \in 1 .. Cardinality(places) |-> parse[Min(places) + k - 1]]
  <2>5. Cardinality(places) = m
    <3>1. N + b + 1 \in Int /\ N + b + m \in Int
      BY <2>1
    <3>2. Cardinality(places) = IF N + b + 1 > N + b + m THEN 0 ELSE (N + b + m) - (N + b + 1) + 1
      BY <3>1, FS_Interval
    <3> HIDE DEF places
    <3> QED BY <2>1, <3>2
  <2>6. ASSUME NEW k \in 1 .. m PROVE parse[Min(places) + k - 1] = p.members[k]
    <3>1. Min(places) = N + b + 1
      <4>1. N + b + 1 \in Int /\ N + b + m \in Int /\ N + b + 1 <= N + b + m
        BY <2>1
      <4> QED BY <4>1, LeastOfRange
    <3>2. PICK q \in N + 1 .. L : q = N + b + k
      BY <2>1
    <3>3. Min(places) + k - 1 = q
      <4> HIDE DEF places
      <4> QED BY <2>1, <3>1, <3>2
    <3>4. parse[q] = NewProperty(array[q]) /\ array[q] = EntryOf(p.members[k], 0)
      BY <1>1, <3>2 DEF Laid
    <3>5. IsSimple(p.members[k])
      BY <1>1, <2>1, MembersSimple
    <3> HIDE DEF places
    <3> QED BY <3>3, <3>4, <3>5, SimpleReadsBack
  <2>7. members = p.members
    <3>1. p.members \in Seq(Range(p.members)) /\ m = Len(p.members)
      BY <1>1, <1>4 DEF IsStructure
    <3>2. p.members = [k \in 1 .. m |-> p.members[k]]
      BY <3>1
    <3>3. members = [k \in 1 .. m |-> parse[Min(places) + k - 1]]
      BY <2>5
    <3> HIDE DEF members, places
    <3> QED BY <2>6, <3>2, <3>3
  <2>8. ParsedAt(array, parse, i)
          = [name |-> p.name, form |-> "struct", in |-> "none", out |-> "none",
             length |-> Literally(0), count |-> p.count, members |-> members]
    BY <1>1, <2>2, <2>3, <2>4 DEF ParsedAt
  <2> HIDE DEF members, places
  <2> QED BY <1>1, <1>4, <2>7, <2>8 DEF IsStructure, IsRecord
<1>5. i \in DOMAIN schema
  BY SchemaIsSeq
<1> QED BY <1>1, <1>3, <1>4, <1>5 DEF IsDescribed

\* Whatever top-level properties with whatever structures TDH describes, parsing the
\* array gives them back (parse_members, PropertyIterator).
LEMMA SchemaReadsBack ==
  ASSUME NEW schema, IsDescribed(schema)
  PROVE  PropertiesOf(InfoOf(schema)) = schema
<1>1. PICK N \in Nat : N = Len(schema) /\ DOMAIN schema = 1 .. N
  BY SchemaIsSeq
<1>2. PICK array : array = InfoOf(schema).entries
  OBVIOUS
<1>3. PICK start : Laid(schema, array, start)
  BY <1>2, InfoLayout
<1>4. PICK L \in Nat : L = Len(array) /\ L >= N
  BY <1>1, <1>3 DEF Laid
<1>5. \A q \in N + 1 .. L : \A f : ParsedAt(array, f, q) = NewProperty(array[q])
  BY <1>1, <1>3, <1>4 DEF Laid, ParsedAt
<1> DEFINE known == [q \in 1 .. L |-> IF q <= N THEN schema[q] ELSE NewProperty(array[q])]
           parse == ParsedProperties(array)
<1>6. IsParse(array, known)
  <2>1. \A q \in N + 1 .. L : known[q] = NewProperty(array[q])
    OBVIOUS
  <2>2. \A q \in 1 .. N : known[q] = schema[q]
    BY <1>4
  <2>3. known = [q \in 1 .. L |-> known[q]]
    OBVIOUS
  <2> HIDE DEF known
  <2>4. \A q \in 1 .. N : ParsedAt(array, known, q) = schema[q]
    BY <1>1, <1>3, <1>4, <2>1, PropertyReadsBack
  <2>5. \A q \in 1 .. L : known[q] = ParsedAt(array, known, q)
    <3> TAKE q \in 1 .. L
    <3>1. q \in 1 .. N \/ q \in N + 1 .. L
      OBVIOUS
    <3> QED BY <1>5, <2>1, <2>2, <2>4, <3>1
  <2> QED BY <1>4, <2>3, <2>5 DEF IsParse
<1>7. IsParse(array, parse)
  <2>1. parse = CHOOSE f : IsParse(array, f)
    BY DEF ParsedProperties, IsParse, ParsedAt
  <2> HIDE DEF parse, known
  <2> QED BY <1>6, <2>1
<1> HIDE DEF parse
<1>8. \A q \in 1 .. L : parse[q] = ParsedAt(array, parse, q)
  BY <1>4, <1>7 DEF IsParse
<1>9. \A q \in N + 1 .. L : parse[q] = NewProperty(array[q])
  BY <1>5, <1>8
<1>10. \A q \in 1 .. N : parse[q] = schema[q]
  <2>1. \A q \in 1 .. N : ParsedAt(array, parse, q) = schema[q]
    BY <1>1, <1>3, <1>4, <1>9, PropertyReadsBack
  <2>2. \A q \in 1 .. N : q \in 1 .. L
    BY <1>4
  <2> QED BY <1>8, <2>1, <2>2
<1>11. TopLevelCount(InfoOf(schema)) = N
  <2>1. InfoOf(schema).topLevel = N /\ (N = 0 => L = 0)
    BY <1>1, <1>2, <1>4, InfoLayout
  <2>2. Min({N, L}) = N
    BY <1>4, LeastOfTwo
  <2> QED BY <1>2, <1>4, <2>1, <2>2 DEF TopLevelCount
<1>12. PropertiesOf(InfoOf(schema)) = [i \in 1 .. N |-> parse[i]]
  BY <1>2, <1>11 DEF PropertiesOf, parse
<1>13. schema = [i \in 1 .. N |-> schema[i]]
  <2>1. schema \in Seq(Range(schema))
    BY DEF IsDescribed
  <2> QED BY <1>1, <2>1
<1> QED BY <1>10, <1>12, <1>13
-----------------------------------------------------------------------------
(* Values *)

LEMMA NoValueIsNull ==
  /\ Error # Null
  /\ \A kind, cells : Plain(kind, cells) # Null
  /\ \A width, cells : Numbers(width, cells) # Null
  /\ \A x : Map(x) # Null
  /\ \A x : List(x) # Null
<1>1. "cells" \notin DOMAIN Null /\ \A kind, cells : "cells" \in DOMAIN Plain(kind, cells)
  BY DEF Null, Plain
<1>2. Null.is = "null" /\ Error.is = "error" /\ (\A width, cells : Numbers(width, cells).is = "numbers")
      /\ (\A x : Map(x).is = "map") /\ (\A x : List(x).is = "list")
  BY DEF Error, Null, Numbers, Map, List
<1> QED BY <1>1, <1>2

LEMMA TextIsNotNull ==
  ASSUME NEW in, NEW v, NEW x \in TextOutcomes(in, v)
  PROVE  x # Null
<1>1. Text(v) # Null /\ WideText(v) # Null
  BY NoValueIsNull DEF Text, WideText
<1>2. CountedText(v, TRUE) # Null /\ CountedText(v, FALSE) # Null
  <2>1. \A d : Text(d) # Null
    BY NoValueIsNull DEF Text
  <2> QED BY <2>1, NoValueIsNull DEF CountedText
<1>3. \A y \in SidOutcomes(v) : y # Null
  BY NoValueIsNull DEF SidOutcomes
<1>4. CASE in = "wide"
  BY <1>1, <1>4 DEF TextOutcomes
<1>5. CASE in \in {"ansi", "widechar"}
  BY NoValueIsNull, <1>5 DEF TextOutcomes
<1>6. CASE in = "sid"
  BY <1>3, <1>6 DEF TextOutcomes
<1>7. CASE in \in {"countedwide", "counted"}
  BY <1>2, <1>7 DEF TextOutcomes
<1>8. CASE in \in {"restwide", "rest", "ansichar"}
  BY <1>1, NoValueIsNull, <1>8 DEF TextOutcomes
<1>9. CASE in \notin {"wide", "ansi", "ansichar", "widechar", "sid", "countedwide", "counted",
                     "restwide", "rest"}
  BY NoValueIsNull, <1>9 DEF TextOutcomes
<1> QED BY <1>4, <1>5, <1>6, <1>7, <1>8, <1>9

\* What is decoded is a value or an error, unless its type is not known.
LEMMA DecodedIsNotNull ==
  ASSUME NEW p, p.form \in {"value", "array", "unsupported"},
         p.form = "value" => p.in \in InTypes /\ p.out \in OutTypes,
         NEW v, NEW x \in Outcomes(p, v)
  PROVE  x # Null \/ IsUnknown(p)
<1>1. \/ Handler(p) \in {"ip", "socket", "text", "number", "binary", "bool", "guid", "filetime",
                        "systemtime", "numbers", "none"}
      \/ IsUnknown(p)
  <2>1. CASE p.form = "value"
    <3>1. p.in \in TextTypes \cup Numeric \cup {"pointer"} \cup {"blob", "binary", "ipv6"}
                   \cup {"null", "bool", "guid", "filetime", "systemtime"}
      BY <2>1 DEF InTypes, Single, TextTypes, ContentSized, Counted, Remaining
    <3>2. Handler(p) = ValueHandler(p)
      BY <2>1 DEF Handler
    <3>3. CASE p.out # "none"
      BY <2>1, <3>2, <3>3 DEF ValueHandler, OutTypes, Hexadecimal
    <3>4. CASE p.out = "none"
      <4>1. p.out \notin Hexadecimal
        BY <3>4 DEF Hexadecimal
      <4>2. CASE p.in \in TextTypes
        BY <3>2, <3>4, <4>1, <4>2 DEF ValueHandler, Numeric, TextTypes
      <4>3. CASE p.in \in Numeric \cup {"pointer"}
        BY <3>2, <3>4, <4>1, <4>3 DEF ValueHandler, Numeric, TextTypes
      <4>4. CASE p.in \in {"blob", "binary", "ipv6", "null", "bool", "guid", "filetime", "systemtime"}
        BY <2>1, <3>2, <3>4, <4>1, <4>4 DEF ValueHandler, Numeric, TextTypes, IsUnknown
      <4> QED BY <3>1, <4>2, <4>3, <4>4
    <3> QED BY <3>3, <3>4
  <2>2. CASE p.form = "array"
    BY <2>2 DEF Handler
  <2>3. CASE p.form = "unsupported"
    BY <2>3 DEF Handler
  <2> QED BY <2>1, <2>2, <2>3
<1>2. CASE Handler(p) \in {"number", "guid", "bool", "ip"}
  BY <1>2, NoValueIsNull DEF Outcomes, NumberOutcomes, DecodedGuid, DecodedBool, IpOutcomes
<1>3. CASE Handler(p) = "numbers"
  BY <1>3, NoValueIsNull DEF Outcomes, NumbersOutcomes
<1>4. CASE Handler(p) = "text"
  BY <1>4, TextIsNotNull DEF Outcomes
<1>5. CASE Handler(p) = "binary"
  BY <1>5, NoValueIsNull DEF Outcomes, DecodedBinary
<1>6. CASE Handler(p) = "socket"
  BY <1>6, NoValueIsNull DEF Outcomes, DecodedSocket
<1>7. CASE Handler(p) \in {"filetime", "systemtime"}
  BY <1>7, NoValueIsNull DEF Outcomes, DecodedFileTime, DecodedSystemTime, UnixTime
<1>8. CASE Handler(p) = "none"
  BY <1>8, NoValueIsNull DEF Outcomes
<1> QED BY <1>1, <1>2, <1>3, <1>4, <1>5, <1>6, <1>7, <1>8

\* So is what is written for a property, a structure or an array of them; in these
\* some members or elements may be null.
LEMMA WrittenIsNotNull ==
  ASSUME properties \in Schemas, NEW i \in 1 .. Len(properties), NEW v, NEW counts,
         NEW x \in PropertyOutcomes(properties[i], v, counts)
  PROVE  x # Null \/ IsUnknown(properties[i])
<1>1. PICK p : p = properties[i]
  OBVIOUS
<1>2. /\ p.form \in {"value", "array", "struct", "unsupported"}
      /\ p.form = "value" => p.in \in InTypes /\ p.out \in OutTypes
  <2>1. i \in DOMAIN properties
    BY SchemaTypes
  <2> QED BY <1>1, <2>1, SchemaTypes, OutTypesAssumption DEF IsProperty
<1>3. CASE p.form # "struct"
  <2>1. x \in Outcomes(p, v)
    BY <1>1, <1>3 DEF PropertyOutcomes, IsStructArray
  <2> QED BY <1>1, <1>2, <1>3, <2>1, DecodedIsNotNull
<1>4. CASE p.form = "struct" /\ ~IsStructArray(p)
  <2>1. x \in StructOutcomes(p, v)
    BY <1>1, <1>4 DEF PropertyOutcomes
  <2> QED BY <2>1, NoValueIsNull DEF StructOutcomes, ElementMap
<1>5. CASE IsStructArray(p) /\ counts = {}
  <2>1. x = Error
    BY <1>1, <1>5 DEF PropertyOutcomes, IsStructArray
  <2> QED BY <2>1, NoValueIsNull
<1>6. CASE IsStructArray(p) /\ counts # {}
  <2>1. x \in StructArrayOutcomes(p, v, The(counts))
    BY <1>1, <1>6 DEF PropertyOutcomes, IsStructArray
  <2> QED BY <2>1, NoValueIsNull DEF StructArrayOutcomes
<1> QED BY <1>3, <1>4, <1>5, <1>6 DEF IsStructArray
-----------------------------------------------------------------------------
(* The document *)

\* The inductive invariant, without what the parser keeps by itself.
Core ==
  /\ properties \in Schemas
  /\ SchemaAsDescribed
  /\ include \in Includes
  /\ strict \in BOOLEAN
  /\ phase \in {"fields", "entries", "bytes", "count", "done", "failed"}
  /\ at \in 0 .. Len(properties)
  /\ fields \subseteq include
  /\ PhaseFollows
  /\ EntriesFollow

LEMMA SeqOfItsOwn ==
  ASSUME NEW S, NEW s \in Seq(S)
  PROVE  s \in Seq(Range(s))
<1>1. Len(s) \in Nat /\ DOMAIN s = 1 .. Len(s) /\ s = [i \in 1 .. Len(s) |-> s[i]]
  OBVIOUS
<1>2. \A i \in 1 .. Len(s) : s[i] \in Range(s)
  BY <1>1 DEF Range
<1> QED BY <1>1, <1>2, FunctionIsSeq

LEMMA CoreAtFirst == SerializerInit => Core
<1> SUFFICES ASSUME SerializerInit PROVE Core
  OBVIOUS
<1>1. PICK family \in Records : record \in family
  BY DEF SerializerInit
<1>2. record.schema \in Schemas /\ IsDescribed(record.schema)
  BY <1>1, RecordsAssumption
<1>3. properties = record.schema
  BY <1>2, SchemaReadsBack DEF SerializerInit
<1>4. Len(properties) \in Nat
  BY <1>2, <1>3, SchemaTypes
<1>5. entries = <<>> /\ <<>> \in Seq(Range(<<>>)) /\ Len(<<>>) = 0
  BY DEF SerializerInit
<1> QED BY <1>2, <1>3, <1>4, <1>5
        DEF SerializerInit, Core, SchemaAsDescribed, PhaseFollows, EntriesFollow, Done

IsSeq(s) == s \in Seq(Range(s))

Appended(s, n, e, t) == IsSeq(s) /\ Len(s) = n /\ t = Append(s, e)

OneMore(s, n, e, t) ==
  /\ IsSeq(t) /\ Len(t) = n + 1 /\ DOMAIN t = 1 .. n + 1
  /\ t[n + 1] = e /\ \A i \in 1 .. n : t[i] = s[i]

\* One more entry, for the next property.
LEMMA EntryAppended ==
  ASSUME NEW s, NEW n \in Nat, NEW e, NEW t, Appended(s, n, e, t)
  PROVE  OneMore(s, n, e, t)
<1> DEFINE S == Range(s) \cup {e}
<1>0. s \in Seq(Range(s)) /\ Len(s) = n /\ t = Append(s, e)
  BY DEF Appended, IsSeq
<1>1. s \in Seq(S) /\ e \in S
  <2> HIDE DEF S
  <2>1. Range(s) \subseteq S /\ e \in S
    BY DEF S
  <2> QED BY <1>0, <2>1, WiderSeq
<1> HIDE DEF S
<1>2. t \in Seq(S) /\ Len(t) = n + 1 /\ t[n + 1] = e /\ \A i \in 1 .. n : t[i] = s[i]
  BY <1>0, <1>1
<1>3. DOMAIN t = 1 .. n + 1
  BY <1>2
<1> QED BY <1>2, <1>3, SeqOfItsOwn DEF IsSeq, OneMore

\* What the steps that write change.
LEMMA WriteKeeps ==
  ASSUME Core, NEW counts, Write(counts), phase \in {"bytes", "count"}, pc = "idle"
  PROVE  Core' /\ UNCHANGED vars
<1>1. PICK x \in PropertyOutcomes(properties[at + 1], ValueOf(at + 1), counts) :
        /\ phase' = IF strict /\ x = Error THEN "failed" ELSE "entries"
        /\ at' = IF strict /\ x = Error THEN at ELSE at + 1
        /\ entries' = IF strict /\ x = Error THEN entries
                      ELSE Append(entries, Entry(properties[at + 1].name, Degraded(x)))
        /\ UNCHANGED <<vars, given, fields, extended>>
  BY DEF Write
<1>2. Len(properties) \in Nat /\ at + 1 \in 1 .. Len(properties) /\ at \in Nat
  BY SchemaTypes DEF Core, PhaseFollows
<1>3. UNCHANGED <<properties, pc, record, include, strict, fields>>
  BY <1>1 DEF vars, event, given
<1>4. CASE strict /\ x = Error
  <2>1. phase' = "failed" /\ at' = at /\ entries' = entries
    BY <1>1, <1>4
  <2> QED BY <1>1, <1>2, <1>3, <1>4, <2>1 DEF Core, SchemaAsDescribed, PhaseFollows, EntriesFollow, Done
<1>5. CASE ~(strict /\ x = Error)
  <2>1. /\ phase' = "entries" /\ at' = at + 1
        /\ entries' = Append(entries, Entry(properties[at + 1].name, Degraded(x)))
    BY <1>1, <1>5
  <2>2. entries \in Seq(Range(entries)) /\ Len(entries) = at
    BY DEF Core, EntriesFollow, Done
  <2>3. /\ entries' \in Seq(Range(entries')) /\ Len(entries') = at + 1 /\ DOMAIN entries' = 1 .. at + 1
        /\ entries'[at + 1] = Entry(properties[at + 1].name, Degraded(x))
        /\ \A i \in 1 .. at : entries'[i] = entries[i]
    <3>1. PICK n \in Nat : n = at
      BY <1>2
    <3>2. PICK old, e, new : old = entries /\ new = entries' /\ new = Append(old, e)
                             /\ e = Entry(properties[at + 1].name, Degraded(x))
      BY <2>1
    <3>3. /\ new \in Seq(Range(new)) /\ Len(new) = n + 1 /\ DOMAIN new = 1 .. n + 1
          /\ new[n + 1] = e /\ \A i \in 1 .. n : new[i] = old[i]
      <4>1. Appended(old, n, e, new)
        BY <2>2, <3>1, <3>2, Zenon DEF IsSeq, Appended
      <4>2. OneMore(old, n, e, new)
        BY <4>1, EntryAppended
      <4> QED BY <4>2 DEF IsSeq, OneMore
    <3> QED BY <3>1, <3>2, <3>3
  <2>4. x # Null \/ IsUnknown(properties[at + 1])
    BY <1>2, WrittenIsNotNull DEF Core
  <2>5. strict /\ Degraded(x) = Null => IsUnknown(properties[at + 1])
    BY <2>4 DEF Degraded
  <2>6. \A i \in DOMAIN entries' :
          /\ entries'[i].name = properties[i].name
          /\ strict /\ entries'[i].value = Null => IsUnknown(properties[i])
    <3> SUFFICES ASSUME NEW i \in 1 .. at + 1
                 PROVE  /\ entries'[i].name = properties[i].name
                        /\ strict /\ entries'[i].value = Null => IsUnknown(properties[i])
      BY <2>3
    <3>1. CASE i = at + 1
      BY <2>3, <2>5, <3>1 DEF Entry
    <3>2. CASE i # at + 1
      <4>1. i \in 1 .. at /\ i \in DOMAIN entries
        BY <1>2, <2>2, <3>2
      <4> QED BY <2>3, <4>1 DEF Core, EntriesFollow
    <3> QED BY <3>1, <3>2
  <2>7. at' \in 0 .. Len(properties)
    BY <1>2, <2>1
  <2>8. PhaseFollows'
    BY <1>3, <2>1 DEF PhaseFollows
  <2>9. EntriesFollow'
    <3>1. Len(entries') = at' /\ phase' # "done" /\ phase' # "failed" /\ strict' = strict
          /\ properties' = properties
      BY <1>3, <2>1, <2>3
    <3> QED BY <2>3, <2>6, <3>1 DEF EntriesFollow, Done
  <2> QED BY <1>1, <1>3, <2>1, <2>7, <2>8, <2>9 DEF Core, SchemaAsDescribed
<1> QED BY <1>1, <1>4, <1>5

\* Every step keeps the invariant, and is a request, a step or no step of the parser.
LEMMA CoreStep ==
  ASSUME Core, [SerializerNext]_allVars
  PROVE  Core' /\ [Next]_vars
<1>0. Len(properties) \in Nat /\ DOMAIN properties = 1 .. Len(properties) /\ at \in Nat
  BY SchemaTypes DEF Core
<1> USE DEF Core, SchemaAsDescribed, PhaseFollows, EntriesFollow, Done, given, document
<1>1. CASE SerializeFields
  <2>1. phase = "fields" /\ UNCHANGED <<vars, given, at, entries>>
    BY <1>1 DEF SerializeFields
  <2>2. phase' \in {"failed", "entries"} /\ (phase' = "failed" => strict) /\ fields' \subseteq include
    BY <1>1 DEF SerializeFields
  <2>3. UNCHANGED <<properties, pc>>
    BY <2>1 DEF vars, event
  <2> QED BY <2>1, <2>2, <2>3
<1>2. ASSUME NEW i \in 1 .. Len(properties), AskFor(i), pc = "idle" PROVE [Next]_vars
  <2>1. i \notin Names
    BY <1>0, NamesAssumption
  <2>2. request' \in Names \cup 1 .. Len(properties) + 1
    BY <1>0, <1>2 DEF AskFor
  <2>3. Ask
    BY <1>2, <2>1, <2>2 DEF Ask, AskFor
  <2> QED BY <2>3 DEF Next
<1>3. CASE AskBytes
  <2>1. at + 1 \in 1 .. Len(properties) /\ AskFor(at + 1) /\ phase = "entries" /\ phase' = "bytes"
        /\ UNCHANGED <<given, at, document>>
    BY <1>0, <1>3 DEF AskBytes
  <2>2. UNCHANGED properties
    BY <2>1 DEF AskFor, event
  <2> QED BY <1>0, <1>2, <2>1, <2>2
<1>4. CASE Walking
  <2>1. Walk /\ UNCHANGED <<record, include, strict, phase, at, fields, entries>>
    BY <1>4 DEF Walking, serializer
  <2>2. pc # "idle" /\ UNCHANGED properties
    BY <2>1 DEF Walk, ProbeHit, ProbeMiss, IndexHit, ParseNext, ParseFails, Exhausted, Pending, event
  <2> QED BY <2>1, <2>2 DEF Next
<1>5. CASE LoseBytes
  <2>1. phase = "bytes" /\ pc = "idle" /\ UNCHANGED <<vars, given, at, fields>>
        /\ phase' = IF strict THEN "failed" ELSE "done"
    BY <1>5 DEF LoseBytes
  <2>2. UNCHANGED <<properties, pc>>
    BY <2>1 DEF vars, event
  <2>3. CASE strict
    <3>1. entries' = entries
      BY <1>5, <2>3 DEF LoseBytes
    <3> QED BY <2>1, <2>2, <2>3, <3>1
  <2>4. CASE ~strict
    <3>1. entries' = [i \in 1 .. Len(properties) |-> IF i <= at THEN entries[i] ELSE NullEntry(i)]
      BY <1>0, <1>5, <2>4 DEF LoseBytes
    <3>2. entries' = [i \in 1 .. Len(properties) |-> entries'[i]]
      BY <3>1
    <3>3. \A i \in 1 .. Len(properties) : entries'[i] \in {entries'[j] : j \in 1 .. Len(properties)}
      OBVIOUS
    <3>4. /\ entries' \in Seq({entries'[j] : j \in 1 .. Len(properties)})
          /\ Len(entries') = Len(properties) /\ DOMAIN entries' = 1 .. Len(properties)
      <4>1. PICK n \in Nat : n = Len(properties)
        BY <1>0
      <4>2. PICK S, t : t = entries' /\ S = {entries'[j] : j \in 1 .. Len(properties)}
        OBVIOUS
      <4>3. t = [i \in 1 .. n |-> t[i]] /\ \A i \in 1 .. n : t[i] \in S
        BY <3>2, <3>3, <4>1, <4>2
      <4>4. t \in Seq(S) /\ Len(t) = n /\ DOMAIN t = 1 .. n
        BY <4>3, FunctionIsSeq
      <4> QED BY <4>1, <4>2, <4>4
    <3>5. entries' \in Seq(Range(entries'))
      BY <3>4, SeqOfItsOwn
    <3>6. \A i \in 1 .. Len(properties) : entries'[i].name = properties[i].name
      <4> TAKE i \in 1 .. Len(properties)
      <4>1. CASE i <= at
        <5>1. i \in DOMAIN entries
          BY <2>1, <4>1
        <5> QED BY <3>1, <4>1, <5>1
      <4>2. CASE ~(i <= at)
        BY <3>1, <4>2 DEF NullEntry, Entry
      <4> QED BY <4>1, <4>2
    <3> QED BY <2>1, <2>2, <2>4, <3>4, <3>5, <3>6
  <2> QED BY <2>3, <2>4
<1>6. CASE AskCount
  <2>1. properties[at + 1].count.n \in 1 .. Len(properties) /\ AskFor(properties[at + 1].count.n)
        /\ pc = "idle" /\ phase = "bytes" /\ phase' = "count" /\ UNCHANGED <<given, at, document>>
    BY <1>0, <1>6 DEF AskCount, CountIsAsked, Got
  <2>2. UNCHANGED properties
    BY <2>1 DEF AskFor, event
  <2> QED BY <1>2, <2>1, <2>2
<1>7. CASE WriteLocated
  <2>1. phase = "bytes" /\ pc = "idle" /\ \E counts : Write(counts)
    BY <1>7 DEF WriteLocated, Got
  <2> QED BY <2>1, WriteKeeps
<1>8. CASE WriteCounted
  <2>1. phase = "count" /\ pc = "idle" /\ \E counts : Write(counts)
    BY <1>8 DEF WriteCounted
  <2> QED BY <2>1, WriteKeeps
<1>9. CASE AllWritten
  <2>1. phase = "entries" /\ at = Len(properties) /\ phase' = "done"
        /\ UNCHANGED <<vars, given, at, fields, entries>>
    BY <1>9 DEF AllWritten
  <2>2. UNCHANGED <<properties, pc>>
    BY <2>1 DEF vars, event
  <2> QED BY <2>1, <2>2
<1>10. CASE UNCHANGED allVars
  <2>1. UNCHANGED <<vars, properties, pc, record, include, strict, phase, at, fields, entries>>
    BY <1>10 DEF allVars, serializer, vars, event
  <2> QED BY <2>1
<1> QED
  BY <1>1, <1>3, <1>4, <1>5, <1>6, <1>7, <1>8, <1>9, <1>10 DEF SerializerNext, SerializeEvent

LEMMA CoreHolds == SerializerSpec => []Core
<1>1. Core /\ [SerializerNext]_allVars => Core'
  BY CoreStep
<1> QED BY <1>1, CoreAtFirst, PTL DEF SerializerSpec

LEMMA SerializerInitIsInit == SerializerInit => Init
<1> SUFFICES ASSUME SerializerInit PROVE Init
  OBVIOUS
<1>1. PICK family \in Records : record \in family
  BY DEF SerializerInit
<1>2. /\ record.buffer \in Seq(Cells) /\ Len(record.buffer) <= MaxBuffer
      /\ record.pointerSize \in {1, 2}
  BY <1>1, RecordsAssumption
<1>3. buffer \in UNION {[1 .. n -> Cells] : n \in 0 .. MaxBuffer}
  <2>1. buffer \in Seq(Cells) /\ Len(buffer) <= MaxBuffer
    BY <1>2 DEF SerializerInit
  <2>2. PICK n \in Nat : n = Len(buffer) /\ buffer \in [1 .. n -> Cells]
    BY <2>1
  <2>3. n \in 0 .. MaxBuffer
    BY <2>1, <2>2, BoundsAssumption
  <2> QED BY <2>2, <2>3
<1>4. dataStart \in {{}, {0}}
  BY DEF SerializerInit, ValuesStart
<1>5. properties \in Schemas
  BY CoreAtFirst DEF Core
<1> QED BY <1>2, <1>3, <1>4, <1>5 DEF SerializerInit, Init
-----------------------------------------------------------------------------
(* Choices *)

LEMMA AppendTypes ==
  ASSUME NEW S, NEW s \in Seq(S), NEW e \in S
  PROVE  /\ Append(s, e) \in Seq(S) /\ Len(Append(s, e)) = Len(s) + 1
         /\ Append(s, e)[Len(s) + 1] = e
         /\ \A i \in 1 .. Len(s) : Append(s, e)[i] = s[i]
OBVIOUS

SetsWithin(sets, n, U) == Len(sets) = n /\ \A k \in 1 .. n : sets[k] \subseteq U

\* One element of each of the first k sets.
IsChoice(c, k, U, sets) == c \in Seq(U) /\ Len(c) = k /\ \A i \in 1 .. k : c[i] \in sets[i]

\* The choices from the first k sets, for each k.
Choosing(f, n, sets) == f[0] = {<<>>} /\ \A k \in 1 .. n : f[k] = ChoicesWith(f[k - 1], sets[k])

LEMMA SelectionsRecursion ==
  ASSUME NEW U, NEW n \in Nat, NEW sets, SetsWithin(sets, n, U)
  PROVE  \E f : Choosing(f, n, sets) /\ Selections(sets) = f[n]
<1> DEFINE Unfolds(f) == f = [k \in 0 .. Len(sets) |->
                                IF k = 0 THEN {<<>>} ELSE ChoicesWith(f[k - 1], sets[k])]
           upTo == CHOOSE f : Unfolds(f)
           G == [x \in (SUBSET Seq(U)) \X (1 .. n) |-> ChoicesWith(x[1], sets[x[2]])]
<1>1. \A x \in SUBSET Seq(U) : \A k \in 1 .. n : G[<<x, k>>] = ChoicesWith(x, sets[k])
  OBVIOUS
<1>2. Makes(G, n, SUBSET Seq(U))
  <2>1. ASSUME NEW x \in SUBSET Seq(U), NEW k \in 1 .. n PROVE ChoicesWith(x, sets[k]) \in SUBSET Seq(U)
    BY AppendTypes DEF ChoicesWith, SetsWithin
  <2> QED BY <2>1 DEF Makes
<1> HIDE DEF G
<1>3. PICK g : Iterates(g, n, SUBSET Seq(U), {<<>>}, G)
  <2>1. {<<>>} \in SUBSET Seq(U)
    OBVIOUS
  <2> QED BY <1>2, <2>1, Recursion
<1>4. PICK N : N = n /\ N = Len(sets)
  BY DEF SetsWithin
<1>5. Unfolds(g)
  <2>1. ASSUME NEW k \in 0 .. n PROVE g[k] = IF k = 0 THEN {<<>>} ELSE ChoicesWith(g[k - 1], sets[k])
    <3>1. CASE k = 0
      BY <1>3, <3>1 DEF Iterates
    <3>2. CASE k # 0
      <4>1. k \in 1 .. n /\ k - 1 \in 0 .. n
        BY <3>2
      <4>2. g[k - 1] \in SUBSET Seq(U) /\ g[k] = G[<<g[k - 1], k>>]
        BY <1>3, <4>1 DEF Iterates
      <4> QED BY <1>1, <3>2, <4>1, <4>2
    <3> QED BY <3>1, <3>2
  <2>2. g = [k \in 0 .. n |-> g[k]]
    BY <1>3 DEF Iterates
  <2>3. g = [k \in 0 .. n |-> IF k = 0 THEN {<<>>} ELSE ChoicesWith(g[k - 1], sets[k])]
    BY <2>1, <2>2
  <2> QED BY <1>4, <2>3, Zenon
<1>6. Unfolds(upTo)
  <2> HIDE DEF Unfolds
  <2> QED BY <1>5
<1>7. Selections(sets) = upTo[n]
  BY DEF Selections, SetsWithin
<1> HIDE DEF upTo
<1>8. upTo = [k \in 0 .. n |-> IF k = 0 THEN {<<>>} ELSE ChoicesWith(upTo[k - 1], sets[k])]
  BY <1>4, <1>6, Zenon
<1> HIDE DEF Unfolds
<1>9. upTo[0] = {<<>>}
  BY <1>8
<1>10. ASSUME NEW k \in 1 .. n PROVE upTo[k] = ChoicesWith(upTo[k - 1], sets[k])
  <2>1. k \in 0 .. n /\ k # 0
    OBVIOUS
  <2> QED BY <1>8, <2>1
<1> QED BY <1>7, <1>9, <1>10 DEF Choosing

\* A choice has one element of each set.
LEMMA SelectionsChoose ==
  ASSUME NEW U, NEW n \in Nat, NEW sets, SetsWithin(sets, n, U),
         NEW c \in Selections(sets)
  PROVE  IsChoice(c, n, U, sets)
<1>1. PICK f : Choosing(f, n, sets) /\ Selections(sets) = f[n]
  BY SelectionsRecursion, Zenon
<1> DEFINE T == {k \in 0 .. n : \A d \in f[k] : IsChoice(d, k, U, sets)}
<1>2. 0 \in T
  <2>1. IsChoice(<<>>, 0, U, sets) /\ 0 \in 0 .. n
    BY DEF IsChoice
  <2>2. \A d \in f[0] : d = <<>>
    BY <1>1 DEF Choosing
  <2> QED BY <2>1, <2>2
<1>3. ASSUME NEW k \in 0 .. n - 1, k \in T PROVE k + 1 \in T
  <2>1. k + 1 \in 1 .. n /\ (k + 1) - 1 = k /\ k \in Nat
    OBVIOUS
  <2>2. f[k + 1] = ChoicesWith(f[k], sets[k + 1])
    BY <1>1, <2>1 DEF Choosing
  <2>3. ASSUME NEW d \in f[k + 1] PROVE IsChoice(d, k + 1, U, sets)
    <3>1. PICK b \in f[k], x \in sets[k + 1] : d = Append(b, x)
      BY <2>2 DEF ChoicesWith
    <3>2. b \in Seq(U) /\ Len(b) = k /\ \A i \in 1 .. k : b[i] \in sets[i]
      BY <1>3 DEF IsChoice
    <3>3. x \in U
      BY <2>1 DEF SetsWithin
    <3>4. /\ d \in Seq(U) /\ Len(d) = k + 1 /\ d[k + 1] = x
          /\ \A i \in 1 .. k : d[i] = b[i]
      BY <3>1, <3>2, <3>3, AppendTypes
    <3>5. ASSUME NEW i \in 1 .. k + 1 PROVE d[i] \in sets[i]
      <4>1. i = k + 1 \/ i \in 1 .. k
        BY <2>1
      <4> QED BY <3>2, <3>4, <4>1
    <3> QED BY <3>4, <3>5 DEF IsChoice
  <2>4. k + 1 \in 0 .. n
    BY <2>1
  <2> QED BY <2>3, <2>4
<1>4. n \in T
  <2> HIDE DEF T
  <2>1. \A k \in 0 .. n : k \in T
    BY <1>2, <1>3, Induction
  <2> QED BY <2>1
<1> QED BY <1>1, <1>4
-----------------------------------------------------------------------------
(* Extended data *)

LEMMA FirstCells ==
  ASSUME NEW S, NEW blob \in Seq(S), NEW n \in 0 .. Len(blob)
  PROVE  /\ SubSeq(blob, 1, n) \in Seq(S) /\ Len(SubSeq(blob, 1, n)) = n
         /\ \A k \in 1 .. n : SubSeq(blob, 1, n)[k] = blob[k]
OBVIOUS

LEMMA SameCells ==
  ASSUME NEW S, NEW s \in Seq(S), NEW t \in Seq(S), Len(s) = Len(t),
         \A k \in 1 .. Len(t) : s[k] = t[k]
  PROVE  s = t
OBVIOUS

LEMMA CellsCut ==
  ASSUME NEW S, NEW blob \in Seq(S), NEW a \in Nat, NEW b \in Nat, 1 <= a, a <= b + 1, b <= Len(blob)
  PROVE  /\ SubSeq(blob, a, b) \in Seq(S) /\ Len(SubSeq(blob, a, b)) = b - a + 1
         /\ \A k \in 1 .. b - a + 1 : SubSeq(blob, a, b)[k] = blob[a + k - 1]
OBVIOUS

\* What lies from a to b is cut out there.
LEMMA PartIsCut ==
  ASSUME NEW S, NEW blob \in Seq(S), NEW a \in Nat, NEW b \in Nat, 1 <= a, a <= b + 1, b <= Len(blob),
         NEW v \in Seq(S), Len(v) = b - a + 1, \A k \in 1 .. b - a + 1 : v[k] = blob[a + k - 1]
  PROVE  v = SubSeq(blob, a, b)
<1>1. PICK t : t = SubSeq(blob, a, b)
  OBVIOUS
<1>2. t \in Seq(S) /\ Len(t) = b - a + 1 /\ \A k \in 1 .. b - a + 1 : t[k] = blob[a + k - 1]
  BY <1>1, CellsCut
<1>3. PICK n : n = b - a + 1
  OBVIOUS
<1>4. \A k \in 1 .. n : v[k] = t[k]
  BY <1>2, <1>3
<1>5. v = t
  BY <1>2, <1>3, <1>4, SameCells
<1> QED BY <1>1, <1>5

\* What begins a blob is cut off from its start.
LEMMA BeginningIsCut ==
  ASSUME NEW blob \in Seq(Nat), NEW v, Begins(v, blob)
  PROVE  v = SubSeq(blob, 1, Len(v)) /\ Len(v) \in 0 .. Len(blob)
<1>1. v \in Seq(Nat) /\ Len(v) \in 0 .. Len(blob)
  BY DEF Begins
<1>2. PICK n \in 0 .. Len(blob) : n = Len(v)
  BY <1>1
<1>3. PICK t : t = SubSeq(blob, 1, n)
  OBVIOUS
<1>4. t \in Seq(Nat) /\ Len(t) = n /\ \A k \in 1 .. n : t[k] = blob[k]
  BY <1>3, FirstCells
<1>5. \A k \in 1 .. n : v[k] = t[k]
  <2>1. DOMAIN v = 1 .. n
    BY <1>1, <1>2
  <2> QED BY <1>4, <2>1 DEF Begins
<1>6. v = t
  BY <1>1, <1>2, <1>4, <1>5, SameCells
<1> QED BY <1>1, <1>2, <1>3, <1>6

LEMMA FixedIsRead ==
  ASSUME NEW blob \in Seq(Nat), NEW n \in Nat, Len(blob) >= n, NEW v, Begins(v, blob), Len(v) = n
  PROVE  ReadFixed(blob, n) = {v}
<1>1. v = SubSeq(blob, 1, n)
  BY BeginningIsCut
<1>2. ~ (Len(blob) < n)
  OBVIOUS
<1> QED BY <1>1, <1>2 DEF ReadFixed

LEMMA SidIsRead ==
  ASSUME NEW blob \in Seq(Nat), blob # <<>>, Len(blob) >= 2 + blob[1],
         NEW v, Begins(v, blob), v # <<>>, Len(v) = 2 + v[1]
  PROVE  Sid(blob) = {v}
<1>1. v = SubSeq(blob, 1, Len(v)) /\ v[1] = blob[1]
  <2>1. 1 \in DOMAIN v
    BY DEF Begins
  <2> QED BY <2>1, BeginningIsCut DEF Begins
<1>2. ~ (blob = <<>> \/ 2 + blob[1] > Len(blob))
  OBVIOUS
<1>3. v = SubSeq(blob, 1, 2 + blob[1])
  BY <1>1
<1> QED BY <1>2, <1>3 DEF Sid

\* How many whole addresses there are.
LEMMA WholeAddresses ==
  ASSUME NEW n \in Nat, NEW w \in {1, 2}, NEW q \in Nat, 0 <= n - w * q, n - w * q < w
  PROVE  q = n \div w
<1>1. CASE w = 1
  BY <1>1
<1>2. CASE w = 2
  <2>1. n = 2 * q \/ n = 2 * q + 1
    BY <1>2
  <2> QED BY <1>2, <2>1
<1> QED BY <1>1, <1>2

LEMMA StackIsRead ==
  ASSUME NEW blob \in Seq(Nat), Len(blob) >= 2, NEW w \in {1, 2}, NEW v, IsStack(v, blob, w)
  PROVE  StackTrace(blob, w) = {v}
<1>1. ReadFixed(blob, 2) = {v.matchId}
  BY FixedIsRead DEF IsStack
<1>2. PICK q \in Nat : q = Len(v.addresses) /\ q = (Len(blob) - 2) \div w /\ w * q <= Len(blob) - 2
  <2>1. Len(v.addresses) \in Nat /\ Len(blob) - 2 \in Nat
    BY DEF IsStack
  <2>2. PICK q, n : q = Len(v.addresses) /\ n = Len(blob) - 2
    OBVIOUS
  <2>3. 0 <= n - w * q /\ n - w * q < w
    BY <2>2 DEF IsStack
  <2>4. q = n \div w
    BY <2>1, <2>2, <2>3, WholeAddresses
  <2>5. w * q \in Nat
    BY <2>1, <2>2
  <2> QED BY <2>1, <2>2, <2>3, <2>4, <2>5
<1>3. PICK adr : adr = v.addresses
  OBVIOUS
<1>4. adr \in Seq(Seq(Nat)) /\ Len(adr) = q
  BY <1>2, <1>3 DEF IsStack
<1>5. ASSUME NEW k \in 1 .. q PROVE adr[k] = SubSeq(blob, 3 + (k - 1) * w, 2 + k * w)
  <2>1. PICK a, b : a = 3 + (k - 1) * w /\ b = 2 + k * w
    OBVIOUS
  <2>2. a \in Nat /\ b \in Nat /\ b - a + 1 = w /\ 1 <= a /\ a <= b + 1
    BY <2>1
  <2>3. k * w <= w * q
    BY <1>2
  <2>4. b <= Len(blob)
    BY <1>2, <2>1, <2>3
  <2>5. adr[k] \in Seq(Nat) /\ Len(adr[k]) = w /\ \A c \in 1 .. w : adr[k][c] = blob[2 + (k - 1) * w + c]
    <3>1. k \in DOMAIN adr
      BY <1>4
    <3> QED BY <1>3, <1>4, <3>1 DEF IsStack
  <2>6. \A c \in 1 .. w : 2 + (k - 1) * w + c = a + c - 1
    BY <2>1
  <2>7. \A c \in 1 .. w : adr[k][c] = blob[a + c - 1]
    BY <2>5, <2>6
  <2>8. adr[k] = SubSeq(blob, a, b)
    BY <2>2, <2>4, <2>5, <2>7, PartIsCut
  <2> QED BY <2>1, <2>8
<1>6. adr = [k \in 1 .. q |-> SubSeq(blob, 3 + (k - 1) * w, 2 + k * w)]
  <2>1. adr = [k \in 1 .. q |-> adr[k]]
    BY <1>4
  <2> QED BY <1>5, <2>1
<1>7. v = [matchId |-> v.matchId, addresses |-> adr]
  BY <1>3 DEF IsStack
<1> QED BY <1>1, <1>2, <1>6, <1>7 DEF StackTrace

LEMMA NameIsRead ==
  ASSUME NEW blob \in Seq(Nat), NEW v, IsName(v, blob)
  PROVE  (IF EventName(blob) = {} THEN {<<>>} ELSE EventName(blob)) = {v}
<1> DEFINE size == IF blob[1] < Len(blob) THEN blob[1] ELSE Len(blob)
           Tags == {k \in 2 .. size : blob[k] < HighBit}
           Nul(t) == {k \in t + 1 .. size : blob[k] = 0}
<1>1. blob # <<>> => /\ size \in Nat /\ size <= blob[1] /\ size <= Len(blob)
                     /\ \A z \in Nat : z <= blob[1] /\ z <= Len(blob) => z <= size
  OBVIOUS
<1>2. MetadataName(blob) = UNION {{SubSeq(blob, t + 1, z - 1) : z \in Least(Nul(t))} : t \in Least(Tags)}
  BY Zenon DEF MetadataName
<1>3. DOMAIN blob = 1 .. Len(blob) /\ Len(blob) \in Nat /\ \A k \in 1 .. Len(blob) : blob[k] \in Nat
  OBVIOUS
<1> HIDE DEF size
<1>4. CASE \E t, z \in DOMAIN blob : NameLies(blob, t, z)
  <2>1. PICK t \in DOMAIN blob, z \in DOMAIN blob :
          /\ NameLies(blob, t, z)
          /\ v \in Seq(Nat) /\ Len(v) = z - t - 1 /\ \A k \in DOMAIN v : v[k] = blob[t + k]
    BY <1>4 DEF IsName
  <2>2. blob # <<>> /\ t \in Nat /\ z \in Nat /\ 2 <= t /\ t < z /\ z <= size /\ z <= Len(blob)
    BY <1>1, <1>3, <2>1 DEF NameLies
  <2>3. Least(Tags) = {t}
    <3>1. t \in Tags
      BY <1>1, <2>1, <2>2 DEF NameLies
    <3>2. \A k \in Tags : t <= k
      <4>1. ASSUME NEW k \in Tags, ~ (t <= k) PROVE FALSE
        <5>1. k \in 2 .. t - 1 /\ k \in 1 .. Len(blob) /\ blob[k] < HighBit
          BY <1>1, <1>3, <2>2, <4>1
        <5> QED BY <1>3, <2>1, <5>1 DEF NameLies, HighBit
      <4> QED BY <4>1
    <3>3. \A k \in Tags : k \in Int
      BY <1>1
    <3> HIDE DEF Tags
    <3> QED BY <2>2, <3>1, <3>2, <3>3 DEF Least
  <2>4. Least(Nul(t)) = {z}
    <3>1. z \in Nul(t)
      BY <1>1, <2>1, <2>2 DEF NameLies
    <3>2. \A k \in Nul(t) : z <= k
      <4>1. ASSUME NEW k \in Nul(t), ~ (z <= k) PROVE FALSE
        <5>1. k \in t + 1 .. z - 1 /\ blob[k] = 0
          BY <1>1, <2>2, <4>1
        <5> QED BY <2>1, <5>1 DEF NameLies
      <4> QED BY <4>1
    <3>3. \A k \in Nul(t) : k \in Int
      BY <1>1, <2>2
    <3> HIDE DEF Nul
    <3> QED BY <2>2, <3>1, <3>2, <3>3 DEF Least
  <2> HIDE DEF Tags, Nul
  <2>5. v = SubSeq(blob, t + 1, z - 1)
    <3>1. PICK a \in Nat, b \in Nat : a = t + 1 /\ b = z - 1
      <4>1. t + 1 \in Nat /\ z - 1 \in Nat
        BY <2>2
      <4> QED BY <4>1
    <3>2. a \in Nat /\ b \in Nat /\ 1 <= a /\ a <= b + 1 /\ b <= Len(blob) /\ Len(v) = b - a + 1
      <4>1. Len(v) = z - t - 1
        BY <2>1
      <4>2. z \in Nat /\ t \in Nat /\ 2 <= t /\ t < z /\ z <= Len(blob) /\ Len(blob) \in Nat
        BY <1>3, <2>2
      <4>3. 1 <= a /\ a <= b + 1
        BY <3>1, <4>2
      <4>4. b <= Len(blob)
        BY <3>1, <4>2
      <4>5. Len(v) = b - a + 1
        <5>1. b - a + 1 = z - t - 1
          <6>1. \A i, j \in Nat : (i - 1) - (j + 1) + 1 = i - j - 1
            OBVIOUS
          <6> QED BY <3>1, <4>2, <6>1
        <5> QED BY <4>1, <5>1
      <4> QED BY <4>3, <4>4, <4>5
    <3>3. DOMAIN v = 1 .. b - a + 1
      BY <2>1, <3>2
    <3>4. \A k \in 1 .. b - a + 1 : a + k - 1 = t + k
      BY <2>2, <3>1
    <3>5. \A k \in 1 .. b - a + 1 : v[k] = blob[a + k - 1]
      BY <2>1, <3>3, <3>4
    <3>6. v = SubSeq(blob, a, b)
      BY <2>1, <3>2, <3>5, PartIsCut
    <3> QED BY <3>1, <3>6
  <2>6. MetadataName(blob) = {v}
    <3>1. MetadataName(blob) = UNION {{SubSeq(blob, i + 1, j - 1) : j \in Least(Nul(i))} : i \in {t}}
      BY <1>2, <2>3, Zenon
    <3>2. MetadataName(blob) = {SubSeq(blob, t + 1, j - 1) : j \in Least(Nul(t))}
      BY <3>1
    <3> QED BY <2>4, <2>5, <3>2
  <2> QED BY <2>2, <2>6 DEF EventName
<1>5. CASE ~ \E t, z \in DOMAIN blob : NameLies(blob, t, z)
  <2>1. v = <<>>
    BY <1>5 DEF IsName
  <2>2. ASSUME blob # <<>>, NEW t \in Least(Tags), NEW z \in Least(Nul(t)) PROVE FALSE
    <3>1. t \in 2 .. size /\ blob[t] < HighBit /\ z \in t + 1 .. size /\ blob[z] = 0
      BY <2>2 DEF Least
    <3>2. t \in DOMAIN blob /\ z \in DOMAIN blob /\ 2 <= t /\ t < z /\ z <= blob[1] /\ z <= Len(blob)
      BY <1>1, <1>3, <2>2, <3>1
    <3>3. \A k \in 2 .. t - 1 : blob[k] >= HighBit
      <4>1. ASSUME NEW k \in 2 .. t - 1, ~ (blob[k] >= HighBit) PROVE FALSE
        <5>1. k \in 2 .. size /\ k \in 1 .. Len(blob) /\ k < t
          BY <1>1, <1>3, <2>2, <3>1, <3>2
        <5>2. k \in Tags
          BY <1>3, <4>1, <5>1 DEF HighBit
        <5>3. t <= k
          BY <2>2, <5>2 DEF Least
        <5> QED BY <3>1, <5>1, <5>3
      <4> QED BY <4>1
    <3>4. \A k \in t + 1 .. z - 1 : blob[k] # 0
      <4>1. ASSUME NEW k \in t + 1 .. z - 1, blob[k] = 0 PROVE FALSE
        <5>1. k \in t + 1 .. size /\ k < z
          BY <1>1, <2>2, <3>1
        <5>2. k \in Nul(t)
          BY <4>1, <5>1
        <5>3. z <= k
          BY <2>2, <5>2 DEF Least
        <5> QED BY <3>1, <5>1, <5>3
      <4> QED BY <4>1
    <3> QED BY <1>5, <3>1, <3>2, <3>3, <3>4 DEF NameLies
  <2> HIDE DEF Tags, Nul
  <2>3. EventName(blob) = {}
    BY <1>2, <2>2 DEF EventName
  <2> QED BY <2>1, <2>3
<1> QED BY <1>4, <1>5

\* The types of items are told apart.
LEMMA ItemTypes ==
  ASSUME NEW type
  PROVE  /\ type \in DOMAIN FixedItems =>
              /\ FixedItems[type] \in Nat
              /\ type \notin DOMAIN AddressCells /\ type \notin {"sid", "traceLogging", "provTraits"}
         /\ type \in DOMAIN AddressCells =>
              AddressCells[type] \in {1, 2} /\ type \notin {"sid", "traceLogging", "provTraits"}
BY DEF FixedItems, AddressCells

LEMMA ItemCases ==
  ASSUME NEW type, NEW blob, NEW v
  PROVE  /\ type \in DOMAIN FixedItems =>
              /\ Reading(type, blob) = Named(type, ReadFixed(blob, FixedItems[type]))
              /\ Holds(type, blob) = (Len(blob) >= FixedItems[type])
              /\ Says(type, blob, v) = (Begins(v, blob) /\ Len(v) = FixedItems[type])
         /\ type \in DOMAIN AddressCells =>
              /\ Reading(type, blob) = Named(type, StackTrace(blob, AddressCells[type]))
              /\ Holds(type, blob) = (Len(blob) >= 2)
              /\ Says(type, blob, v) = IsStack(v, blob, AddressCells[type])
         /\ type = "sid" =>
              /\ Reading(type, blob) = Named(type, Sid(blob))
              /\ Holds(type, blob) = (blob # <<>> /\ Len(blob) >= 2 + blob[1])
              /\ Says(type, blob, v) = (Begins(v, blob) /\ v # <<>> /\ Len(v) = 2 + v[1])
         /\ type = "traceLogging" =>
              /\ Reading(type, blob) =
                   Named(type, IF EventName(blob) = {} THEN {<<>>} ELSE EventName(blob))
              /\ Holds(type, blob) /\ Says(type, blob, v) = IsName(v, blob)
         /\ type = "provTraits" =>
              /\ Reading(type, blob) = Named(type, {blob})
              /\ Holds(type, blob) /\ Says(type, blob, v) = (v = blob)
         /\ type \notin DOMAIN FixedItems \cup DOMAIN AddressCells \cup {"sid", "traceLogging", "provTraits"} =>
              Reading(type, blob) = {} /\ ~Holds(type, blob)
<1>1. CASE type \in DOMAIN FixedItems
  BY <1>1, ItemTypes, Zenon DEF Reading, Holds, Says
<1>2. CASE type \in DOMAIN AddressCells
  BY <1>2, ItemTypes, Zenon DEF Reading, Holds, Says
<1>3. CASE type \in {"sid", "traceLogging", "provTraits"}
  <2>1. type \notin DOMAIN FixedItems /\ type \notin DOMAIN AddressCells
    BY <1>3, ItemTypes
  <2> QED BY <1>3, <2>1 DEF Reading, Holds, Says
<1>4. CASE type \notin DOMAIN FixedItems \cup DOMAIN AddressCells \cup {"sid", "traceLogging", "provTraits"}
  BY <1>4 DEF Reading, Holds
<1> QED BY <1>1, <1>2, <1>3, <1>4, Zenon

LEMMA NothingIsNamed ==
  ASSUME NEW type
  PROVE  Named(type, {}) = {}
BY DEF Named

\* A blob that is too short says nothing.
LEMMA NothingIsRead ==
  ASSUME NEW type, NEW blob \in Seq(Nat), ~Holds(type, blob)
  PROVE  Reading(type, blob) = {}
<1>1. CASE type \in DOMAIN FixedItems
  <2>1. Reading(type, blob) = Named(type, ReadFixed(blob, FixedItems[type]))
        /\ ~ (Len(blob) >= FixedItems[type]) /\ FixedItems[type] \in Nat
    BY <1>1, ItemCases, ItemTypes
  <2>2. Len(blob) < FixedItems[type]
    BY <2>1
  <2>3. ReadFixed(blob, FixedItems[type]) = {}
    BY <2>2 DEF ReadFixed
  <2> QED BY <2>1, <2>3, NothingIsNamed
<1>2. CASE type \in DOMAIN AddressCells
  <2>1. Reading(type, blob) = Named(type, StackTrace(blob, AddressCells[type])) /\ ~ (Len(blob) >= 2)
    BY <1>2, ItemCases
  <2>2. Len(blob) < 2
    BY <2>1
  <2>3. ReadFixed(blob, 2) = {}
    BY <2>2 DEF ReadFixed
  <2>4. StackTrace(blob, AddressCells[type]) = {}
    BY <2>3 DEF StackTrace
  <2> QED BY <2>1, <2>4, NothingIsNamed
<1>3. CASE type = "sid"
  <2>1. Reading(type, blob) = Named(type, Sid(blob)) /\ ~ (blob # <<>> /\ Len(blob) >= 2 + blob[1])
    BY <1>3, ItemCases
  <2>2. blob = <<>> \/ 2 + blob[1] > Len(blob)
    BY <2>1
  <2>3. Sid(blob) = {}
    BY <2>2 DEF Sid
  <2> QED BY <2>1, <2>3, NothingIsNamed
<1>4. CASE type \in {"traceLogging", "provTraits"}
  BY <1>4, ItemCases
<1>5. CASE type \notin DOMAIN FixedItems \cup DOMAIN AddressCells \cup {"sid", "traceLogging", "provTraits"}
  BY <1>5, ItemCases
<1> QED BY <1>1, <1>2, <1>3, <1>4, <1>5

LEMMA WhatIsSaidIsRead ==
  ASSUME NEW type, NEW blob \in Seq(Nat), Holds(type, blob), NEW v, Says(type, blob, v)
  PROVE  Reading(type, blob) = Named(type, {v})
<1>1. CASE type \in DOMAIN FixedItems
  <2>1. Reading(type, blob) = Named(type, ReadFixed(blob, FixedItems[type]))
        /\ FixedItems[type] \in Nat /\ Len(blob) >= FixedItems[type]
        /\ Begins(v, blob) /\ Len(v) = FixedItems[type]
    BY <1>1, ItemCases, ItemTypes
  <2> QED BY <2>1, FixedIsRead
<1>2. CASE type \in DOMAIN AddressCells
  <2>1. Reading(type, blob) = Named(type, StackTrace(blob, AddressCells[type]))
        /\ Holds(type, blob) = (Len(blob) >= 2)
        /\ Says(type, blob, v) = IsStack(v, blob, AddressCells[type])
    BY <1>2, ItemCases, Zenon
  <2>2. AddressCells[type] \in {1, 2} /\ Len(blob) >= 2 /\ IsStack(v, blob, AddressCells[type])
    BY <1>2, <2>1, ItemTypes
  <2> QED BY <2>1, <2>2, StackIsRead
<1>3. CASE type = "sid"
  <2>1. Reading(type, blob) = Named(type, Sid(blob)) /\ blob # <<>> /\ Len(blob) >= 2 + blob[1]
        /\ Begins(v, blob) /\ v # <<>> /\ Len(v) = 2 + v[1]
    BY <1>3, ItemCases
  <2> QED BY <2>1, SidIsRead
<1>4. CASE type = "traceLogging"
  <2>1. Reading(type, blob) = Named(type, IF EventName(blob) = {} THEN {<<>>} ELSE EventName(blob))
        /\ IsName(v, blob)
    BY <1>4, ItemCases
  <2>2. (IF EventName(blob) = {} THEN {<<>>} ELSE EventName(blob)) = {v}
    BY <2>1, NameIsRead
  <2> QED BY <2>1, <2>2, Zenon
<1>5. CASE type = "provTraits"
  <2>1. Reading(type, blob) = Named(type, {blob}) /\ Says(type, blob, v) = (v = blob)
    BY <1>5, ItemCases, ZenonT(60)
  <2> QED BY <2>1
<1>6. type \in DOMAIN FixedItems \cup DOMAIN AddressCells \cup {"sid", "traceLogging", "provTraits"}
  BY ItemCases
<1> QED BY <1>1, <1>2, <1>3, <1>4, <1>5, <1>6

\* Each item is read as what its blob says, and not at all if it says nothing.
LEMMA ItemIsRead ==
  ASSUME NEW item, IsReported(item)
  PROVE  ItemOf(item) = item.reported
<1>1. CASE item.data = {}
  BY <1>1 DEF ItemOf, IsReported
<1>2. CASE item.data # {}
  <2>1. PICK blob \in item.data : TRUE
    BY <1>2
  <2>2. PICK type, rep : type = item.type /\ rep = item.reported
    OBVIOUS
  <2>3. /\ item.data = {blob} /\ blob \in Seq(Nat)
        /\ ~Holds(type, blob) => rep = {}
        /\ Holds(type, blob) =>
             \E x \in rep : rep = {x} /\ x = [type |-> type, value |-> x.value] /\ Says(type, blob, x.value)
    BY <2>1, <2>2 DEF IsReported
  <2>4. ItemOf(item) = Reading(type, blob)
    BY <2>2, <2>3 DEF ItemOf
  <2>5. CASE ~Holds(type, blob)
    BY <2>2, <2>3, <2>4, <2>5, NothingIsRead
  <2>6. CASE Holds(type, blob)
    <3>1. PICK x \in rep : rep = {x} /\ x = [type |-> type, value |-> x.value] /\ Says(type, blob, x.value)
      BY <2>3, <2>6
    <3>2. rep = Named(type, {x.value})
      BY <3>1 DEF Named
    <3> QED BY <2>2, <2>3, <2>4, <2>6, <3>1, <3>2, WhatIsSaidIsRead
  <2> QED BY <2>5, <2>6
<1> QED BY <1>1, <1>2

\* The items of an event that was handed over.
LEMMA ItemsAreReported ==
  ASSUME NEW family \in Records, NEW r \in family
  PROVE  /\ Len(r.items) \in Nat /\ DOMAIN r.items = 1 .. Len(r.items)
         /\ \A k \in DOMAIN r.items : ItemOf(r.items[k]) = r.items[k].reported
<1>1. r.items \in Seq({r.items[k] : k \in DOMAIN r.items}) /\ \A k \in DOMAIN r.items : IsReported(r.items[k])
  BY ItemsAssumption
<1>2. Len(r.items) \in Nat /\ DOMAIN r.items = 1 .. Len(r.items)
  <2>1. PICK S, s : s = r.items /\ S = {r.items[k] : k \in DOMAIN r.items}
    OBVIOUS
  <2>2. s \in Seq(S)
    BY <1>1, <2>1
  <2>3. Len(s) \in Nat /\ DOMAIN s = 1 .. Len(s)
    BY <2>2
  <2> QED BY <2>1, <2>3
<1> QED BY <1>1, <1>2, ItemIsRead

\* What the field Extended has, once it is written.
ExtendedIInv ==
  /\ \E family \in Records : record \in family
  /\ ExtendedFaithful

LEMMA FieldsAreFaithful ==
  ASSUME \E family \in Records : record \in family, SerializeFields
  PROVE  ExtendedFaithful'
<1>1. PICK items \in ItemSelections :
        LET refused == strict /\ \E k \in DOMAIN items : items[k] = {}
        IN /\ phase' = IF refused THEN "failed" ELSE "entries"
           /\ extended' = IF refused THEN <<>> ELSE Values(items)
  BY DEF SerializeFields
<1>2. UNCHANGED <<record, include, strict>>
  BY DEF SerializeFields, given
<1> SUFFICES ASSUME phase' \notin {"fields", "failed"}, "Extended" \in include
             PROVE  ExtendedFaithful'
  BY <1>2 DEF ExtendedFaithful
<1>3. ~ (strict /\ \E k \in DOMAIN items : items[k] = {}) /\ extended' = Values(items)
  BY <1>1
<1> DEFINE list == record.items
           n == Len(list)
           sets == [k \in DOMAIN list |-> ItemOutcomes(k)]
           U == UNION {sets[k] : k \in 1 .. n}
           passed == {k \in 1 .. n : items[k] = {}}
<1>4. /\ n \in Nat /\ DOMAIN list = 1 .. n
      /\ \A k \in 1 .. n : ItemOf(list[k]) = list[k].reported
  BY ItemsAreReported
<1>5. items \in Selections(sets)
  BY DEF ItemSelections
<1>6. SetsWithin(sets, n, U)
  BY <1>4 DEF SetsWithin
<1>7. IsChoice(items, n, U, sets)
  <2> HIDE DEF U, sets
  <2> QED BY <1>4, <1>5, <1>6, SelectionsChoose
<1>8. Len(items) = n /\ DOMAIN items = 1 .. n /\ items = [k \in 1 .. n |-> items[k]]
  BY <1>4, <1>7 DEF IsChoice
<1>9. ASSUME NEW k \in 1 .. n
      PROVE  /\ items[k] # {} => items[k] = list[k].reported
             /\ items[k] = {} => list[k].reported = {} \/ list[k].type = "sid"
  <2>1. items[k] \in ItemOutcomes(k)
    BY <1>4, <1>7 DEF IsChoice
  <2>2. ItemOf(list[k]) = list[k].reported
    BY <1>4
  <2> QED BY <2>1, <2>2 DEF ItemOutcomes
<1>10. items = [k \in 1 .. n |-> IF k \in passed THEN {} ELSE list[k].reported]
  BY <1>8, <1>9
<1>11. strict => passed = {}
  BY <1>3, <1>8
<1>12. passed \subseteq 1 .. n /\ \A k \in passed : list[k].reported = {} \/ list[k].type = "sid"
  BY <1>9
<1>13. \A k \in 1 .. n : list[k].reported = {} => k \in passed
  BY <1>9
<1>14. record' = record /\ strict' = strict /\ include' = include
  BY <1>2
<1> HIDE DEF passed
<1> QED BY <1>3, <1>4, <1>10, <1>11, <1>12, <1>13, <1>14 DEF ExtendedFaithful

LEMMA ExtendedStep ==
  ASSUME ExtendedIInv, [SerializerNext]_allVars
  PROVE  ExtendedIInv'
<1>1. CASE SerializeFields
  <2>1. record' = record
    BY <1>1 DEF SerializeFields, given
  <2> QED BY <1>1, <2>1, FieldsAreFaithful DEF ExtendedIInv
<1>2. CASE ~SerializeFields
  <2>1. UNCHANGED <<record, include, strict, extended>>
    BY <1>2 DEF SerializerNext, SerializeEvent, AskBytes, Walking, LoseBytes, AskCount, WriteLocated,
                WriteCounted, Write, AllWritten, allVars, serializer, given, document
  <2>2. phase' = phase \/ phase \in {"entries", "bytes", "count"}
    BY <1>2 DEF SerializerNext, SerializeEvent, AskBytes, Walking, LoseBytes, AskCount, WriteLocated,
                WriteCounted, AllWritten, allVars, serializer
  <2>3. phase' \notin {"fields", "failed"} => phase \notin {"fields", "failed"}
    BY <2>2
  <2> QED BY <2>1, <2>3 DEF ExtendedIInv, ExtendedFaithful
<1> QED BY <1>1, <1>2
-----------------------------------------------------------------------------
(* What a piece takes of the rest *)

LEMMA StartsWith ==
  ASSUME NEW v, NEW cells \in Seq(Nat), Begins(v, cells)
  PROVE  /\ v \in Seq(Nat) /\ Len(v) \in Nat /\ Len(cells) \in Nat /\ Len(v) <= Len(cells)
         /\ DOMAIN v = 1 .. Len(v) /\ DOMAIN cells = 1 .. Len(cells)
         /\ \A k \in 1 .. Len(v) : v[k] = cells[k] /\ v[k] \in Nat
         /\ \A k \in 1 .. Len(cells) : cells[k] \in Nat
BY DEF Begins

\* A string is as long as the cells before and with its terminator.
LEMMA TextSize ==
  ASSUME NEW v, NEW cells \in Seq(Nat), Begins(v, cells), Nuls(v) = {Len(v)}
  PROVE  FirstOf(Nuls(cells)) = {Len(v)}
<1>1. Len(v) \in 1 .. Len(v) /\ v[Len(v)] = 0
  BY StartsWith DEF Nuls
<1>2. Len(v) \in Nuls(cells)
  BY <1>1, StartsWith DEF Nuls
<1>3. \A k \in Nuls(cells) : k \in Nat /\ Len(v) <= k
  <2> TAKE k \in Nuls(cells)
  <2>1. k \in 1 .. Len(cells) /\ cells[k] = 0
    BY StartsWith DEF Nuls
  <2>2. CASE k <= Len(v)
    <3>1. k \in 1 .. Len(v) /\ v[k] = 0
      BY <2>1, <2>2, StartsWith
    <3>2. k \in Nuls(v)
      BY <3>1, StartsWith DEF Nuls
    <3> QED BY <3>1, <3>2, StartsWith
  <2>3. CASE ~ (k <= Len(v))
    BY <2>1, <2>3, StartsWith
  <2> QED BY <2>2, <2>3
<1>4. Len(v) \in Nat
  BY StartsWith
<1> QED BY <1>2, <1>3, <1>4 DEF FirstOf

LEMMA CharsOf ==
  ASSUME NEW v \in Seq(Nat)
  PROVE  /\ Len(v) \div 2 \in Nat /\ Len(Chars(v)) = Len(v) \div 2
         /\ DOMAIN Chars(v) = 1 .. Len(v) \div 2
         /\ \A k \in 1 .. Len(v) \div 2 : /\ 2 * k - 1 \in 1 .. Len(v) /\ 2 * k \in 1 .. Len(v)
                                          /\ Chars(v)[k] = v[2 * k - 1] + v[2 * k]
                                          /\ Chars(v)[k] \in Nat
         /\ Chars(v) \in Seq(Nat)
<1>1. Len(v) \in Nat
  OBVIOUS
<1>2. PICK h \in Nat : h = Len(v) \div 2 /\ 2 * h <= Len(v)
  BY <1>1
<1>3. \A k \in 1 .. h : 2 * k - 1 \in 1 .. Len(v) /\ 2 * k \in 1 .. Len(v)
  BY <1>1, <1>2
<1>4. \A k \in 1 .. h : v[2 * k - 1] + v[2 * k] \in Nat
  <2> TAKE k \in 1 .. h
  <2>1. v[2 * k - 1] \in Nat /\ v[2 * k] \in Nat
    BY <1>3
  <2> QED BY <2>1
<1>5. Chars(v) = [k \in 1 .. h |-> v[2 * k - 1] + v[2 * k]]
  BY <1>2 DEF Chars
<1>6. Chars(v) \in Seq(Nat) /\ Len(Chars(v)) = h /\ DOMAIN Chars(v) = 1 .. h
  BY <1>2, <1>4, <1>5
<1>7. \A k \in 1 .. h : Chars(v)[k] = v[2 * k - 1] + v[2 * k]
  BY <1>5
<1> QED BY <1>2, <1>3, <1>4, <1>6, <1>7

LEMMA WideSize ==
  ASSUME NEW v, NEW cells \in Seq(Nat), Begins(v, cells),
         Len(v) % 2 = 0, Nuls(Chars(v)) = {Len(Chars(v))}
  PROVE  {IF k = Failed THEN Failed ELSE 2 * k : k \in FirstOf(Nuls(Chars(cells)))} = {Len(v)}
<1>1. Chars(v) \in Seq(Nat) /\ Chars(cells) \in Seq(Nat)
  BY StartsWith, CharsOf
<1>2. PICK h \in Nat, g \in Nat : /\ h = Len(v) \div 2 /\ g = Len(cells) \div 2 /\ h <= g /\ Len(v) = 2 * h
  <2>1. Len(v) \div 2 \in Nat /\ Len(cells) \div 2 \in Nat
    BY StartsWith
  <2>2. Len(v) \div 2 <= Len(cells) \div 2 /\ Len(v) = 2 * (Len(v) \div 2)
    BY StartsWith
  <2> QED BY <2>1, <2>2
<1>3. Begins(Chars(v), Chars(cells))
  <2>1. Len(Chars(v)) = h /\ Len(Chars(cells)) = g /\ DOMAIN Chars(v) = 1 .. h
    BY <1>2, StartsWith, CharsOf
  <2>2. ASSUME NEW k \in 1 .. h PROVE Chars(v)[k] = Chars(cells)[k]
    <3>1. k \in 1 .. g
      BY <1>2
    <3>2. /\ Chars(v)[k] = v[2 * k - 1] + v[2 * k] /\ 2 * k - 1 \in 1 .. Len(v) /\ 2 * k \in 1 .. Len(v)
      BY <1>2, StartsWith, CharsOf
    <3>3. Chars(cells)[k] = cells[2 * k - 1] + cells[2 * k]
      BY <1>2, <3>1, CharsOf
    <3>4. v[2 * k - 1] = cells[2 * k - 1] /\ v[2 * k] = cells[2 * k]
      BY <3>2, StartsWith
    <3> QED BY <3>2, <3>3, <3>4
  <2> QED BY <1>1, <1>2, <2>1, <2>2 DEF Begins
<1>4. FirstOf(Nuls(Chars(cells))) = {Len(Chars(v))}
  BY <1>1, <1>3, TextSize
<1>5. Len(Chars(v)) = h /\ h # Failed
  BY <1>2, StartsWith, CharsOf DEF Failed
<1> QED BY <1>2, <1>4, <1>5

LEMMA CountedSize ==
  ASSUME NEW v, NEW cells \in Seq(Nat), Begins(v, cells), v # <<>>, v[1] = Len(v) - 1
  PROVE  cells # <<>> /\ 1 + cells[1] = Len(v)
<1>1. Len(v) \in Nat \ {0}
  <2>1. Len(v) \in Nat /\ (Len(v) = 0 => v = <<>>)
    BY StartsWith
  <2> QED BY <2>1
<1>2. v[1] = cells[1] /\ Len(cells) # 0
  BY <1>1, StartsWith
<1>3. cells # <<>>
  BY <1>2
<1> QED BY <1>1, <1>2, <1>3

\* What a value of each type satisfies.
LEMMA ValueShapes ==
  ASSUME NEW ptr, NEW lengths, NEW p, NEW v, Allows(ptr, lengths, p, v)
  PROVE  /\ p.in = "pointer" => Len(v) = ptr
         /\ p.in \in Single \cup {"guid", "systemtime"} => Len(v) \in TypeSize(p)
         /\ p.in \in Counted => v # <<>> /\ v[1] = Len(v) - 1
         /\ p.in \in {"ansi", "wide", "ipv6", "binary", "null"} /\ HasLength(p) =>
              \A n \in lengths : Len(v) = InCells(p.in, n)
         /\ p.in = "ansi" /\ ~HasLength(p) => Nuls(v) = {Len(v)}
         /\ p.in = "wide" /\ ~HasLength(p) => Len(v) % 2 = 0 /\ Nuls(Chars(v)) = {Len(Chars(v))}
<1>1. FixedSizeOf(p.in) # {} <=> p.in \in Single \cup {"guid", "systemtime"}
  BY FixedSizes
<1> QED BY <1>1 DEF Allows, ValueFits, Counted, Remaining, Single, Numeric

\* The types that are sized by their own cells, if the schema does not give a length.
SizesItself(p) ==
  \/ p.in \in Counted
  \/ p.in \in {"ansi", "wide"} /\ ~HasLength(p)

LEMMA ContentSize ==
  ASSUME NEW ptr, NEW lengths, NEW p, NEW v, Allows(ptr, lengths, p, v),
         NEW cells \in Seq(Nat), Begins(v, cells),
         SizesItself(p)
  PROVE  SizeByContent(p.in, cells) = {Len(v)}
<1>0. /\ p.in \in Counted => v # <<>> /\ v[1] = Len(v) - 1
      /\ p.in = "ansi" /\ ~HasLength(p) => Nuls(v) = {Len(v)}
      /\ p.in = "wide" /\ ~HasLength(p) => Len(v) % 2 = 0 /\ Nuls(Chars(v)) = {Len(Chars(v))}
  BY ValueShapes
<1>1. CASE p.in = "ansi" /\ ~HasLength(p)
  <2>1. Nuls(v) = {Len(v)}
    BY <1>0, <1>1
  <2>2. SizeByContent("ansi", cells) = FirstOf(Nuls(cells))
    BY DEF SizeByContent, Counted, Remaining
  <2> QED BY <1>1, <2>1, <2>2, TextSize
<1>2. CASE p.in = "wide" /\ ~HasLength(p)
  <2>1. Len(v) % 2 = 0 /\ Nuls(Chars(v)) = {Len(Chars(v))}
    BY <1>0, <1>2
  <2>2. SizeByContent("wide", cells) =
          {IF k = Failed THEN Failed ELSE 2 * k : k \in FirstOf(Nuls(Chars(cells)))}
    BY DEF SizeByContent, Counted, Remaining
  <2> QED BY <1>2, <2>1, <2>2, WideSize
<1>3. CASE p.in \in Counted
  <2>1. v # <<>> /\ v[1] = Len(v) - 1
    BY <1>0, <1>3
  <2>2. SizeByContent(p.in, cells) = IF cells = <<>> THEN {Failed} ELSE {1 + cells[1]}
    BY <1>3 DEF SizeByContent, Counted, Remaining
  <2> QED BY <2>1, <2>2, CountedSize
<1> QED BY <1>1, <1>2, <1>3 DEF SizesItself

LEMMA LengthIsObeyed ==
  ASSUME NEW ptr, NEW lengths, NEW p, NEW v, Allows(ptr, lengths, p, v), HasLength(p),
         p.in \in {"ansi", "wide", "ipv6", "binary", "null"}, NEW n \in lengths
  PROVE  Len(v) = InCells(p.in, n)
<1>1. FixedSizeOf(p.in) = {} /\ p.in # "pointer" /\ p.in \notin Counted /\ p.in \notin Remaining
  BY FixedSizes DEF Single, Numeric, Counted, Remaining
<1> QED BY <1>1 DEF Allows, ValueFits

\* The size that is found for a value is that of the cells that were written.
LEMMA ValueIsSized ==
  ASSUME NEW p, p.in \in InTypes, NEW n, Given(slices, p.length) = {n},
         NEW v, NEW x, IsValue(pointerSize, {n}, p, v, x),
         Rest \in Seq(Nat), Len(Rest) <= MaxUsize, Begins(v, Rest),
         p.in \in Remaining => Len(v) = Len(Rest)
  PROVE  ValueSizes(p) = {Len(v)}
<1>1. Allows(pointerSize, {n}, p, v) /\ (FixedSizeOf(p.in) # {} => Len(v) \in FixedSizeOf(p.in))
  BY DEF IsValue
<1>2. Len(v) \in Nat /\ Len(v) <= MaxUsize
  BY StartsWith, BoundsAssumption
<1>3. CASE p.in = "pointer"
  BY <1>1, <1>3, ValueShapes DEF ValueSizes, ContentSized, Counted, Remaining
<1>4. CASE p.in \in Counted
  <2>1. SizeByContent(p.in, Rest) = {Len(v)}
    BY <1>1, <1>4, ContentSize DEF SizesItself
  <2> QED BY <1>4, <2>1 DEF ValueSizes, ContentSized, Counted
<1>5. CASE p.in \in Remaining
  <2>1. SizeByContent(p.in, Rest) = {Len(Rest)}
    BY <1>5 DEF SizeByContent, Counted, Remaining
  <2> QED BY <1>5, <2>1 DEF ValueSizes, ContentSized, Remaining
<1>6. CASE p.in \in Single \cup {"guid", "systemtime"}
  <2>1. FixedSizeOf(p.in) = {Len(v)} /\ p.in \notin ContentSized /\ p.in # "pointer" /\ p.in # "wide"
    BY <1>1, <1>6, FixedSizes DEF ContentSized, Counted, Remaining, Single, Numeric
  <2>2. CASE ~ Literal(p.length)
    BY <2>1, <2>2 DEF ValueSizes, ReferredLength
  <2>3. CASE Literal(p.length) /\ HasLength(p)
    <3>1. TypeSize(p) = {p.length.n} /\ Len(v) \in TypeSize(p)
      BY <1>1, <1>6, <2>3, ValueShapes DEF TypeSize
    <3>2. ElementSize(p) = {p.length.n}
      BY <2>1, <2>3 DEF ElementSize, InCells
    <3> QED BY <2>1, <2>3, <3>1, <3>2 DEF ValueSizes
  <2>4. CASE Literal(p.length) /\ ~ HasLength(p)
    <3>1. SizeByContent(p.in, Rest) = FixedSizeOf(p.in)
      BY <1>6 DEF SizeByContent, Counted, Remaining, Single, Numeric
    <3> QED BY <2>1, <2>4, <3>1 DEF ValueSizes
  <2> QED BY <2>2, <2>3, <2>4
<1>7. CASE p.in \in {"ansi", "wide", "ipv6", "binary", "null"}
  <2>1. FixedSizeOf(p.in) = {} /\ p.in # "pointer" /\ p.in \notin ContentSized
    BY <1>7, FixedSizes DEF ContentSized, Counted, Remaining, Single, Numeric
  <2>2. HasLength(p) => Len(v) = InCells(p.in, n)
    <3>1. n \in {n}
      OBVIOUS
    <3> QED BY <1>1, <1>7, <3>1, LengthIsObeyed
  <2>3. CASE ~ Literal(p.length)
    <3>1. Carrier(slices, p.length.n) = {n} /\ HasLength(p)
      BY <2>3 DEF Given, HasLength
    <3>2. LengthInCells(p.in, n) = {Len(v)}
      BY <1>2, <2>2, <3>1, BoundsAssumption DEF LengthInCells, Checked
    <3>3. ReferredLength(p) = LengthInCells(p.in, n)
      BY <2>1, <3>1 DEF ReferredLength
    <3> QED BY <2>1, <2>3, <3>2, <3>3 DEF ValueSizes
  <2>4. CASE Literal(p.length) /\ HasLength(p)
    <3>1. n = p.length.n
      BY <2>4 DEF Given
    <3> QED BY <2>1, <2>2, <2>4, <3>1 DEF ValueSizes, ElementSize
  <2>5. CASE Literal(p.length) /\ ~ HasLength(p)
    <3>1. SizeByContent(p.in, Rest) = {Len(v)}
      <4>1. CASE p.in \in {"ansi", "wide"}
        BY <1>1, <2>5, <4>1, ContentSize DEF SizesItself
      <4>2. CASE p.in = "ipv6"
        <5>1. Len(v) = 2
          BY <4>2 DEF IsValue
        <5> QED BY <4>2, <5>1 DEF SizeByContent, Counted, Remaining
      <4>3. p.in \notin {"binary", "null"}
        BY <2>5 DEF IsValue
      <4> QED BY <1>7, <4>1, <4>2, <4>3
    <3> QED BY <2>1, <2>5, <3>1 DEF ValueSizes
  <2> QED BY <2>3, <2>4, <2>5
<1> QED BY <1>3, <1>4, <1>5, <1>6, <1>7 DEF InTypes, ContentSized

Times(a, b) == a * b
IsPointer(p) == p.in = "pointer"
IsFixed(p) == FixedSizeOf(p.in) # {}
IsSizedText(p) == p.in \in {"ansi", "wide"} /\ HasLength(p)

\* What an array of each type satisfies.
ArrayShape(ptr, lengths, c, p, v) ==
  /\ IsPointer(p) => Len(v) = Times(ptr, c)
  /\ IsFixed(p) => \A k \in TypeSize(p) : Len(v) = Times(k, c)
  /\ IsSizedText(p) => \A n \in lengths : Len(v) = Times(InCells(p.in, n), c)

LEMMA ArrayShapes ==
  ASSUME NEW ptr, NEW lengths, NEW counts, NEW p, NEW v, ArrayFits(ptr, lengths, counts, p, v), NEW c \in counts
  PROVE  ArrayShape(ptr, lengths, c, p, v)
<1>1. CASE p.in = "pointer"
  <2>1. FixedSizeOf(p.in) = {}
    BY <1>1, FixedSizes DEF Single, Numeric
  <2> QED BY <1>1, <2>1 DEF ArrayFits, ArrayShape, Times, IsPointer, IsFixed, IsSizedText
<1>2. CASE p.in # "pointer" /\ FixedSizeOf(p.in) # {}
  <2>1. p.in \notin {"ansi", "wide"}
    BY <1>2, FixedSizes DEF Single, Numeric
  <2> QED BY <1>2, <2>1 DEF ArrayFits, ArrayShape, Times, IsPointer, IsFixed, IsSizedText
<1>3. CASE p.in # "pointer" /\ FixedSizeOf(p.in) = {}
  BY <1>3 DEF ArrayFits, ArrayShape, Times, IsPointer, IsFixed, IsSizedText
<1> QED BY <1>1, <1>2, <1>3

LEMMA ArrayIsSized ==
  ASSUME NEW p, NEW n \in Nat, Given(slices, p.length) = {n}, NEW c \in Nat, Given(slices, p.count) = {c},
         NEW v, NEW x, IsArrayOf(pointerSize, {n}, {c}, p, v, x),
         Rest \in Seq(Nat), Len(Rest) <= MaxUsize, Begins(v, Rest)
  PROVE  ArraySizes(p) = {Len(v)}
<1> DEFINE elem == IF p.in # "pointer" /\ ~Literal(p.length) THEN ReferredLength(p) ELSE ElementSize(p)
<1>1. /\ IsPointer(p) => Len(v) = Times(pointerSize, c)
      /\ IsFixed(p) => \A k \in TypeSize(p) : Len(v) = Times(k, c)
      /\ IsSizedText(p) => \A k \in {n} : Len(v) = Times(InCells(p.in, k), c)
  <2>1. PICK lengths, counts : lengths = {n} /\ counts = {c} /\ ArrayFits(pointerSize, lengths, counts, p, v)
    BY DEF IsArrayOf
  <2>2. c \in counts
    BY <2>1
  <2>3. ArrayShape(pointerSize, lengths, c, p, v)
    BY <2>1, <2>2, ArrayShapes
  <2> QED BY <2>1, <2>3 DEF ArrayShape
<1>2. Len(v) \in 0 .. MaxUsize
  BY StartsWith, BoundsAssumption
<1>3. ArraySizes(p) = IF elem = {} /\ c = 0 THEN {0} ELSE UNION {Checked(e * c) : e \in elem}
  BY DEF ArraySizes
<1>4. ASSUME NEW e, elem = {e}, Len(v) = e * c PROVE ArraySizes(p) = {Len(v)}
  <2> HIDE DEF elem
  <2>1. ArraySizes(p) = Checked(e * c)
    BY <1>3, <1>4
  <2> QED BY <1>2, <1>4, <2>1 DEF Checked
<1>5. CASE p.in = "pointer"
  <2>2. elem = {pointerSize} /\ Len(v) = pointerSize * c
    BY <1>1, <1>5 DEF ElementSize, Times, IsPointer
  <2> HIDE DEF elem
  <2> QED BY <1>4, <2>2
<1>6. CASE FixedSizeOf(p.in) # {}
  <2>1. p.in # "pointer" /\ p.in # "wide"
    BY <1>6, FixedSizes DEF Single, Numeric
  <2>2. elem = TypeSize(p)
    BY <1>6, <2>1 DEF ReferredLength, ElementSize, TypeSize, InCells, HasLength
  <2>3. PICK e : TypeSize(p) = {e}
    BY <1>6, FixedSizes DEF TypeSize
  <2>4. \A k \in TypeSize(p) : Len(v) = Times(k, c)
    BY <1>1, <1>6 DEF IsFixed
  <2>5. Len(v) = e * c
    BY <2>3, <2>4 DEF Times
  <2> HIDE DEF elem
  <2> QED BY <1>4, <2>2, <2>3, <2>5
<1>7. CASE p.in \in {"ansi", "wide"} /\ HasLength(p)
  <2>1. FixedSizeOf(p.in) = {} /\ p.in # "pointer"
    BY <1>7, FixedSizes DEF Single, Numeric
  <2>2. Len(v) = InCells(p.in, n) * c
    <3>1. \A m \in {n} : Len(v) = Times(InCells(p.in, m), c)
      BY <1>1, <1>7 DEF IsSizedText
    <3> QED BY <3>1 DEF Times
  <2>3. InCells(p.in, n) \in Nat
    BY DEF InCells
  <2>4. CASE Literal(p.length)
    <3>1. elem = {InCells(p.in, n)}
      BY <1>7, <2>1, <2>4 DEF ElementSize, Given
    <3> HIDE DEF elem
    <3> QED BY <1>4, <2>2, <3>1
  <2>5. CASE ~Literal(p.length)
    <3>1. elem = Checked(InCells(p.in, n))
      BY <2>1, <2>5 DEF ReferredLength, LengthInCells, Given
    <3> HIDE DEF elem
    <3>2. CASE elem = {InCells(p.in, n)}
      BY <1>4, <2>2, <3>2
    <3>3. CASE elem # {InCells(p.in, n)}
      <4>1. elem = {} /\ InCells(p.in, n) > MaxUsize
        BY <2>3, <3>1, <3>3, BoundsAssumption DEF Checked
      <4>2. c = 0
        <5>1. ASSUME NEW k \in Nat, c # 0, k * c <= MaxUsize PROVE k <= MaxUsize
          <6>1. k * c = k + k * (c - 1) /\ k * (c - 1) \in Nat
            BY <5>1
          <6> QED BY <5>1, <6>1, BoundsAssumption
        <5> QED BY <1>2, <2>2, <2>3, <4>1, <5>1, BoundsAssumption
      <4>3. Len(v) = 0
        BY <2>2, <2>3, <4>2
      <4> QED BY <1>3, <4>1, <4>2, <4>3
    <3> QED BY <3>2, <3>3
  <2> QED BY <2>4, <2>5
<1> QED BY <1>5, <1>6, <1>7 DEF IsArrayOf

-----------------------------------------------------------------------------
(* What the cells of a value are read as *)

LEMMA ListTypes ==
  ASSUME NEW v \in Seq(Nat)
  PROVE  Len(v) \in Nat /\ DOMAIN v = 1 .. Len(v) /\ (\A k \in 1 .. Len(v) : v[k] \in Nat)
         /\ (Len(v) = 0 <=> v = <<>>)
OBVIOUS

\* What comes first in v ends at the first NUL.
LEMMA TrimmedIs ==
  ASSUME NEW v \in Seq(Nat), NEW s \in Seq(Nat), Len(s) <= Len(v),
         \A k \in DOMAIN v : IF k <= Len(s) THEN v[k] = s[k] /\ s[k] # 0 ELSE v[k] = 0
  PROVE  Trimmed(v) = s
<1> DEFINE kept == DOMAIN v \ Nuls(v)
           low  == CHOOSE k \in kept : \A j \in kept : k <= j
           high == CHOOSE k \in kept : \A j \in kept : j <= k
<1>1. PICK n \in Nat, m \in Nat : n = Len(s) /\ m = Len(v) /\ n <= m
  BY ListTypes
<1>2. kept = 1 .. n
  <2>1. \A k \in 1 .. m : v[k] # 0 <=> k \in 1 .. n
    BY <1>1, ListTypes
  <2> QED BY <1>1, <2>1, ListTypes DEF Nuls
<1>3. Trimmed(v) = IF kept = {} THEN <<>> ELSE SubSeq(v, low, high)
  BY DEF Trimmed
<1>4. CASE n = 0
  <2>1. s = <<>>
    BY <1>1, <1>4, ListTypes
  <2>2. kept = {}
    <3> HIDE DEF kept
    <3> QED BY <1>2, <1>4
  <2> QED BY <1>3, <2>1, <2>2
<1>5. CASE n # 0
  <2>1. 1 \in 1 .. n /\ n \in 1 .. n /\ (\A j \in 1 .. n : 1 <= j /\ j <= n)
    BY <1>1, <1>5
  <2>2. low = 1
    <3>1. \A k \in 1 .. n : (\A j \in 1 .. n : k <= j) => k = 1
      BY <2>1
    <3>2. \E k \in kept : \A j \in kept : k <= j
      BY <1>2, <2>1
    <3>3. low \in kept /\ \A j \in kept : low <= j
      <4> HIDE DEF kept
      <4> QED BY <3>2
    <3> HIDE DEF kept, low
    <3> QED BY <1>2, <3>1, <3>3
  <2>3. high = n
    <3>1. \A k \in 1 .. n : (\A j \in 1 .. n : j <= k) => k = n
      BY <2>1
    <3>2. \E k \in kept : \A j \in kept : j <= k
      BY <1>2, <2>1
    <3>3. high \in kept /\ \A j \in kept : j <= high
      <4> HIDE DEF kept
      <4> QED BY <3>2
    <3> HIDE DEF kept, high
    <3> QED BY <1>2, <3>1, <3>3
  <2>4. kept # {}
    BY <1>2, <2>1
  <2> HIDE DEF kept, low, high
  <2>5. Trimmed(v) = SubSeq(v, 1, n)
    BY <1>3, <2>2, <2>3, <2>4
  <2>6. \A k \in 1 .. n : s[k] = v[1 + k - 1]
    <3> TAKE k \in 1 .. n
    <3>1. k \in DOMAIN v /\ k <= Len(s) /\ 1 + k - 1 = k
      BY <1>1, ListTypes
    <3> QED BY <3>1
  <2>7. s = SubSeq(v, 1, n)
    BY <1>1, <2>6, PartIsCut
  <2> QED BY <2>5, <2>7
<1> QED BY <1>4, <1>5

LEMMA UpToNulIs ==
  ASSUME NEW v \in Seq(Nat), NEW s \in Seq(Nat), Len(s) <= Len(v),
         \A k \in 1 .. Len(s) : v[k] = s[k] /\ s[k] # 0,
         Len(s) < Len(v) => v[Len(s) + 1] = 0
  PROVE  UpToNul(v) = s
<1> DEFINE nul == CHOOSE k \in Nuls(v) : \A j \in Nuls(v) : k <= j
<1>1. PICK n \in Nat, m \in Nat : n = Len(s) /\ m = Len(v) /\ n <= m
  BY ListTypes
<1>2. UpToNul(v) = IF Nuls(v) = {} THEN v ELSE SubSeq(v, 1, nul - 1)
  BY DEF UpToNul
<1>3. \A k \in Nuls(v) : k \in 1 .. m /\ n + 1 <= k
  BY <1>1, ListTypes DEF Nuls
<1>4. CASE n = m
  <2>1. Nuls(v) = {}
    BY <1>1, <1>3, <1>4
  <2>2. v = s
    BY <1>1, <1>4, SameCells
  <2> QED BY <1>2, <2>1, <2>2
<1>5. CASE n # m
  <2>1. n + 1 \in Nuls(v)
    BY <1>1, <1>5, ListTypes DEF Nuls
  <2>2. nul \in Nuls(v) /\ \A j \in Nuls(v) : nul <= j
    <3>1. \E k \in Nuls(v) : \A j \in Nuls(v) : k <= j
      BY <1>3, <2>1
    <3> QED BY <3>1
  <2> HIDE DEF nul
  <2>3. nul = n + 1
    BY <1>3, <2>1, <2>2
  <2>4. UpToNul(v) = SubSeq(v, 1, n)
    BY <1>2, <2>1, <2>3
  <2>5. \A k \in 1 .. n : s[k] = v[1 + k - 1]
    BY <1>1
  <2>6. s = SubSeq(v, 1, n)
    BY <1>1, <2>5, PartIsCut
  <2> QED BY <2>4, <2>6
<1> QED BY <1>4, <1>5

\* The characters are told by their cells.
LEMMA CharsAre ==
  ASSUME NEW v \in Seq(Nat), NEW s \in Seq(Nat), Len(s) = Len(v) \div 2,
         \A k \in DOMAIN s : s[k] = v[2 * k - 1] + v[2 * k]
  PROVE  Chars(v) = s
<1>1. PICK n \in Nat : n = Len(s) /\ DOMAIN s = 1 .. n
  BY ListTypes
<1>2. Chars(v) \in Seq(Nat) /\ Len(Chars(v)) = n /\ \A k \in 1 .. n : Chars(v)[k] = s[k]
  BY <1>1, CharsOf
<1>3. PICK t \in Seq(Nat) : t = Chars(v)
  BY <1>2
<1>4. t = s
  BY <1>1, <1>2, <1>3, SameCells
<1> QED BY <1>3, <1>4

\* What a count announces, if it counts all that follows.
LEMMA PayloadIs ==
  ASSUME NEW v \in Seq(Nat), v # <<>>, v[1] = Len(v) - 1
  PROVE  Payload(v) = {SubSeq(v, 2, Len(v))} /\ SubSeq(v, 2, Len(v)) \in Seq(Nat)
         /\ Len(SubSeq(v, 2, Len(v))) = Len(v) - 1
         /\ \A k \in 1 .. Len(v) - 1 : SubSeq(v, 2, Len(v))[k] = v[k + 1]
<1>1. Len(v) \in Nat \ {0}
  BY ListTypes
<1>2. Payload(v) = {SubSeq(v, 2, Len(v))}
  BY <1>1 DEF Payload
<1>3. PICK n \in Nat : n = Len(v) /\ n # 0
  BY <1>1
<1>4. /\ SubSeq(v, 2, n) \in Seq(Nat) /\ Len(SubSeq(v, 2, n)) = n - 2 + 1
      /\ \A k \in 1 .. n - 2 + 1 : SubSeq(v, 2, n)[k] = v[2 + k - 1]
  BY <1>3, CellsCut
<1> QED BY <1>2, <1>3, <1>4

\* What a string is read as.
LEMMA StringIsRead ==
  ASSUME NEW in \in TextTypes, NEW v \in Seq(Nat), NEW s, IsString(in, v, s),
         in \in Counted => v # <<>> /\ v[1] = Len(v) - 1,
         in = "widechar" => Len(v) = 1,
         NEW y \in TextOutcomes(in, v)
  PROVE  y = Plain("text", s) \/ (y = Error /\ in = "sid")
<1>0. s \in Seq(Nat) /\ Len(s) \in Nat /\ DOMAIN s = 1 .. Len(s) /\ Len(v) \in Nat
  BY ListTypes DEF IsString
<1>1. CASE in = "ansi"
  <2>1. /\ IsText(v) /\ Len(s) <= Len(v)
        /\ \A k \in DOMAIN v : IF k <= Len(s) THEN v[k] = s[k] /\ s[k] # 0 ELSE v[k] = 0
    BY <1>1 DEF IsString
  <2>2. Trimmed(v) = s
    BY <1>0, <2>1, TrimmedIs
  <2> QED BY <1>1, <2>1, <2>2 DEF TextOutcomes
<1>2. CASE in = "wide"
  <2>1. /\ Len(v) % 2 = 0 /\ 2 * Len(s) <= Len(v)
        /\ \A k \in DOMAIN s : s[k] = v[2 * k - 1] + v[2 * k] /\ s[k] # 0
        /\ 2 * Len(s) < Len(v) => v[2 * Len(s) + 1] + v[2 * Len(s) + 2] = 0
    BY <1>2 DEF IsString
  <2>2. PICK h \in Nat, n \in Nat : h = Len(v) \div 2 /\ Len(v) = 2 * h /\ n = Len(s) /\ n <= h
    <3>1. PICK m \in Nat, n \in Nat : m = Len(v) /\ n = Len(s) /\ m % 2 = 0 /\ 2 * n <= m
      BY <1>0, <2>1
    <3>2. PICK h \in Nat : h = m \div 2
      BY <3>1
    <3>3. m = 2 * h /\ n <= h
      BY <3>1, <3>2
    <3> QED BY <3>1, <3>2, <3>3
  <2>3. /\ Chars(v) \in Seq(Nat) /\ Len(Chars(v)) = h
        /\ \A k \in 1 .. h : Chars(v)[k] = v[2 * k - 1] + v[2 * k]
    BY <2>2, CharsOf
  <2>4. PICK c \in Seq(Nat) : c = Chars(v)
    BY <2>3
  <2>5. \A k \in 1 .. n : c[k] = s[k] /\ s[k] # 0
    <3> TAKE k \in 1 .. n
    <3>1. k \in DOMAIN s /\ k \in 1 .. h
      BY <1>0, <2>2
    <3> QED BY <2>1, <2>3, <2>4, <3>1
  <2>6. n < h => c[n + 1] = 0
    <3> SUFFICES ASSUME n < h PROVE c[n + 1] = 0
      OBVIOUS
    <3>1. n + 1 \in 1 .. h /\ 2 * (n + 1) - 1 = 2 * n + 1 /\ 2 * (n + 1) = 2 * n + 2
      BY <2>2
    <3>2. 2 * n < 2 * h
      BY <2>2
    <3> QED BY <2>1, <2>2, <2>3, <2>4, <3>1, <3>2
  <2>7. UpToNul(c) = s
    BY <1>0, <2>2, <2>3, <2>4, <2>5, <2>6, UpToNulIs
  <2> QED BY <1>2, <2>1, <2>4, <2>7 DEF TextOutcomes, WideText
<1>3. CASE in = "counted"
  <2>1. IsText(s) /\ v = <<Len(s)>> \o s /\ v # <<>> /\ v[1] = Len(v) - 1
    BY <1>3 DEF IsString, Counted
  <2>2. PICK d \in Seq(Nat) : d = SubSeq(v, 2, Len(v)) /\ Payload(v) = {d} /\ Len(d) = Len(v) - 1
                              /\ \A k \in 1 .. Len(v) - 1 : d[k] = v[k + 1]
    BY <2>1, PayloadIs
  <2>3. Len(v) = Len(s) + 1 /\ \A k \in 1 .. Len(s) : v[k + 1] = s[k]
    <3>1. <<Len(s)>> \in Seq(Nat) /\ Len(<<Len(s)>>) = 1
      BY <1>0
    <3>2. PICK t \in Seq(Nat) : t = <<Len(s)>>
      BY <3>1
    <3>3. v = t \o s /\ Len(t) = 1
      BY <2>1, <3>1, <3>2
    <3>4. Len(t \o s) = Len(t) + Len(s) /\ \A k \in 1 .. Len(s) : (t \o s)[Len(t) + k] = s[k]
      BY <1>0, <3>2, ConcatTypes
    <3>5. \A k \in 1 .. Len(s) : 1 + k = k + 1
      BY <1>0
    <3> QED BY <1>0, <3>3, <3>4, <3>5
  <2>4. Len(d) = Len(s) /\ \A k \in 1 .. Len(s) : d[k] = s[k]
    <3>1. Len(v) - 1 = Len(s)
      BY <1>0, <2>3
    <3> QED BY <2>2, <2>3, <3>1
  <2>5. d = s
    BY <1>0, <2>4, SameCells
  <2>6. CountedText(v, FALSE) = Text(s)
    BY <2>2, <2>5 DEF CountedText
  <2> QED BY <1>3, <2>1, <2>6 DEF TextOutcomes, Text
<1>4. CASE in = "countedwide"
  <2>1. /\ Len(v) = 2 * Len(s) + 1 /\ v # <<>> /\ v[1] = Len(v) - 1
        /\ \A k \in DOMAIN s : s[k] = v[2 * k] + v[2 * k + 1]
    BY <1>4 DEF IsString, Counted
  <2>2. PICK d \in Seq(Nat) : d = SubSeq(v, 2, Len(v)) /\ Payload(v) = {d} /\ Len(d) = Len(v) - 1
                              /\ \A k \in 1 .. Len(v) - 1 : d[k] = v[k + 1]
    BY <2>1, PayloadIs
  <2>3. Len(s) = Len(d) \div 2
    <3>1. PICK n \in Nat : n = Len(s)
      BY <1>0
    <3>2. Len(d) = 2 * n
      BY <2>1, <2>2, <3>1
    <3>3. n = (2 * n) \div 2
      OBVIOUS
    <3> QED BY <3>1, <3>2, <3>3
  <2>4. \A k \in DOMAIN s : s[k] = d[2 * k - 1] + d[2 * k]
    <3> TAKE k \in DOMAIN s
    <3>0. PICK n \in Nat : n = Len(s) /\ Len(v) - 1 = 2 * n /\ k \in 1 .. n
      <4>1. PICK n \in Nat, m \in Nat : n = Len(s) /\ m = Len(v) /\ m = 2 * n + 1 /\ k \in 1 .. n
        BY <1>0, <2>1
      <4>2. m - 1 = 2 * n
        BY <4>1
      <4> QED BY <4>1, <4>2
    <3>1. 2 * k - 1 \in 1 .. 2 * n /\ 2 * k \in 1 .. 2 * n /\ (2 * k - 1) + 1 = 2 * k
      BY <3>0
    <3>2. d[2 * k - 1] = v[2 * k] /\ d[2 * k] = v[2 * k + 1]
      BY <2>2, <3>0, <3>1
    <3> QED BY <2>1, <3>2
  <2>5. Chars(d) = s
    BY <1>0, <2>3, <2>4, CharsAre
  <2>6. CountedText(v, TRUE) = Plain("text", s)
    BY <2>2, <2>5 DEF CountedText
  <2> QED BY <1>4, <2>6 DEF TextOutcomes
<1>5. CASE in = "sid"
  <2>1. s = v /\ v # <<>> /\ v[1] = Len(v) - 1
    BY <1>5 DEF IsString, Counted
  <2>2. 1 + v[1] = Len(v) /\ SubSeq(v, 1, Len(v)) = v
    <3>1. Len(v) \in 0 .. Len(v)
      BY <1>0
    <3>2. SubSeq(v, 1, Len(v)) = v
      BY <3>1, PrefixTypes
    <3> QED BY <1>0, <2>1, <3>2
  <2>3. SidOutcomes(v) = {Plain("text", v), Error}
    <3>1. ~(v = <<>> \/ Len(v) < 1 + v[1])
      BY <1>0, <2>1, <2>2
    <3> QED BY <2>2, <3>1 DEF SidOutcomes
  <2> QED BY <1>5, <2>1, <2>3 DEF TextOutcomes
<1>6. CASE in \in {"rest", "ansichar"}
  <2>1. s = v /\ IsText(v)
    BY <1>6 DEF IsString
  <2> QED BY <1>6, <2>1 DEF TextOutcomes, Text
<1>7. CASE in = "restwide"
  <2>1. Chars(v) = s
    BY <1>0, <1>7, CharsAre DEF IsString
  <2> QED BY <1>7, <2>1 DEF TextOutcomes
<1>8. CASE in = "widechar"
  <2>1. s = v
    BY <1>8 DEF IsString
  <2> QED BY <1>8, <2>1 DEF TextOutcomes
<1> QED BY <1>1, <1>2, <1>3, <1>4, <1>5, <1>6, <1>7, <1>8 DEF TextTypes

\* The days of the years up to one, counted by eras of 400 years or by leap years.
LEMMA LeapSteps ==
  ASSUME NEW y \in Nat, y > 0
  PROVE  LeapYears(y) = LeapYears(y - 1) + (IF IsLeap(y) THEN 1 ELSE 0)
<1>1. y \div 4 = (y - 1) \div 4 + (IF y % 4 = 0 THEN 1 ELSE 0)
  OBVIOUS
<1>2. y \div 100 = (y - 1) \div 100 + (IF y % 100 = 0 THEN 1 ELSE 0)
  OBVIOUS
<1>3. y \div 400 = (y - 1) \div 400 + (IF y % 400 = 0 THEN 1 ELSE 0)
  OBVIOUS
<1>4. (y % 100 = 0 => y % 4 = 0) /\ (y % 400 = 0 => y % 100 = 0)
  OBVIOUS
<1>5. PICK a \in Int, b \in Int, c \in Int : a = (y - 1) \div 4 /\ b = (y - 1) \div 100 /\ c = (y - 1) \div 400
  OBVIOUS
<1>6. LeapYears(y - 1) = a - b + c
  BY <1>5 DEF LeapYears
<1>7. LeapYears(y) = (a + (IF y % 4 = 0 THEN 1 ELSE 0)) - (b + (IF y % 100 = 0 THEN 1 ELSE 0))
                     + (c + (IF y % 400 = 0 THEN 1 ELSE 0))
  BY <1>1, <1>2, <1>3, <1>5 DEF LeapYears
<1> QED BY <1>4, <1>5, <1>6, <1>7 DEF IsLeap

EraDays(era, yoe) == era * 146097 + (yoe * 365 + yoe \div 4 - yoe \div 100)
IsEra(y, era, yoe) == era = y \div 400 /\ yoe = y - era * 400
YearsDays(y) == 365 * y + LeapYears(y)

LEMMA ErasOfYears ==
  ASSUME NEW y \in Nat, NEW era \in Nat, NEW yoe \in Int, IsEra(y, era, yoe)
  PROVE  EraDays(era, yoe) = YearsDays(y)
<1>1. yoe \in 0 .. 399 /\ y = 400 * era + yoe
  BY DEF IsEra
<1>2. y \div 4 = 100 * era + yoe \div 4
  BY <1>1
<1>3. y \div 100 = 4 * era + yoe \div 100
  BY <1>1
<1>4. PICK a \in Int, b \in Int : a = yoe \div 4 /\ b = yoe \div 100
  OBVIOUS
<1>5. LeapYears(y) = (100 * era + a) - (4 * era + b) + era
  BY <1>2, <1>3, <1>4 DEF LeapYears, IsEra
<1> QED BY <1>1, <1>4, <1>5 DEF EraDays, YearsDays

\* Of the years that begin in March, by their number and month.
MarchYear(y, m)  == IF m <= 2 THEN y - 1 ELSE y
MonthStart(m)    == (153 * ((m + 9) % 12) + 2) \div 5
IsMonth(m)       == m \in 1 .. 12
FromMarch(y, m, d) == YearsDays(MarchYear(y, m)) + (MonthStart(m) + d - 1) - 719468

LEMMA MonthStarts ==
  ASSUME NEW m, IsMonth(m)
  PROVE  /\ DaysBefore(m) \in 0 .. 365
         /\ MonthStart(m) = IF m <= 2 THEN DaysBefore(m) + 306 ELSE DaysBefore(m) - 59
<1>1. m \in {1, 2, 3, 4, 5, 6, 7, 8, 9, 10, 11, 12}
  BY DEF IsMonth
<1> QED BY <1>1 DEF DaysBefore, MonthStart

LEMMA DaysFromMarch ==
  ASSUME NEW y \in Nat, y > 0, NEW m, IsMonth(m), NEW d \in Nat
  PROVE  DaysFromCivil(y, m, d) = FromMarch(y, m, d)
<1>1. PICK yy \in Nat : yy = MarchYear(y, m)
  BY DEF MarchYear, IsMonth
<1>2. PICK era \in Nat, yoe \in Int : IsEra(yy, era, yoe)
  BY DEF IsEra
<1>3. EraDays(era, yoe) = YearsDays(yy)
  BY <1>2, ErasOfYears
<1>4. (IF yy >= 0 THEN yy ELSE yy - 399) = yy
  OBVIOUS
<1>5. DaysFromCivil(y, m, d) =
        era * 146097 + (yoe * 365 + yoe \div 4 - yoe \div 100 + (MonthStart(m) + d - 1)) - 719468
  BY <1>1, <1>2, SMT DEF DaysFromCivil, MarchYear, IsEra, MonthStart
<1>6. PICK month \in Int : month = MonthStart(m)
  BY MonthStarts
<1>7. PICK a \in Int, b \in Int : a = yoe \div 4 /\ b = yoe \div 100
  OBVIOUS
<1>8. DaysFromCivil(y, m, d) = era * 146097 + (yoe * 365 + a - b + (month + d - 1)) - 719468
  BY <1>5, <1>6, <1>7, SMT
<1>9. YearsDays(yy) = era * 146097 + (yoe * 365 + a - b)
  BY <1>3, <1>7 DEF EraDays
<1> QED BY <1>1, <1>6, <1>8, <1>9, SMT DEF FromMarch

LEMMA DaysAreCounted ==
  ASSUME NEW y \in Nat, y > 0, NEW m, IsMonth(m), NEW d \in Nat
  PROVE  DaysFromCivil(y, m, d) = DaysSince1970(y, m, d) /\ DaysSince1970(y, m, d) \in Int
<1>1. PICK b \in Int, month \in Int : b = DaysBefore(m) /\ month = MonthStart(m)
                                    /\ month = IF m <= 2 THEN b + 306 ELSE b - 59
  BY MonthStarts
<1>2. PICK before \in Int : before = LeapYears(y - 1)
  BY DEF LeapYears
<1>3. LeapYears(1969) = 477
  BY DEF LeapYears
<1>4. PICK leap \in {0, 1} : leap = IF IsLeap(y) THEN 1 ELSE 0
  OBVIOUS
<1>5. DaysSince1970(y, m, d) =
        365 * (y - 1970) + before - 477 + b + (IF m > 2 THEN leap ELSE 0) + d - 1
  BY <1>1, <1>2, <1>3, <1>4 DEF DaysSince1970
<1>6. DaysFromCivil(y, m, d) = FromMarch(y, m, d)
  BY DaysFromMarch
<1>7. m \in Int
  BY DEF IsMonth
<1>8. CASE m <= 2
  <2>1. YearsDays(MarchYear(y, m)) = 365 * (y - 1) + before
    BY <1>2, <1>8 DEF YearsDays, MarchYear
  <2>2. FromMarch(y, m, d) = DaysSince1970(y, m, d)
    BY <1>1, <1>5, <1>7, <1>8, <2>1, SMT DEF FromMarch
  <2> QED BY <1>1, <1>5, <1>6, <1>7, <2>2, SMT
<1>9. CASE m > 2
  <2>1. LeapYears(y) = before + leap
    BY <1>2, <1>4, LeapSteps
  <2>2. YearsDays(MarchYear(y, m)) = 365 * y + before + leap
    BY <1>7, <1>9, <2>1 DEF YearsDays, MarchYear
  <2>3. FromMarch(y, m, d) = DaysSince1970(y, m, d)
    BY <1>1, <1>5, <1>7, <1>9, <2>2, SMT DEF FromMarch
  <2> QED BY <1>1, <1>5, <1>6, <1>7, <2>3, SMT
<1> QED BY <1>7, <1>8, <1>9

\* A date is read as the hours since 1970, or as the last time that a FILETIME tells.
LEMMA DateIsRead ==
  ASSUME NEW v \in Seq(Nat), Len(v) = 2, NEW x, IsDate(v, x)
  PROVE  DecodedSystemTime("systemtime", v) = x
<1> DEFINE y == v[1] \div 512
           m == (v[1] \div 32) % 16
           d == v[1] % 32
<1>1. v[1] \in Nat /\ v[2] \in Nat
  <2>1. 1 \in 1 .. Len(v) /\ 2 \in 1 .. Len(v)
    OBVIOUS
  <2> QED BY <2>1, ListTypes
<1>2. y \in Nat /\ d \in Nat
  BY <1>1
<1>3. /\ y >= 1601 /\ m \in 1 .. 12
      /\ x = Plain("time", <<IF 24 * DaysSince1970(y, m, d) + v[2] + EpochHours <= MaxQuad
                              THEN 24 * DaysSince1970(y, m, d) + v[2] ELSE MaxQuad - EpochHours>>)
  BY DEF IsDate
<1>4. PICK days \in Int : days = DaysSince1970(y, m, d) /\ DaysFromCivil(y, m, d) = days
  <2>1. PICK a \in Nat, b, c \in Nat : a = y /\ b = m /\ c = d /\ a > 0 /\ IsMonth(b)
    BY <1>2, <1>3 DEF IsMonth
  <2> HIDE DEF y, m, d
  <2>2. DaysFromCivil(a, b, c) = DaysSince1970(a, b, c) /\ DaysSince1970(a, b, c) \in Int
    BY <2>1, DaysAreCounted
  <2> QED BY <2>1, <2>2
<1>5. DecodedSystemTime("systemtime", v) = UnixTime(SystemQuad(v[1], v[2]))
  BY DEF DecodedSystemTime
<1>6. SystemQuad(v[1], v[2]) =
        IF (days + EpochDays) * 24 + v[2] > MaxQuad THEN MaxQuad ELSE (days + EpochDays) * 24 + v[2]
  BY <1>4 DEF SystemQuad
<1>7. x = Plain("time", <<IF 24 * days + v[2] + EpochHours <= MaxQuad
                           THEN 24 * days + v[2] ELSE MaxQuad - EpochHours>>)
  BY <1>3, <1>4
<1> HIDE DEF y, m, d
<1>8. MaxQuad \in Nat
  BY DecodingAssumption
<1>9. (IF (days + EpochDays) * 24 + v[2] > MaxQuad THEN MaxQuad ELSE (days + EpochDays) * 24 + v[2]) - EpochHours
      = IF 24 * days + v[2] + EpochHours <= MaxQuad THEN 24 * days + v[2] ELSE MaxQuad - EpochHours
  BY <1>1, <1>8, SMT DEF EpochHours, EpochDays
<1> QED BY <1>5, <1>6, <1>7, <1>9, SMT DEF UnixTime

LEMMA FewCells ==
  /\ \A t \in Seq(Nat) : Len(t) = 2 => t = <<t[1], t[2]>>
  /\ \A t \in Seq(Nat) : Len(t) = 5 => t = <<t[1], t[2], t[3], t[4], t[5]>>
OBVIOUS

\* What an address is read as.
LEMMA AddressIsRead ==
  ASSUME NEW v \in Seq(Nat), NEW x, IsAddress(v, x)
  PROVE  DecodedSocket(v) = x
<1>1. Len(v) \in Nat /\ v # <<>>
  BY ListTypes DEF IsAddress
<1>2. CASE v[1] = 2 /\ Len(v) >= 4
  <2>1. SubSeq(v, 2, 3) = <<v[2], v[3]>>
    <3>1. 2 \in 1 .. Len(v) /\ 3 \in 1 .. Len(v)
      BY <1>1, <1>2
    <3>2. PICK t : t = SubSeq(v, 2, 3)
      OBVIOUS
    <3>3. t \in Seq(Nat) /\ Len(t) = 2 /\ t[1] = v[2] /\ t[2] = v[3]
      BY <1>1, <1>2, <3>2, CellsCut
    <3> QED BY <3>2, <3>3, FewCells
  <2>2. x = Plain("inet", <<v[2], v[3]>>)
    BY <1>2 DEF IsAddress
  <2>3. DecodedSocket(v) = Plain("inet", SubSeq(v, 2, 3))
    BY <1>1, <1>2 DEF DecodedSocket
  <2> QED BY <2>1, <2>2, <2>3
<1>3. CASE v[1] = 23 /\ Len(v) >= 6
  <2>1. SubSeq(v, 2, 6) = <<v[2], v[3], v[4], v[5], v[6]>>
    <3>1. PICK b \in Nat : b = 6 /\ b <= Len(v)
      BY <1>3
    <3>2. /\ SubSeq(v, 2, b) \in Seq(Nat) /\ Len(SubSeq(v, 2, b)) = b - 2 + 1
          /\ \A k \in 1 .. b - 2 + 1 : SubSeq(v, 2, b)[k] = v[2 + k - 1]
      BY <1>1, <3>1, CellsCut
    <3>3. PICK t : t = SubSeq(v, 2, b)
      OBVIOUS
    <3>4. /\ t \in Seq(Nat) /\ Len(t) = 5
          /\ t[1] = v[2] /\ t[2] = v[3] /\ t[3] = v[4] /\ t[4] = v[5] /\ t[5] = v[6]
      BY <3>1, <3>2, <3>3
    <3> QED BY <3>1, <3>3, <3>4, FewCells
  <2>2. x = Plain("inet6", <<v[2], v[3], v[4], v[5], v[6]>>)
    BY <1>3 DEF IsAddress
  <2>3. DecodedSocket(v) = Plain("inet6", SubSeq(v, 2, 6))
    BY <1>1, <1>3 DEF DecodedSocket
  <2> QED BY <2>1, <2>2, <2>3
<1>4. CASE ~(v[1] = 2 /\ Len(v) >= 4) /\ ~(v[1] = 23 /\ Len(v) >= 6)
  BY <1>1, <1>4 DEF IsAddress, DecodedSocket
<1> QED BY <1>2, <1>3, <1>4

LEMMA KindsOfTypes ==
  ASSUME NEW in \in InTypes
  PROVE  in \in TextTypes \cup Numeric \cup {"pointer", "blob", "binary", "ipv6", "null", "bool", "guid",
                                             "filetime", "systemtime"}
BY DEF InTypes, Single, TextTypes, ContentSized, Counted, Remaining

IsTextOf(in, v, x) == x = Plain("text", x.cells) /\ IsString(in, v, x.cells)
IsBlob(v, x) == x = Plain("binary", Tail(v))
IsTruth(v, x) == x = Plain("bool", <<IF v[1] = 0 THEN 0 ELSE 1>>)
IsInstant(v, x) == v[1] <= MaxQuad /\ x = Plain("time", <<v[1] - EpochHours>>)

LEMMA FirstIsNat ==
  ASSUME NEW v \in Seq(Nat), Len(v) = 1
  PROVE  v[1] \in Nat
<1>1. 1 \in 1 .. Len(v)
  OBVIOUS
<1> QED BY <1>1, ListTypes

LEMMA MeantAlone ==
  ASSUME NEW in \in InTypes, NEW v, NEW x, MeansAlone(in, v, x)
  PROVE  /\ in \in TextTypes => IsTextOf(in, v, x)
         /\ in \in Numeric \cup {"pointer"} => x = Plain("number", v)
         /\ in = "null" => x = Null
         /\ in \in {"binary", "ipv6"} => x = Plain("binary", v)
         /\ in = "blob" => IsBlob(v, x)
         /\ in = "bool" => IsTruth(v, x)
         /\ in = "guid" => x = Plain("guid", v)
         /\ in = "filetime" => IsInstant(v, x)
         /\ in = "systemtime" => IsDate(v, x)
<1>1. CASE in \in TextTypes
  <2>1. in \notin Numeric \cup {"pointer"}
        /\ in \notin {"blob", "binary", "ipv6", "null", "bool", "guid", "filetime", "systemtime"}
    BY <1>1 DEF Numeric, TextTypes
  <2>2. IsTextOf(in, v, x)
    BY <1>1, <2>1 DEF MeansAlone, IsTextOf
  <2> QED BY <2>1, <2>2
<1>2. CASE in \in Numeric \cup {"pointer"}
  <2>1. in \notin TextTypes
        /\ in \notin {"blob", "binary", "ipv6", "null", "bool", "guid", "filetime", "systemtime"}
    BY <1>2 DEF Numeric, TextTypes
  <2>2. x = Plain("number", v)
    BY <1>2, <2>1 DEF MeansAlone
  <2> QED BY <2>1, <2>2
<1>3. CASE in \notin TextTypes /\ in \notin Numeric \cup {"pointer"}
  <2>1. CASE in \in {"null", "blob", "guid"}
    BY <1>3, <2>1 DEF MeansAlone, IsBlob
  <2>2. CASE in \in {"binary", "ipv6"}
    BY <1>3, <2>2 DEF MeansAlone
  <2>3. CASE in = "bool"
    BY <1>3, <2>3 DEF MeansAlone, IsTruth
  <2>4. CASE in = "filetime"
    BY <1>3, <2>4 DEF MeansAlone, IsInstant
  <2>5. CASE in = "systemtime"
    BY <1>3, <2>5 DEF MeansAlone
  <2> QED BY <1>3, <2>1, <2>2, <2>3, <2>4, <2>5, KindsOfTypes
<1> QED BY <1>1, <1>2, <1>3

\* The types that an out type may stand with.
LEMMA WhatIsMeant ==
  ASSUME NEW p, NEW v, NEW x, Means(p, v, x), p.in \in InTypes, p.out \in OutTypes
  PROVE  /\ p.out = "ip" => p.in \in {"int32", "ipv6"} /\ x = Plain("ip", v)
         /\ p.out = "socket" => p.in = "binary" /\ IsAddress(v, x)
         /\ p.out = "utf8" => p.in \in TextTypes
         /\ p.out \in Hexadecimal => p.in \in WholeNumbers /\ x = Plain("number", v)
         /\ p.out \in {"none", "utf8"} => MeansAlone(p.in, v, x)
<1>1. CASE p.out = "ip"
  BY <1>1 DEF Means, Hexadecimal
<1>2. CASE p.out = "socket"
  BY <1>2 DEF Means, Hexadecimal
<1>3. CASE p.out = "utf8"
  BY <1>3 DEF Means, Hexadecimal
<1>4. CASE p.out \in Hexadecimal
  <2>1. p.out \notin {"none", "ip", "socket", "utf8"}
    BY <1>4 DEF Hexadecimal
  <2>2. p.in \in WholeNumbers /\ x = Plain("number", v)
    BY <1>4, <2>1 DEF Means
  <2> QED BY <1>4, <2>1, <2>2
<1>5. CASE p.out = "none"
  <2>1. p.out \notin Hexadecimal
    BY <1>5 DEF Hexadecimal
  <2>2. MeansAlone(p.in, v, x)
    BY <1>5, <2>1 DEF Means
  <2> QED BY <1>5, <2>1, <2>2
<1> QED BY <1>1, <1>2, <1>3, <1>4, <1>5 DEF OutTypes

\* The handler of a value whose out type changes nothing.
LEMMA PlainHandler ==
  ASSUME NEW p, p.form = "value", p.out = "none"
  PROVE  /\ p.in \in TextTypes => Handler(p) = "text"
         /\ p.in \in Numeric \cup {"pointer"} => Handler(p) = "number"
         /\ p.in \in {"blob", "binary", "ipv6"} => Handler(p) = "binary"
         /\ p.in \in {"null", "bool", "guid", "filetime", "systemtime"} => Handler(p) = p.in
<1>1. Handler(p) = ValueHandler(p) /\ p.out \notin Hexadecimal
  BY DEF Handler, Hexadecimal
<1>2. CASE p.in \in TextTypes
  <2>1. p.in \notin Numeric \cup {"pointer", "blob", "binary", "ipv6", "null", "bool", "guid",
                                  "filetime", "systemtime"}
    BY <1>2 DEF Numeric, TextTypes
  <2> QED BY <1>1, <1>2, <2>1 DEF ValueHandler
<1>3. CASE p.in \in Numeric \cup {"pointer"}
  <2>1. p.in \notin TextTypes /\ p.in \notin {"blob", "binary", "ipv6", "null", "bool", "guid",
                                             "filetime", "systemtime"}
    BY <1>3 DEF Numeric, TextTypes
  <2> QED BY <1>1, <1>3, <2>1 DEF ValueHandler
<1>4. CASE p.in \notin TextTypes /\ p.in \notin Numeric \cup {"pointer"}
  BY <1>1, <1>4 DEF ValueHandler
<1> QED BY <1>2, <1>3, <1>4

\* A number of as many bytes as its handler reads is read.
LEMMA NumberIsRead ==
  ASSUME NEW p, p.in \in Numeric \cup {"pointer"}, NEW v \in Seq(Nat),
         Len(v) = IF p.in = "pointer" THEN pointerSize ELSE 1,
         p.out \in Hexadecimal \cup {"none"},
         NEW y \in NumberOutcomes(p.in, v, Width(p))
  PROVE  y = Plain("number", v) \/ (y = Error /\ WidthsDiffer(pointerSize, p))
<1>1. p.in \notin Counted
  BY DEF Numeric, Counted
<1>2. OwnWidth(pointerSize, p) = CellWidth(p.in) * Len(v)
  <2>1. CASE p.in = "pointer"
    <3>1. CellWidth(p.in) = 4
      BY <2>1 DEF CellWidth
    <3> QED BY <2>1, <3>1 DEF OwnWidth
  <2>2. CASE p.in # "pointer"
    <3>1. CellWidth(p.in) \in Nat
      BY DEF CellWidth
    <3> QED BY <2>2, <3>1 DEF OwnWidth
  <2> QED BY <2>1, <2>2
<1>3. ByteLengths(p.in, v) = {OwnWidth(pointerSize, p)}
  BY <1>1, <1>2 DEF ByteLengths, Counted
<1>4. y = IF OwnWidth(pointerSize, p) = Width(p) THEN Plain("number", v) ELSE Error
  BY <1>3 DEF NumberOutcomes
<1>5. CASE p.out \in Hexadecimal
  <2>1. Width(p) = OutWidth(p)
    BY <1>5 DEF Width, OutWidth, Hexadecimal
  <2> QED BY <1>4, <1>5, <2>1 DEF WidthsDiffer
<1>6. CASE p.out \notin Hexadecimal
  <2>1. Width(p) = OwnWidth(pointerSize, p)
    BY <1>6 DEF Width, OwnWidth, Hexadecimal
  <2> QED BY <1>4, <2>1
<1> QED BY <1>5, <1>6

\* What a value is read as: what it means, unless Windows refuses to render a SID or
\* the out type stands for another width.
LEMMA ValueIsRead ==
  ASSUME NEW p, p.form = "value", p.in \in InTypes, p.out \in OutTypes, NEW lengths,
         NEW v, NEW x, IsValue(pointerSize, lengths, p, v, x), NEW y \in Outcomes(p, v)
  PROVE  y = x \/ (y = Error /\ (p.in = "sid" \/ WidthsDiffer(pointerSize, p)))
<1>1. v \in Seq(Nat) /\ Allows(pointerSize, lengths, p, v) /\ Means(p, v, x)
      /\ (FixedSizeOf(p.in) # {} => Len(v) \in FixedSizeOf(p.in)) /\ (p.in = "ipv6" => Len(v) = 2)
  BY DEF IsValue
<1>2. /\ p.in = "pointer" => Len(v) = pointerSize
      /\ p.in \in Counted => v # <<>> /\ v[1] = Len(v) - 1
  BY <1>1, ValueShapes
<1>3. /\ p.in \in Single => Len(v) = 1
      /\ p.in \in {"guid", "systemtime"} => Len(v) = 2
  BY <1>1, FixedSizes
<1>4. Handler(p) = ValueHandler(p)
  BY DEF Handler
<1>18. p.out \in {"none", "utf8"} => MeansAlone(p.in, v, x)
  BY <1>1, WhatIsMeant
<1>5. CASE p.out = "ip"
  <2>1. Outcomes(p, v) = IpOutcomes(p.in, v)
    BY <1>4, <1>5 DEF Outcomes, ValueHandler, Hexadecimal
  <2>2. p.in \in {"int32", "ipv6"} /\ x = Plain("ip", v)
    BY <1>1, <1>5, WhatIsMeant
  <2>3. ByteLengths(p.in, v) \subseteq {4, 16}
    <3>1. CASE p.in = "int32"
      <4>1. Len(v) = 1 /\ CellWidth(p.in) = 4
        BY <1>3, <3>1 DEF Single, Numeric, CellWidth
      <4> QED BY <3>1, <4>1 DEF ByteLengths, Counted
    <3>2. CASE p.in = "ipv6"
      <4>1. Len(v) = 2 /\ CellWidth(p.in) = 8
        BY <1>1, <3>2 DEF CellWidth
      <4> QED BY <3>2, <4>1 DEF ByteLengths, Counted
    <3> QED BY <2>2, <3>1, <3>2
  <2> QED BY <2>1, <2>2, <2>3 DEF IpOutcomes
<1>6. CASE p.out = "socket"
  <2>1. Outcomes(p, v) = {DecodedSocket(v)}
    BY <1>4, <1>6 DEF Outcomes, ValueHandler, Hexadecimal
  <2>2. IsAddress(v, x)
    BY <1>1, <1>6, WhatIsMeant
  <2> QED BY <1>1, <2>1, <2>2, AddressIsRead
<1>7. CASE p.out \in {"utf8", "none"} /\ p.in \in TextTypes
  <2>1. Outcomes(p, v) = TextOutcomes(p.in, v)
    <3>1. Handler(p) = "text"
      <4>1. CASE p.out = "utf8"
        BY <1>4, <4>1 DEF ValueHandler, Hexadecimal
      <4>2. CASE p.out = "none"
        BY <1>7, <4>2, PlainHandler
      <4> QED BY <1>7, <4>1, <4>2
    <3> QED BY <3>1 DEF Outcomes
  <2>2. PICK s : x = Plain("text", s) /\ IsString(p.in, v, s)
    BY <1>7, <1>18, MeantAlone DEF IsTextOf
  <2>3. p.in = "widechar" => Len(v) = 1
    BY <1>3 DEF Single
  <2> QED BY <1>1, <1>2, <1>7, <2>1, <2>2, <2>3, StringIsRead
<1>8. CASE p.out \in Hexadecimal \/ (p.out = "none" /\ p.in \in Numeric \cup {"pointer"})
  <2>1. Outcomes(p, v) = NumberOutcomes(p.in, v, Width(p))
    <3>1. Handler(p) = "number"
      <4>1. CASE p.out \in Hexadecimal
        <5>1. p.out \notin {"ip", "socket", "utf8", "none"}
          BY <4>1 DEF Hexadecimal
        <5> QED BY <1>4, <4>1, <5>1 DEF ValueHandler
      <4>2. CASE p.out = "none" /\ p.in \in Numeric \cup {"pointer"}
        BY <4>2, PlainHandler
      <4> QED BY <1>8, <4>1, <4>2
    <3> QED BY <3>1 DEF Outcomes
  <2>2. x = Plain("number", v)
    BY <1>1, <1>8, <1>18, WhatIsMeant, MeantAlone
  <2>3. p.in \in Numeric \cup {"pointer"} /\ p.out \in Hexadecimal \cup {"none"}
    BY <1>1, <1>8, WhatIsMeant DEF WholeNumbers, Numeric
  <2>4. Len(v) = IF p.in = "pointer" THEN pointerSize ELSE 1
    BY <1>2, <1>3, <2>3 DEF Single
  <2> QED BY <1>1, <2>1, <2>2, <2>3, <2>4, NumberIsRead
<1>9. CASE p.out = "none" /\ p.in \in {"binary", "ipv6"}
  <2>1. Outcomes(p, v) = {DecodedBinary(p.in, v)}
    BY <1>9, PlainHandler DEF Outcomes
  <2>2. x = Plain("binary", v)
    BY <1>9, <1>18, MeantAlone
  <2> QED BY <1>9, <2>1, <2>2 DEF DecodedBinary
<1>10. CASE p.out = "none" /\ p.in = "blob"
  <2>1. Outcomes(p, v) = {DecodedBinary(p.in, v)}
    BY <1>10, PlainHandler DEF Outcomes
  <2>2. x = Plain("binary", Tail(v))
    BY <1>10, <1>18, MeantAlone DEF IsBlob
  <2>3. v # <<>> /\ v[1] = Len(v) - 1
    BY <1>2, <1>10 DEF Counted
  <2>4. Payload(v) = {SubSeq(v, 2, Len(v))}
    BY <1>1, <2>3, PayloadIs
  <2>5. Tail(v) = SubSeq(v, 2, Len(v))
    BY <1>1, <2>3
  <2> QED BY <1>10, <2>1, <2>2, <2>4, <2>5 DEF DecodedBinary
<1>11. CASE p.out = "none" /\ p.in = "bool"
  <2>1. Outcomes(p, v) = {DecodedBool(p.in, v)}
    BY <1>11, PlainHandler DEF Outcomes
  <2>2. x = Plain("bool", <<IF v[1] = 0 THEN 0 ELSE 1>>)
    BY <1>11, <1>18, MeantAlone DEF IsTruth
  <2>3. Len(v) = 1 /\ DOMAIN v = {1}
    BY <1>1, <1>3, <1>11 DEF Single
  <2>4. (\E k \in DOMAIN v : v[k] # 0) <=> v[1] # 0
    BY <2>3
  <2> QED BY <1>11, <2>1, <2>2, <2>3, <2>4 DEF DecodedBool
<1>12. CASE p.out = "none" /\ p.in = "guid"
  <2>1. Outcomes(p, v) = {DecodedGuid(p.in, v)}
    BY <1>12, PlainHandler DEF Outcomes
  <2>2. x = Plain("guid", v)
    BY <1>12, <1>18, MeantAlone
  <2> QED BY <1>3, <1>12, <2>1, <2>2 DEF DecodedGuid
<1>13. CASE p.out = "none" /\ p.in = "filetime"
  <2>1. Outcomes(p, v) = {DecodedFileTime(p.in, v)}
    BY <1>13, PlainHandler DEF Outcomes
  <2>2. x = UnixTime(v[1]) /\ v[1] <= MaxQuad
    BY <1>13, <1>18, MeantAlone DEF UnixTime, IsInstant
  <2>3. Len(v) = 1 /\ v[1] \in Nat
    <3>1. Len(v) = 1 /\ v \in Seq(Nat)
      BY <1>1, <1>3, <1>13 DEF Single
    <3> QED BY <3>1, FirstIsNat
  <2>4. SignedQuad(v[1]) = v[1]
    BY <2>2, <2>3, DecodingAssumption DEF SignedQuad
  <2> QED BY <1>13, <2>1, <2>2, <2>3, <2>4 DEF DecodedFileTime
<1>14. CASE p.out = "none" /\ p.in = "systemtime"
  <2>1. Outcomes(p, v) = {DecodedSystemTime("systemtime", v)}
    BY <1>14, PlainHandler DEF Outcomes
  <2>2. IsDate(v, x) /\ Len(v) = 2
    BY <1>3, <1>14, <1>18, MeantAlone
  <2> QED BY <1>1, <2>1, <2>2, DateIsRead
<1>15. CASE p.out = "none" /\ p.in = "null"
  <2>1. Outcomes(p, v) = {Null}
    BY <1>15, PlainHandler DEF Outcomes
  <2> QED BY <1>15, <1>18, <2>1, MeantAlone
<1>16. p.out = "utf8" => p.in \in TextTypes
  BY <1>1, WhatIsMeant
<1>17. CASE p.out = "none"
  BY <1>7, <1>8, <1>9, <1>10, <1>11, <1>12, <1>13, <1>14, <1>15, <1>17, KindsOfTypes
<1> QED BY <1>5, <1>6, <1>7, <1>8, <1>16, <1>17 DEF OutTypes

\* An array of whole numbers of more than a byte is read as them or refused, and with
\* an out type of another width perhaps as elements of that width; no other array is
\* read, and nothing that is not supported.
LEMMA ArrayIsRead ==
  ASSUME NEW p, p.form = "array", NEW lengths, NEW counts, NEW v, NEW x,
         IsArrayOf(pointerSize, lengths, counts, p, v, x), NEW y \in Outcomes(p, v)
  PROVE  \/ y = x \/ (y = Error /\ (x = Null \/ Handler(p) = "numbers"))
         \/ WidthsDiffer(pointerSize, p) /\ y = Numbers(OutWidth(p), v)
<1>1. WholeNumbers \ {"int8"} = Elements
  BY DEF WholeNumbers, Elements
<1>2. CASE p.out \in Hexadecimal \/ p.in \in Elements
  <2>1. Handler(p) = "numbers"
    BY <1>2 DEF Handler
  <2>2. y \in NumbersOutcomes(p.in, v, Width(p))
    BY <2>1 DEF Outcomes
  <2>3. x = Numbers(OwnWidth(pointerSize, p), v)
    BY <1>1, <1>2 DEF IsArrayOf
  <2>4. y = Error \/ y = Numbers(Width(p), v)
    BY <2>2 DEF NumbersOutcomes
  <2>5. CASE p.out \in Hexadecimal
    <3>1. Width(p) = OutWidth(p)
      BY <2>5 DEF Width, OutWidth, Hexadecimal
    <3> QED BY <2>1, <2>3, <2>4, <2>5, <3>1 DEF WidthsDiffer
  <2>6. CASE p.out \notin Hexadecimal
    <3>1. Width(p) = OwnWidth(pointerSize, p)
      BY <2>6 DEF Width, OwnWidth, Hexadecimal
    <3> QED BY <2>1, <2>3, <2>4, <3>1
  <2> QED BY <2>5, <2>6
<1>3. CASE p.out \notin Hexadecimal /\ p.in \notin Elements
  <2>1. Handler(p) = "none"
    BY <1>3 DEF Handler
  <2>2. Outcomes(p, v) = {Error}
    BY <2>1 DEF Outcomes
  <2>3. x = Null
    BY <1>1, <1>3 DEF IsArrayOf
  <2> QED BY <2>2, <2>3
<1> QED BY <1>2, <1>3

LEMMA UnsupportedIsRead ==
  ASSUME NEW p, p.form = "unsupported", NEW v, NEW y \in Outcomes(p, v)
  PROVE  y = Error
<1>1. Handler(p) = "none"
  BY DEF Handler
<1> QED BY <1>1 DEF Outcomes

-----------------------------------------------------------------------------
(* Pieces, one after the other *)

\* The pieces of some cells, one after the other, each from where the one before ends.
Lays(start, n, v, pieces) ==
  /\ start[1] = 0 /\ start[n + 1] = Len(v)
  /\ \A k \in 1 .. n + 1 : start[k] \in Nat /\ start[k] <= Len(v)
  /\ \A k \in 1 .. n :
       /\ pieces[k] \in Seq(Nat)
       /\ start[k + 1] = start[k] + Len(pieces[k])
       /\ \A c \in 1 .. Len(pieces[k]) : v[start[k] + c] = pieces[k][c]

LEMMA PiecesLie ==
  ASSUME NEW pieces, NEW n \in Nat, Len(pieces) = n, ListOf(pieces, Nat)
  PROVE  Flat(pieces) \in Seq(Nat) /\ \E start : Lays(start, n, Flat(pieces), pieces)
<1>1. PICK start : Starts(start, pieces) /\ Flat(pieces) \in Seq(Nat)
  BY FlatLayout, Zenon
<1>2. PICK v \in Seq(Nat) : v = Flat(pieces)
  BY <1>1
<1>3. \A k \in 1 .. n + 1 : start[k] <= Len(v)
  BY <1>1, <1>2, StartsGrow
<1>4. \A k \in 1 .. n : pieces[k] \in Seq(Nat)
  BY DEF ListOf
<1>5. Lays(start, n, v, pieces)
  BY <1>1, <1>2, <1>3, <1>4 DEF Starts, Lays
<1> QED BY <1>2, <1>5

\* So each begins what is left there.
LEMMA PieceBegins ==
  ASSUME NEW start, NEW n \in Nat, NEW v \in Seq(Nat), NEW pieces, Lays(start, n, v, pieces),
         NEW k \in 1 .. n
  PROVE  /\ SubSeq(v, start[k] + 1, Len(v)) \in Seq(Nat)
         /\ Len(SubSeq(v, start[k] + 1, Len(v))) = Len(v) - start[k]
         /\ Begins(pieces[k], SubSeq(v, start[k] + 1, Len(v)))
         /\ pieces[k] = SubSeq(v, start[k] + 1, start[k + 1])
<1>1. PICK a \in Nat, b \in Nat, t \in Seq(Nat) :
        /\ a = start[k] /\ b = start[k + 1] /\ t = pieces[k] /\ b = a + Len(t) /\ b <= Len(v)
        /\ \A c \in 1 .. Len(t) : v[a + c] = t[c]
  <2>1. k \in 1 .. n + 1 /\ k + 1 \in 1 .. n + 1
    OBVIOUS
  <2>2. start[k] \in Nat /\ start[k + 1] \in Nat /\ start[k + 1] <= Len(v)
    BY <2>1 DEF Lays
  <2> QED BY <2>2 DEF Lays
<1>2. PICK l \in Nat, m \in Nat : l = Len(v) /\ m = Len(t) /\ b = a + m /\ b <= l
  BY <1>1, ListTypes
<1>3. /\ SubSeq(v, a + 1, l) \in Seq(Nat) /\ Len(SubSeq(v, a + 1, l)) = l - a
      /\ \A c \in 1 .. l - a : SubSeq(v, a + 1, l)[c] = v[a + c]
  <2>1. /\ SubSeq(v, a + 1, l) \in Seq(Nat) /\ Len(SubSeq(v, a + 1, l)) = l - (a + 1) + 1
        /\ \A c \in 1 .. l - (a + 1) + 1 : SubSeq(v, a + 1, l)[c] = v[a + 1 + c - 1]
    BY <1>2, CellsCut
  <2>2. l - (a + 1) + 1 = l - a /\ \A c \in Nat : a + 1 + c - 1 = a + c
    BY <1>2
  <2> QED BY <2>1, <2>2
<1>4. PICK rest \in Seq(Nat) : rest = SubSeq(v, a + 1, l)
  BY <1>3
<1>5. \A c \in 1 .. m : c \in 1 .. l - a
  BY <1>2
<1>6. Begins(t, rest)
  <2>1. Len(rest) = l - a /\ m <= l - a
    BY <1>2, <1>3, <1>4
  <2>2. \A c \in 1 .. m : t[c] = rest[c]
    BY <1>1, <1>2, <1>3, <1>4, <1>5
  <2>3. DOMAIN t = 1 .. m
    BY <1>2, ListTypes
  <2> QED BY <1>2, <2>1, <2>2, <2>3 DEF Begins
<1>7. t = SubSeq(v, a + 1, b)
  <2>1. PICK d \in Nat : d = a + 1 /\ 1 <= d /\ d <= b + 1 /\ m = b - d + 1
    BY <1>2
  <2>2. \A c \in 1 .. b - d + 1 : t[c] = v[d + c - 1]
    <3> TAKE c \in 1 .. b - d + 1
    <3>1. c \in 1 .. m /\ d + c - 1 = a + c
      BY <1>2, <2>1
    <3> QED BY <1>1, <1>2, <3>1
  <2>3. Len(t) = b - d + 1 /\ b <= Len(v) /\ 1 <= d /\ d <= b + 1
    BY <1>1, <1>2, <2>1
  <2>4. t = SubSeq(v, d, b)
    BY <2>2, <2>3, PartIsCut
  <2> QED BY <2>1, <2>4
<1> QED BY <1>1, <1>2, <1>3, <1>4, <1>6, <1>7

\* A sum, one number after the other.
SumsUp(f, n, sizes) ==
  /\ f[0] = 0 /\ \A k \in 0 .. n : f[k] \in Nat
  /\ \A k \in 1 .. n : f[k] = f[k - 1] + sizes[k]

LEMMA TotalRecursion ==
  ASSUME NEW n \in Nat, NEW sizes, Len(sizes) = n, \A k \in 1 .. n : sizes[k] \in Nat
  PROVE  \E f : SumsUp(f, n, sizes) /\ Total(sizes) = f[n]
<1> DEFINE Unfolds(f) == f = [k \in 0 .. Len(sizes) |-> IF k = 0 THEN 0 ELSE f[k - 1] + sizes[k]]
           upTo == CHOOSE f : Unfolds(f)
           G == [x \in Nat \X (1 .. n) |-> x[1] + sizes[x[2]]]
<1>1. \A x \in Nat : \A k \in 1 .. n : G[<<x, k>>] = x + sizes[k] /\ x + sizes[k] \in Nat
  OBVIOUS
<1>2. Makes(G, n, Nat)
  BY DEF Makes
<1> HIDE DEF G
<1>3. PICK g : Iterates(g, n, Nat, 0, G)
  BY <1>2, Recursion
<1>4. \A k \in 1 .. n : g[k] = g[k - 1] + sizes[k]
  <2> TAKE k \in 1 .. n
  <2>1. k - 1 \in 0 .. n
    OBVIOUS
  <2>2. g[k - 1] \in Nat /\ g[k] = G[<<g[k - 1], k>>]
    BY <1>3, <2>1 DEF Iterates
  <2> QED BY <1>1, <2>2
<1>5. Unfolds(g)
  <2>1. g = [k \in 0 .. n |-> g[k]] /\ g[0] = 0
    BY <1>3 DEF Iterates
  <2>2. \A k \in 0 .. n : g[k] = IF k = 0 THEN 0 ELSE g[k - 1] + sizes[k]
    BY <1>4, <2>1, SMTT(30)
  <2> QED BY <2>1, <2>2
<1>6. Unfolds(upTo)
  <2> HIDE DEF Unfolds
  <2> QED BY <1>5
<1>7. Total(sizes) = upTo[n]
  BY DEF Total
<1> HIDE DEF upTo
<1>8. upTo = [k \in 0 .. n |-> IF k = 0 THEN 0 ELSE upTo[k - 1] + sizes[k]]
  BY <1>6
<1> HIDE DEF Unfolds
<1>9. upTo[0] = 0 /\ \A k \in 1 .. n : upTo[k] = upTo[k - 1] + sizes[k]
  <2>1. upTo[0] = 0
    BY <1>8
  <2>2. ASSUME NEW k \in 1 .. n PROVE upTo[k] = upTo[k - 1] + sizes[k]
    <3>1. k \in 0 .. n /\ k # 0
      OBVIOUS
    <3> QED BY <1>8, <3>1
  <2> QED BY <2>1, <2>2
<1>10. \A k \in 0 .. n : upTo[k] \in Nat
  <2> DEFINE T == {k \in 0 .. n : upTo[k] \in Nat}
  <2>1. 0 \in T
    BY <1>9
  <2>2. ASSUME NEW k \in 0 .. n - 1, k \in T PROVE k + 1 \in T
    <3>1. k + 1 \in 1 .. n /\ k + 1 - 1 = k
      OBVIOUS
    <3> QED BY <1>9, <2>2, <3>1
  <2>3. \A k \in 0 .. n : k \in T
    <3> HIDE DEF T
    <3> QED BY <2>1, <2>2, Induction
  <2> QED BY <2>3
<1> QED BY <1>7, <1>9, <1>10 DEF SumsUp

-----------------------------------------------------------------------------
(* The members of a structure *)

\* Where the k-th member may end, of all that start there.
Located(p, v, k, starts) == UNION {EndsFrom(MemberOf(p, k), v, b) : b \in starts}

LocatesAll(f, p, v, n) ==
  /\ f[0] = {0}
  /\ \A k \in 0 .. n : f[k] \in SUBSET Nat
  /\ \A k \in 1 .. n : f[k] = Located(p, v, k, f[k - 1])

LEMMA MemberEndsRecursion ==
  ASSUME NEW CONSTANT p, NEW CONSTANT v, Len(v) \in Nat, NEW CONSTANT n \in Nat
  PROVE  LocatesAll(MemberEnds(p, v, n), p, v, n)
<1> DEFINE Unfolds(f) == f = [k \in 0 .. n |-> IF k = 0 THEN {0} ELSE Located(p, v, k, f[k - 1])]
           end == CHOOSE f : Unfolds(f)
<1>1. PICK G : G = [x \in (SUBSET Nat) \X (1 .. n) |-> Located(p, v, x[2], x[1])]
  OBVIOUS
<1>2. ASSUME NEW X \in SUBSET Nat, NEW k \in 1 .. n
      PROVE  G[<<X, k>>] = Located(p, v, k, X) /\ Located(p, v, k, X) \in SUBSET Nat
  <2>1. \A b : EndsFrom(MemberOf(p, k), v, b) \subseteq Nat
    BY DEF EndsFrom
  <2>2. Located(p, v, k, X) \in SUBSET Nat
    BY <2>1 DEF Located
  <2> QED BY <1>1, <2>2
<1>3. Makes(G, n, SUBSET Nat)
  BY <1>1, <1>2 DEF Makes
<1>4. PICK g : Iterates(g, n, SUBSET Nat, {0}, G)
  <2>1. {0} \in SUBSET Nat
    OBVIOUS
  <2> QED BY <1>3, <2>1, Recursion
<1>5. \A k \in 1 .. n : g[k] = Located(p, v, k, g[k - 1])
  <2> TAKE k \in 1 .. n
  <2>1. k - 1 \in 0 .. n
    OBVIOUS
  <2>2. g[k - 1] \in SUBSET Nat /\ g[k] = G[<<g[k - 1], k>>]
    BY <1>4, <2>1 DEF Iterates
  <2> QED BY <1>2, <2>2
<1>6. Unfolds(g)
  <2>1. g = [k \in 0 .. n |-> g[k]] /\ g[0] = {0}
    BY <1>4 DEF Iterates
  <2>2. \A k \in 0 .. n : g[k] = IF k = 0 THEN {0} ELSE Located(p, v, k, g[k - 1])
    BY <1>5, <2>1
  <2> QED BY <2>1, <2>2
<1>7. Unfolds(end)
  <2> HIDE DEF Unfolds
  <2> QED BY <1>6
<1>8. MemberEnds(p, v, n) = end
  BY DEF MemberEnds, Located
<1> HIDE DEF end
<1>9. end = [k \in 0 .. n |-> IF k = 0 THEN {0} ELSE Located(p, v, k, end[k - 1])]
  BY <1>7
<1> HIDE DEF Unfolds
<1>10. end[0] = {0} /\ \A k \in 1 .. n : end[k] = Located(p, v, k, end[k - 1])
  <2>1. end[0] = {0}
    BY <1>9
  <2>2. ASSUME NEW k \in 1 .. n PROVE end[k] = Located(p, v, k, end[k - 1])
    <3>1. k \in 0 .. n /\ k # 0
      OBVIOUS
    <3> QED BY <1>9, <3>1
  <2> QED BY <2>1, <2>2
<1>11. \A k \in 0 .. n : end[k] \in SUBSET Nat
  <2> DEFINE T == {k \in 0 .. n : end[k] \in SUBSET Nat}
  <2>1. 0 \in T
    BY <1>10
  <2>2. ASSUME NEW k \in 0 .. n - 1, k \in T PROVE k + 1 \in T
    <3>1. k + 1 \in 1 .. n /\ k + 1 - 1 = k /\ k + 1 \in 0 .. n
      OBVIOUS
    <3>2. end[k + 1] = Located(p, v, k + 1, end[k])
      BY <1>10, <3>1
    <3> QED BY <1>2, <2>2, <3>1, <3>2
  <2>3. \A k \in 0 .. n : k \in T
    <3> HIDE DEF T
    <3> QED BY <2>1, <2>2, Induction
  <2> QED BY <2>3
<1> QED BY <1>8, <1>10, <1>11 DEF LocatesAll

FitsAll(f, known, p, v, isLast, n) ==
  /\ f[0] = {0}
  /\ \A k \in 0 .. n : f[k] \in SUBSET Nat
  /\ \A k \in 1 .. n : f[k] = EndsAfter(known, p, v, isLast, k, f[k - 1])

LEMMA EndsRecursion ==
  ASSUME NEW CONSTANT known, NEW CONSTANT p, NEW CONSTANT v, NEW CONSTANT isLast,
         Len(v) \in Nat, NEW CONSTANT n \in Nat
  PROVE  FitsAll(Ends(known, p, v, isLast, n), known, p, v, isLast, n)
<1> DEFINE Unfolds(f) == f = [k \in 0 .. n |-> IF k = 0 THEN {0} ELSE EndsAfter(known, p, v, isLast, k, f[k - 1])]
           end == CHOOSE f : Unfolds(f)
<1>1. PICK G : G = [x \in (SUBSET Nat) \X (1 .. n) |-> EndsAfter(known, p, v, isLast, x[2], x[1])]
  OBVIOUS
<1>2. ASSUME NEW X \in SUBSET Nat, NEW k \in 1 .. n
      PROVE  G[<<X, k>>] = EndsAfter(known, p, v, isLast, k, X) /\ EndsAfter(known, p, v, isLast, k, X) \in SUBSET Nat
  <2>1. \A b \in Nat : b .. Len(v) \subseteq Nat
    OBVIOUS
  <2>2. EndsAfter(known, p, v, isLast, k, X) \in SUBSET Nat
    BY <2>1 DEF EndsAfter
  <2> QED BY <1>1, <2>2
<1>3. Makes(G, n, SUBSET Nat)
  BY <1>1, <1>2 DEF Makes
<1>4. PICK g : Iterates(g, n, SUBSET Nat, {0}, G)
  <2>1. {0} \in SUBSET Nat
    OBVIOUS
  <2> QED BY <1>3, <2>1, Recursion
<1>5. \A k \in 1 .. n : g[k] = EndsAfter(known, p, v, isLast, k, g[k - 1])
  <2> TAKE k \in 1 .. n
  <2>1. k - 1 \in 0 .. n
    OBVIOUS
  <2>2. g[k - 1] \in SUBSET Nat /\ g[k] = G[<<g[k - 1], k>>]
    BY <1>4, <2>1 DEF Iterates
  <2> QED BY <1>2, <2>2
<1>6. Unfolds(g)
  <2>1. g = [k \in 0 .. n |-> g[k]] /\ g[0] = {0}
    BY <1>4 DEF Iterates
  <2>2. \A k \in 0 .. n : g[k] = IF k = 0 THEN {0} ELSE EndsAfter(known, p, v, isLast, k, g[k - 1])
    BY <1>5, <2>1
  <2> QED BY <2>1, <2>2
<1>7. Unfolds(end)
  <2> HIDE DEF Unfolds
  <2> QED BY <1>6
<1>8. Ends(known, p, v, isLast, n) = end
  BY DEF Ends
<1> HIDE DEF end
<1>9. end = [k \in 0 .. n |-> IF k = 0 THEN {0} ELSE EndsAfter(known, p, v, isLast, k, end[k - 1])]
  BY <1>7
<1> HIDE DEF Unfolds
<1>10. end[0] = {0} /\ \A k \in 1 .. n : end[k] = EndsAfter(known, p, v, isLast, k, end[k - 1])
  <2>1. end[0] = {0}
    BY <1>9
  <2>2. ASSUME NEW k \in 1 .. n PROVE end[k] = EndsAfter(known, p, v, isLast, k, end[k - 1])
    <3>1. k \in 0 .. n /\ k # 0
      OBVIOUS
    <3> QED BY <1>9, <3>1
  <2> QED BY <2>1, <2>2
<1>11. \A k \in 0 .. n : end[k] \in SUBSET Nat
  <2> DEFINE T == {k \in 0 .. n : end[k] \in SUBSET Nat}
  <2>1. 0 \in T
    BY <1>10
  <2>2. ASSUME NEW k \in 0 .. n - 1, k \in T PROVE k + 1 \in T
    <3>1. k + 1 \in 1 .. n /\ k + 1 - 1 = k /\ k + 1 \in 0 .. n
      OBVIOUS
    <3>2. end[k + 1] = EndsAfter(known, p, v, isLast, k + 1, end[k])
      BY <1>10, <3>1
    <3> QED BY <1>2, <2>2, <3>1, <3>2
  <2>3. \A k \in 0 .. n : k \in T
    <3> HIDE DEF T
    <3> QED BY <2>1, <2>2, Induction
  <2> QED BY <2>3
<1> QED BY <1>8, <1>10, <1>11 DEF FitsAll

\* What is left of some cells.
IsLeft(rest, v, b) == rest = SubSeq(v, b + 1, Len(v))

\* A member of one of these types is sized by its own cells.
LEMMA MemberSizesItself ==
  ASSUME NEW ptr, NEW lengths, NEW m, NEW t, NEW rest, Allows(ptr, lengths, m, t),
         rest \in Seq(Nat), Begins(t, rest), SizesItself(m)
  PROVE  SizeByContent(m.in, rest) = {Len(t)}
BY ContentSize

\* The cells of a member: its size is found without TDH if it is in its type, its
\* own cells or the schema, and otherwise not at all.
LEMMA MemberIsLocated ==
  ASSUME NEW CONSTANT m, IsSimple(m), IsMember(m), NEW CONSTANT lengths,
         Literal(m.length) => lengths = {m.length.n},
         NEW CONSTANT t, NEW CONSTANT x, IsValue(pointerSize, lengths, m, t, x),
         NEW CONSTANT v \in Seq(Nat), NEW CONSTANT b \in Nat, b + Len(t) <= Len(v),
         NEW CONSTANT rest \in Seq(Nat), IsLeft(rest, v, b), Begins(t, rest)
  PROVE  EndsFrom(m, v, b) = IF SizedAlone(m) THEN {b + Len(t)} ELSE {}
<1>1. /\ t \in Seq(Nat) /\ Allows(pointerSize, lengths, m, t)
      /\ FixedSizeOf(m.in) # {} => Len(t) \in FixedSizeOf(m.in)
      /\ m.in \in {"binary", "null"} => HasLength(m)
  BY DEF IsValue
<1>2. m.form = "value" /\ m.in \in InTypes /\ m.in \notin Remaining \cup {"sid"}
      /\ (m.in \in Counted => Literal(m.length) /\ ~HasLength(m)) /\ (m.in = "ipv6" => HasLength(m))
  BY DEF IsMember
<1>3. Len(t) \in Nat /\ Len(v) \in Nat /\ b + Len(t) \in 0 .. Len(v)
  BY <1>1, ListTypes
<1>4. Literal(m.length) /\ ~HasLength(m) => m.length = Literally(0)
  BY DEF IsSimple, IsNumber, Literal, HasLength, Literally
<1>5. FixedSize(m) = IF m.in \in ContentSized THEN {} ELSE ElementSize(m)
  BY <1>2 DEF FixedSize
<1>6. EndsFrom(m, v, b) = {b + s : s \in IF FixedSize(m) # {} THEN FixedSize(m) ELSE VariableMemberSize(m, rest)}
                          \cap 0 .. Len(v)
  BY DEF EndsFrom, IsLeft
<1>7. ASSUME FixedSize(m) = {Len(t)} \/ (FixedSize(m) = {} /\ VariableMemberSize(m, rest) = {Len(t)})
      PROVE  EndsFrom(m, v, b) = {b + Len(t)}
  BY <1>3, <1>6, <1>7
<1>8. ASSUME ~SizedAlone(m) PROVE EndsFrom(m, v, b) = {}
  <2>1. m.in # "pointer" /\ ~Literal(m.length)
    BY <1>8 DEF SizedAlone
  <2>2. FixedSize(m) = {}
    BY <1>5, <2>1 DEF ElementSize
  <2>3. m.length # Literally(0)
    BY <2>1 DEF Literal, Literally
  <2>4. VariableMemberSize(m, rest) = {}
    BY <2>3 DEF VariableMemberSize
  <2> QED BY <1>6, <2>2, <2>4
<1>9. ASSUME SizedAlone(m) PROVE EndsFrom(m, v, b) = {b + Len(t)}
  <2>1. CASE m.in = "pointer"
    <3>1. Len(t) = pointerSize
      BY <1>1, <2>1, ValueShapes
    <3>2. FixedSize(m) = {pointerSize}
      BY <1>5, <2>1 DEF ElementSize, ContentSized, Counted, Remaining
    <3> QED BY <1>7, <3>1, <3>2
  <2>2. m.in # "pointer" => Literal(m.length)
    BY <1>9 DEF SizedAlone
  <2>3. CASE m.in \in Counted
    <3>1. m.length = Literally(0) /\ FixedSize(m) = {}
      BY <1>2, <1>4, <1>5, <2>3 DEF ContentSized
    <3>2. SizeByContent(m.in, rest) = {Len(t)}
      <4>1. SizesItself(m)
        BY <2>3 DEF SizesItself
      <4>2. Allows(pointerSize, lengths, m, t) /\ rest \in Seq(Nat) /\ Begins(t, rest)
        BY <1>1
      <4> QED BY <4>1, <4>2, MemberSizesItself
    <3>3. VariableMemberSize(m, rest) = {Len(t)}
      BY <1>2, <1>3, <2>3, <3>1, <3>2 DEF VariableMemberSize, ContentSized, Failed
    <3> QED BY <1>7, <3>1, <3>3
  <2>4. CASE m.in \in Single \cup {"guid", "systemtime"}
    <3>1. Literal(m.length) /\ m.in \notin ContentSized /\ m.in # "pointer" /\ m.in # "wide"
      BY <2>2, <2>4 DEF ContentSized, Counted, Remaining, Single, Numeric
    <3>2. FixedSize(m) = TypeSize(m)
      BY <1>5, <3>1 DEF ElementSize, TypeSize, InCells
    <3>3. Len(t) \in TypeSize(m)
      BY <1>1, <2>4, ValueShapes
    <3>4. PICK k : TypeSize(m) = {k}
      BY <2>4, FixedSizes DEF TypeSize
    <3> QED BY <1>7, <3>2, <3>3, <3>4
  <2>5. CASE m.in \in {"ansi", "wide", "ipv6", "binary", "null"}
    <3>1. Literal(m.length) /\ m.in \notin ContentSized /\ m.in # "pointer" /\ FixedSizeOf(m.in) = {}
      BY <2>2, <2>5, FixedSizes DEF ContentSized, Counted, Remaining, Single, Numeric
    <3>2. CASE HasLength(m)
      <4>1. \A n \in lengths : Len(t) = InCells(m.in, n)
        BY <1>1, <2>5, <3>2, ValueShapes
      <4>2. Len(t) = InCells(m.in, m.length.n)
        BY <3>1, <4>1
      <4>3. FixedSize(m) = {InCells(m.in, m.length.n)}
        BY <1>5, <3>1, <3>2 DEF ElementSize
      <4> QED BY <1>7, <4>2, <4>3
    <3>3. CASE ~HasLength(m)
      <4>1. m.length = Literally(0) /\ FixedSize(m) = {} /\ m.in \in {"ansi", "wide"}
        BY <1>1, <1>2, <1>4, <1>5, <2>5, <3>1, <3>3 DEF ElementSize
      <4>2. SizeByContent(m.in, rest) = {Len(t)}
        <5>1. SizesItself(m)
          BY <3>3, <4>1 DEF SizesItself
        <5>2. Allows(pointerSize, lengths, m, t) /\ rest \in Seq(Nat) /\ Begins(t, rest)
          BY <1>1
        <5> QED BY <5>1, <5>2, MemberSizesItself
      <4>3. VariableMemberSize(m, rest) = {Len(t)}
        BY <1>2, <1>3, <4>1, <4>2 DEF VariableMemberSize, Failed
      <4> QED BY <1>7, <4>1, <4>3
    <3> QED BY <3>2, <3>3
  <2> QED BY <1>2, <2>1, <2>3, <2>4, <2>5 DEF InTypes, ContentSized
<1> QED BY <1>8, <1>9

\* A structure that was written: its members, and their pieces over all elements.
HasMembers(p) ==
  /\ Len(p.members) \in Nat \ {0} /\ DOMAIN p.members = 1 .. Len(p.members)
  /\ \A k \in DOMAIN p.members : IsSimple(p.members[k]) /\ IsMember(p.members[k])

PartIs(lengths, m, t, x) ==
  /\ IsValue(pointerSize, lengths, m, t, x) /\ ~WidthsDiffer(pointerSize, m)
  /\ Literal(m.length) => lengths = {m.length.n}

PartsAre(p, n, pieces, values, told) ==
  \A k \in 1 .. n : PartIs(told[k], MemberOf(p, k), pieces[k], values[k])

LEMMA Remainder ==
  ASSUME NEW CONSTANT a \in Nat, NEW CONSTANT b \in Nat, b > 0
  PROVE  (a % b) + 1 \in 1 .. b
OBVIOUS

LEMMA MemberIsThere ==
  ASSUME NEW CONSTANT p, HasMembers(p), NEW CONSTANT k \in Nat, k > 0
  PROVE  \E h \in DOMAIN p.members : MemberOf(p, k) = p.members[h]
<1>1. PICK m \in Nat : m = Len(p.members) /\ m > 0 /\ DOMAIN p.members = 1 .. m
  BY DEF HasMembers
<1>2. ((k - 1) % m) + 1 \in 1 .. m
  <2>1. PICK a \in Nat : a = k - 1
    OBVIOUS
  <2>2. (a % m) + 1 \in 1 .. m
    BY <1>1, Remainder
  <2> QED BY <2>1, <2>2
<1> QED BY <1>1, <1>2 DEF MemberOf

LEMMA MemberIsOne ==
  ASSUME NEW CONSTANT p, HasMembers(p), NEW CONSTANT k \in Nat, k > 0
  PROVE  IsSimple(MemberOf(p, k)) /\ IsMember(MemberOf(p, k))
<1>1. PICK h \in DOMAIN p.members : MemberOf(p, k) = p.members[h]
  BY MemberIsThere
<1> QED BY <1>1 DEF HasMembers

\* Each is located as far as those before it are sized without TDH.
AllAlone(p, k) == \A h \in 1 .. k : SizedAlone(MemberOf(p, h))

LEMMA PartsAreLocated ==
  ASSUME NEW CONSTANT p, HasMembers(p), NEW CONSTANT n \in Nat, NEW CONSTANT v \in Seq(Nat),
         NEW CONSTANT start, NEW CONSTANT pieces, Lays(start, n, v, pieces),
         NEW CONSTANT values, NEW CONSTANT told, PartsAre(p, n, pieces, values, told)
  PROVE  \A k \in 0 .. n : MemberEnds(p, v, n)[k] = IF AllAlone(p, k) THEN {start[k + 1]} ELSE {}
<1> DEFINE T == {k \in 0 .. n : MemberEnds(p, v, n)[k] = IF AllAlone(p, k) THEN {start[k + 1]} ELSE {}}
<1>1. Len(v) \in Nat
  BY ListTypes
<1>2. /\ MemberEnds(p, v, n)[0] = {0}
      /\ \A k \in 1 .. n : MemberEnds(p, v, n)[k] = Located(p, v, k, MemberEnds(p, v, n)[k - 1])
  <2>1. LocatesAll(MemberEnds(p, v, n), p, v, n)
    BY <1>1, MemberEndsRecursion
  <2> QED BY <2>1 DEF LocatesAll
<1>3. 0 \in T
  <2>1. AllAlone(p, 0) /\ start[0 + 1] = 0
    BY DEF AllAlone, Lays
  <2> QED BY <1>2, <2>1
<1>4. ASSUME NEW k \in 0 .. n - 1, k \in T PROVE k + 1 \in T
  <2>1. k + 1 \in 1 .. n /\ k + 1 \in 0 .. n /\ k + 1 \in 1 .. n + 1 /\ k + 1 - 1 = k /\ k + 1 > 0 /\ k + 1 \in Nat
    OBVIOUS
  <2>2. PICK j \in Nat : j = k + 1
    OBVIOUS
  <2>3. PICK m : m = MemberOf(p, j)
    OBVIOUS
  <2>4. IsSimple(m) /\ IsMember(m) /\ PartIs(told[j], m, pieces[j], values[j])
    BY <2>1, <2>2, <2>3, MemberIsOne DEF PartsAre
  <2>5. PICK t : t = pieces[j]
    OBVIOUS
  <2>6. PICK a \in Nat : a = start[j]
    BY <2>1, <2>2 DEF Lays
  <2>7. t \in Seq(Nat) /\ a + Len(t) <= Len(v) /\ start[j + 1] = a + Len(t)
    <3>1. j + 1 \in 1 .. n + 1
      BY <2>1, <2>2
    <3> QED BY <2>1, <2>2, <2>5, <2>6, <3>1 DEF Lays
  <2>8. PICK rest \in Seq(Nat) : IsLeft(rest, v, a) /\ Begins(t, rest)
    <3>1. j \in 1 .. n
      BY <2>1, <2>2
    <3>2. /\ SubSeq(v, start[j] + 1, Len(v)) \in Seq(Nat)
          /\ Begins(pieces[j], SubSeq(v, start[j] + 1, Len(v)))
      BY <3>1, PieceBegins
    <3> QED BY <2>5, <2>6, <3>2 DEF IsLeft
  <2>9. EndsFrom(m, v, a) = IF SizedAlone(m) THEN {start[j + 1]} ELSE {}
    <3>1. PICK x, lengths : /\ IsValue(pointerSize, lengths, m, t, x)
                            /\ Literal(m.length) => lengths = {m.length.n}
      BY <2>4, <2>5 DEF PartIs
    <3>2. EndsFrom(m, v, a) = IF SizedAlone(m) THEN {a + Len(t)} ELSE {}
      BY <2>4, <2>7, <2>8, <3>1, MemberIsLocated
    <3> QED BY <2>7, <3>2
  <2>10. AllAlone(p, j) <=> AllAlone(p, k) /\ SizedAlone(m)
    <3>1. \A h \in 1 .. j : h = j \/ h \in 1 .. k
      BY <2>2
    <3>2. j \in 1 .. j /\ \A h \in 1 .. k : h \in 1 .. j
      BY <2>2
    <3> QED BY <2>3, <3>1, <3>2 DEF AllAlone
  <2>11. MemberEnds(p, v, n)[j] = Located(p, v, j, MemberEnds(p, v, n)[k])
    BY <1>2, <2>1, <2>2
  <2>12. CASE AllAlone(p, k)
    <3>1. MemberEnds(p, v, n)[k] = {a}
      BY <1>4, <2>2, <2>6, <2>12
    <3>2. MemberEnds(p, v, n)[j] = EndsFrom(m, v, a)
      BY <2>3, <2>11, <3>1 DEF Located
    <3> QED BY <2>1, <2>2, <2>9, <2>10, <2>12, <3>2
  <2>13. CASE ~AllAlone(p, k)
    <3>1. MemberEnds(p, v, n)[k] = {}
      BY <1>4, <2>13
    <3>2. MemberEnds(p, v, n)[j] = {}
      BY <2>11, <3>1 DEF Located
    <3> QED BY <2>1, <2>2, <2>10, <2>13, <3>2
  <2> QED BY <2>12, <2>13
<1>5. \A k \in 0 .. n : k \in T
  <2> HIDE DEF T
  <2> QED BY <1>3, <1>4, Induction
<1> QED BY <1>5

-----------------------------------------------------------------------------
(* A structure is cut in one way *)

\* Two values of a member that are found at the same place are one.
LEMMA OneSize ==
  ASSUME NEW CONSTANT m, IsMember(m), NEW CONSTANT ptr, NEW CONSTANT lengths, NEW CONSTANT t, NEW CONSTANT x,
         IsValue(ptr, lengths, m, t, x), NEW CONSTANT u, Allows(ptr, lengths, m, u),
         NEW CONSTANT rest, rest \in Seq(Nat), Begins(t, rest), Begins(u, rest)
  PROVE  Len(t) = Len(u)
<1>1. Allows(ptr, lengths, m, t) /\ lengths # {} /\ (m.in \in {"binary", "null"} => HasLength(m))
  BY DEF IsValue
<1>2. m.in \in InTypes /\ m.in \notin Remaining /\ m.in # "sid" /\ (m.in = "ipv6" => HasLength(m))
  BY DEF IsMember
<1>3. CASE m.in = "pointer"
  BY <1>1, <1>3, ValueShapes
<1>4. CASE m.in \in Single \cup {"guid", "systemtime"}
  <2>1. PICK k : TypeSize(m) = {k}
    BY <1>4, FixedSizes DEF TypeSize
  <2>2. Len(t) \in TypeSize(m) /\ Len(u) \in TypeSize(m)
    BY <1>1, <1>4, ValueShapes
  <2> QED BY <2>1, <2>2
<1>5. CASE m.in \in {"ansi", "wide", "ipv6", "binary", "null"} /\ HasLength(m)
  <2>1. \A n \in lengths : Len(t) = InCells(m.in, n)
    BY <1>1, <1>5, ValueShapes
  <2>2. \A n \in lengths : Len(u) = InCells(m.in, n)
    BY <1>5, ValueShapes
  <2> QED BY <1>1, <2>1, <2>2
<1>6. CASE SizesItself(m)
  <2>1. SizeByContent(m.in, rest) = {Len(t)} /\ SizeByContent(m.in, rest) = {Len(u)}
    BY <1>1, <1>6, MemberSizesItself
  <2> QED BY <2>1
<1>7. m.in \in {"ansi", "wide"} /\ ~HasLength(m) => SizesItself(m)
  BY DEF SizesItself
<1>8. m.in \in Counted => SizesItself(m)
  BY DEF SizesItself
<1> QED BY <1>1, <1>2, <1>3, <1>4, <1>5, <1>6, <1>7, <1>8 DEF InTypes, ContentSized

LEMMA FitsAnywhere ==
  ASSUME NEW CONSTANT m, IsMember(m), NEW CONSTANT ptr, NEW CONSTANT lengths, NEW CONSTANT u, NEW CONSTANT isLast,
         ValueFits(ptr, lengths, m, u, isLast)
  PROVE  Allows(ptr, lengths, m, u)
<1>1. m.in \notin Remaining /\ m.in \in InTypes
  BY DEF IsMember
<1>2. CASE m.in = "pointer"
  BY <1>2, FixedSizes DEF ValueFits, Allows, Counted, Remaining, Single, Numeric
<1>3. CASE m.in # "pointer" /\ FixedSizeOf(m.in) # {}
  BY <1>1, <1>3, FixedSizes DEF ValueFits, Allows, Counted, Remaining, Single, Numeric
<1>4. CASE m.in \in Counted
  BY <1>1, <1>4, FixedSizes DEF ValueFits, Allows, Counted, Remaining, Single, Numeric
<1>5. CASE m.in \in {"ansi", "wide", "ipv6", "binary", "null"}
  BY <1>1, <1>5, FixedSizes DEF ValueFits, Allows, Counted, Remaining, Single, Numeric
<1> QED BY <1>1, <1>2, <1>3, <1>4, <1>5, FixedSizes DEF InTypes, ContentSized

IsCut(u, v, b, e) == u = SubSeq(v, b + 1, e)

\* A part of what begins some cells begins what is left of them.
LEMMA PartBegins ==
  ASSUME NEW CONSTANT W \in Seq(Nat), NEW CONSTANT v, Begins(v, W), NEW CONSTANT b \in Nat, NEW CONSTANT e \in Nat,
         b <= e, e <= Len(v), NEW CONSTANT rest, IsLeft(rest, W, b), NEW CONSTANT u, IsCut(u, v, b, e)
  PROVE  rest \in Seq(Nat) /\ Begins(u, rest) /\ Len(u) = e - b
<1>1. PICK l \in Nat, L \in Nat : /\ l = Len(v) /\ L = Len(W) /\ l <= L /\ e <= l
                                  /\ v \in Seq(Nat) /\ \A k \in 1 .. l : v[k] = W[k]
  BY StartsWith
<1>2. rest = SubSeq(W, b + 1, L)
  BY <1>1 DEF IsLeft
<1> DEFINE d == b + 1
<1>0. d \in Nat /\ 1 <= d /\ d <= L + 1 /\ d <= e + 1
  BY <1>1
<1> HIDE DEF d
<1>3. /\ SubSeq(W, d, L) \in Seq(Nat) /\ Len(SubSeq(W, d, L)) = L - d + 1
      /\ \A c \in 1 .. L - d + 1 : SubSeq(W, d, L)[c] = W[d + c - 1]
  BY <1>0, <1>1, CellsCut
<1>4. /\ SubSeq(v, d, e) \in Seq(Nat) /\ Len(SubSeq(v, d, e)) = e - d + 1
      /\ \A c \in 1 .. e - d + 1 : SubSeq(v, d, e)[c] = v[d + c - 1]
  BY <1>0, <1>1, CellsCut
<1>5. PICK r \in Seq(Nat) : /\ r = rest /\ Len(r) = L - b /\ \A c \in 1 .. L - b : r[c] = W[b + c]
  <2>1. L - d + 1 = L - b /\ \A c \in Nat : d + c - 1 = b + c
    BY <1>1 DEF d
  <2>2. rest = SubSeq(W, d, L)
    BY <1>2 DEF d
  <2>3. SubSeq(W, d, L) \in Seq(Nat) /\ Len(SubSeq(W, d, L)) = L - b
    BY <1>3, <2>1
  <2>4. \A c \in 1 .. L - b : SubSeq(W, d, L)[c] = W[b + c]
    BY <1>3, <2>1
  <2> QED BY <2>2, <2>3, <2>4
<1>6. PICK q \in Seq(Nat) : /\ q = u /\ Len(q) = e - b /\ \A c \in 1 .. e - b : q[c] = v[b + c]
  <2>1. e - d + 1 = e - b /\ \A c \in Nat : d + c - 1 = b + c
    BY <1>1 DEF d
  <2>2. u = SubSeq(v, d, e)
    BY DEF d, IsCut
  <2>3. SubSeq(v, d, e) \in Seq(Nat) /\ Len(SubSeq(v, d, e)) = e - b
    BY <1>4, <2>1
  <2>4. \A c \in 1 .. e - b : SubSeq(v, d, e)[c] = v[b + c]
    BY <1>4, <2>1
  <2> QED BY <2>2, <2>3, <2>4
<1>7. \A c \in 1 .. e - b : q[c] = r[c]
  <2> TAKE c \in 1 .. e - b
  <2>1. b + c \in 1 .. l /\ c \in 1 .. L - b
    <3>1. e <= l /\ l <= L /\ c \in Nat /\ 1 <= c /\ c <= e - b
      BY <1>1
    <3> QED BY <3>1
  <2> QED BY <1>1, <1>5, <1>6, <2>1
<1>8. e - b \in Nat /\ e - b <= L - b /\ DOMAIN q = 1 .. e - b
  <2>1. e - b \in Nat /\ e - b <= L - b
    BY <1>1
  <2> QED BY <1>6, <2>1
<1>9. Begins(q, r)
  BY <1>5, <1>6, <1>7, <1>8 DEF Begins
<1> QED BY <1>5, <1>6, <1>9

\* TDH knows a member's length from the properties before.
Knows(known, p, n, told) == \A k \in 1 .. n : Given(known, MemberOf(p, k).length) = told[k]

\* So there is but one way to cut the cells of a structure into its members.
LEMMA OneCut ==
  ASSUME NEW CONSTANT p, HasMembers(p), NEW CONSTANT n \in Nat,
         NEW CONSTANT W \in Seq(Nat), NEW CONSTANT v, Begins(v, W), NEW CONSTANT u, Begins(u, W),
         NEW CONSTANT start, NEW CONSTANT pieces, Lays(start, n, v, pieces),
         NEW CONSTANT values, NEW CONSTANT told, PartsAre(p, n, pieces, values, told),
         NEW CONSTANT known, Knows(known, p, n, told), NEW CONSTANT isLast
  PROVE  \A k \in 0 .. n : Ends(known, p, u, isLast, n)[k] \subseteq {start[k + 1]}
<1> DEFINE T == {k \in 0 .. n : Ends(known, p, u, isLast, n)[k] \subseteq {start[k + 1]}}
<1>1. /\ Len(u) \in Nat /\ u \in Seq(Nat) /\ Len(u) <= Len(W)
      /\ v \in Seq(Nat) /\ Len(v) \in Nat /\ Len(v) <= Len(W)
  BY StartsWith
<1>2. /\ Ends(known, p, u, isLast, n)[0] = {0}
      /\ \A k \in 1 .. n : Ends(known, p, u, isLast, n)[k]
                             = EndsAfter(known, p, u, isLast, k, Ends(known, p, u, isLast, n)[k - 1])
  <2>1. FitsAll(Ends(known, p, u, isLast, n), known, p, u, isLast, n)
    BY <1>1, EndsRecursion
  <2> QED BY <2>1 DEF FitsAll
<1>3. 0 \in T
  <2>1. start[0 + 1] = 0
    BY DEF Lays
  <2> QED BY <1>2, <2>1
<1>4. ASSUME NEW k \in 0 .. n - 1, k \in T PROVE k + 1 \in T
  <2>1. k + 1 \in 1 .. n /\ k + 1 \in 0 .. n /\ k + 1 \in 1 .. n + 1 /\ k + 1 - 1 = k /\ k + 1 > 0 /\ k + 1 \in Nat
    OBVIOUS
  <2>2. PICK j \in Nat : j = k + 1
    OBVIOUS
  <2>3. PICK m : m = MemberOf(p, j)
    OBVIOUS
  <2>4. IsSimple(m) /\ IsMember(m) /\ PartIs(told[j], m, pieces[j], values[j])
    BY <2>1, <2>2, <2>3, MemberIsOne DEF PartsAre
  <2>5. PICK a \in Nat : a = start[j]
    BY <2>1, <2>2 DEF Lays
  <2>6. PICK z \in Nat : z = start[j + 1] /\ a <= z /\ z <= Len(v)
    <3>1. j + 1 \in 1 .. n + 1 /\ j \in 1 .. n
      BY <2>1, <2>2
    <3>2. start[j + 1] \in Nat /\ start[j + 1] <= Len(v) /\ start[j + 1] = start[j] + Len(pieces[j]) /\ pieces[j] \in Seq(Nat)
      BY <3>1 DEF Lays
    <3>3. Len(pieces[j]) \in Nat
      BY <3>2, ListTypes
    <3> QED BY <2>5, <3>2, <3>3
  <2>7. PICK rest : IsLeft(rest, W, a)
    BY DEF IsLeft
  <2>8. PICK t : t = pieces[j] /\ IsCut(t, v, a, z)
    <3>1. j \in 1 .. n
      BY <2>1, <2>2
    <3>2. pieces[j] = SubSeq(v, start[j] + 1, start[j + 1])
      BY <1>1, <3>1, PieceBegins
    <3> QED BY <2>5, <2>6, <3>2 DEF IsCut
  <2>9. rest \in Seq(Nat) /\ Begins(t, rest) /\ Len(t) = z - a
    BY <2>6, <2>7, <2>8, PartBegins
  <2>10. ASSUME NEW e \in Nat, a <= e, e <= Len(u), MemberFits(known, m, SubSeq(u, a + 1, e), isLast /\ e = Len(u))
         PROVE  e = z
    <3>1. PICK w, last : IsCut(w, u, a, e) /\ MemberFits(known, m, w, last)
      BY <2>10 DEF IsCut
    <3>2. Begins(w, rest) /\ Len(w) = e - a
      BY <2>7, <2>10, <3>1, PartBegins
    <3>3. PICK lengths, x : lengths = told[j] /\ IsValue(pointerSize, lengths, m, t, x)
      BY <2>4, <2>8 DEF PartIs
    <3>4. ValueFits(pointerSize, lengths, m, w, last)
      <4>1. m.form = "value" /\ Given(known, m.length) = lengths
        BY <2>1, <2>2, <2>3, <2>4, <3>3 DEF Knows, IsMember
      <4> QED BY <3>1, <4>1 DEF MemberFits
    <3>5. Allows(pointerSize, lengths, m, w)
      BY <2>4, <3>4, FitsAnywhere
    <3>6. Len(t) = Len(w)
      BY <2>4, <2>9, <3>2, <3>3, <3>5, OneSize
    <3> QED BY <2>6, <2>9, <2>10, <3>2, <3>6
  <2>11. EndsAfter(known, p, u, isLast, j, {a}) \subseteq {z}
    <3>1. EndsAfter(known, p, u, isLast, j, {a})
            = {e \in a .. Len(u) : MemberFits(known, m, SubSeq(u, a + 1, e), isLast /\ e = Len(u))}
      BY <2>3 DEF EndsAfter
    <3>2. \A e \in a .. Len(u) : e \in Nat /\ a <= e /\ e <= Len(u)
      BY <1>1
    <3> QED BY <2>10, <3>1, <3>2
  <2>12. EndsAfter(known, p, u, isLast, j, {}) = {}
    BY DEF EndsAfter
  <2>13. Ends(known, p, u, isLast, n)[k] \in {{}, {a}}
    BY <1>4, <2>2, <2>5
  <2>14. Ends(known, p, u, isLast, n)[j] = EndsAfter(known, p, u, isLast, j, Ends(known, p, u, isLast, n)[k])
    BY <1>2, <2>1, <2>2
  <2> QED BY <2>1, <2>2, <2>6, <2>11, <2>12, <2>13, <2>14
<1>5. \A k \in 0 .. n : k \in T
  <2> HIDE DEF T
  <2> QED BY <1>3, <1>4, Induction
<1> QED BY <1>5

LEMMA OneDivision ==
  ASSUME NEW CONSTANT m \in Nat, NEW CONSTANT a \in Nat, NEW CONSTANT b \in Nat,
         NEW CONSTANT r \in Nat, NEW CONSTANT s \in Nat, r < m, s < m, a * m + r = b * m + s
  PROVE  a = b /\ r = s
<1>1. ASSUME NEW x \in Nat, NEW y \in Nat, NEW i \in Nat, NEW j \in Nat, i < m, x < y, x * m + i = y * m + j
      PROVE  FALSE
  <2>1. PICK d \in Nat : y = x + 1 + d
    <3>1. y - x - 1 \in Nat /\ y = x + 1 + (y - x - 1)
      BY <1>1
    <3> QED BY <3>1
  <2>2. PICK z \in Nat : z = d * m
    OBVIOUS
  <2>3. y * m = x * m + m + z
    BY <2>1, <2>2
  <2>4. PICK w \in Nat : w = x * m
    OBVIOUS
  <2> QED BY <1>1, <2>3, <2>4
<1>2. ~(a < b) /\ ~(b < a)
  BY <1>1
<1>3. a = b
  BY <1>2
<1>4. PICK w \in Nat : w = a * m
  OBVIOUS
<1> QED BY <1>3, <1>4

LEMMA Division ==
  ASSUME NEW CONSTANT x \in Nat, NEW CONSTANT m \in Nat, m > 0
  PROVE  /\ x \div m \in Nat /\ x % m \in Nat /\ x % m < m
         /\ x = (x \div m) * m + (x % m)
OBVIOUS

LEMMA RemainderIs ==
  ASSUME NEW CONSTANT m \in Nat, NEW CONSTANT a \in Nat, NEW CONSTANT r \in Nat, r < m
  PROVE  (a * m + r) % m = r
<1>1. PICK x \in Nat : x = a * m + r
  <2>1. a * m \in Nat
    OBVIOUS
  <2> QED BY <2>1
<1>2. x \div m \in Nat /\ x % m \in Nat /\ x % m < m /\ x = (x \div m) * m + (x % m)
  BY Division
<1> QED BY <1>1, <1>2, OneDivision

\* A member of fixed size.
LEMMA FixedMember ==
  ASSUME NEW CONSTANT m, IsSimple(m), IsMember(m), FixedSize(m) # {},
         NEW CONSTANT lengths, NEW CONSTANT t, NEW CONSTANT x, PartIs(lengths, m, t, x)
  PROVE  FixedSize(m) = {Len(t)} /\ The(FixedSize(m)) = Len(t) /\ Len(t) \in Nat
<1>1. /\ t \in Seq(Nat) /\ Allows(pointerSize, lengths, m, t)
      /\ Literal(m.length) => lengths = {m.length.n}
  BY DEF IsValue, PartIs
<1>2. m.form = "value" /\ m.in \in InTypes /\ m.in \notin Remaining \cup {"sid"}
  BY DEF IsMember
<1>3. m.in \notin ContentSized /\ FixedSize(m) = ElementSize(m)
  BY <1>2 DEF FixedSize
<1>4. FixedSize(m) = {Len(t)}
  <2>1. CASE m.in = "pointer"
    BY <1>1, <1>3, <2>1, ValueShapes DEF ElementSize
  <2>2. CASE m.in \in Single \cup {"guid", "systemtime"}
    <3>1. Literal(m.length) /\ m.in # "pointer" /\ m.in # "wide"
      BY <1>3, <2>2 DEF ElementSize, Single, Numeric
    <3>2. FixedSize(m) = TypeSize(m)
      BY <1>3, <3>1 DEF ElementSize, TypeSize, InCells
    <3>3. PICK k : TypeSize(m) = {k}
      BY <2>2, FixedSizes DEF TypeSize
    <3>4. Len(t) \in TypeSize(m)
      BY <1>1, <2>2, ValueShapes
    <3> QED BY <3>2, <3>3, <3>4
  <2>3. CASE m.in \in {"ansi", "wide", "ipv6", "binary", "null"}
    <3>1. Literal(m.length) /\ m.in # "pointer" /\ FixedSizeOf(m.in) = {}
      BY <1>3, <2>3, FixedSizes DEF ElementSize, Single, Numeric
    <3>2. HasLength(m) /\ FixedSize(m) = {InCells(m.in, m.length.n)}
      BY <1>3, <3>1 DEF ElementSize
    <3>3. \A n \in lengths : Len(t) = InCells(m.in, n)
      BY <1>1, <2>3, <3>2, ValueShapes
    <3> QED BY <1>1, <3>1, <3>2, <3>3
  <2> QED BY <1>2, <1>3, <2>1, <2>2, <2>3 DEF InTypes
<1>5. Len(t) \in Nat
  BY <1>1, ListTypes
<1> QED BY <1>4, <1>5 DEF The

LEMMA FixedIsNumber ==
  ASSUME NEW CONSTANT m, IsSimple(m), IsMember(m), pointerSize \in {1, 2}, FixedSize(m) # {}
  PROVE  The(FixedSize(m)) \in Nat
<1>1. m.form = "value"
  BY DEF IsMember
<1>2. FixedSize(m) = ElementSize(m)
  BY <1>1 DEF FixedSize
<1>3. Literal(m.length) => m.length.n \in Nat
  BY DEF IsSimple, IsNumber, Literal
<1>4. \E n \in Nat : FixedSize(m) = {n}
  <2>1. CASE m.in = "pointer"
    BY <1>2, <2>1 DEF ElementSize
  <2>2. CASE m.in # "pointer" /\ Literal(m.length) /\ HasLength(m)
    <3>1. FixedSize(m) = {InCells(m.in, m.length.n)}
      BY <1>2, <2>2 DEF ElementSize
    <3>2. InCells(m.in, m.length.n) \in Nat
      BY <1>3, <2>2 DEF InCells
    <3> QED BY <3>1, <3>2
  <2>3. CASE m.in # "pointer" /\ Literal(m.length) /\ ~HasLength(m)
    <3>1. FixedSize(m) = FixedSizeOf(m.in)
      BY <1>2, <2>3 DEF ElementSize
    <3> QED BY <3>1, FixedSizes
  <2>4. CASE m.in # "pointer" /\ ~Literal(m.length)
    BY <1>2, <2>4 DEF ElementSize
  <2> QED BY <2>1, <2>2, <2>3, <2>4
<1> QED BY <1>4 DEF The

\* All elements of a structure of fixed size have that size.
LEMMA FixedStructure ==
  ASSUME NEW CONSTANT p, HasMembers(p), pointerSize \in {1, 2}, MembersSize(p) # {},
         NEW CONSTANT c \in Nat, NEW CONSTANT n \in Nat, n = Times(c, Len(p.members)), NEW CONSTANT v,
         NEW CONSTANT start, NEW CONSTANT pieces, Lays(start, n, v, pieces),
         NEW CONSTANT values, NEW CONSTANT told, PartsAre(p, n, pieces, values, told)
  PROVE  \E S \in Nat : MembersSize(p) = {S} /\ Len(v) = S * c
<1>1. PICK m \in Nat : m = Len(p.members) /\ m > 0 /\ DOMAIN p.members = 1 .. m
  BY DEF HasMembers
<1>2. \A k \in 1 .. m : /\ IsSimple(p.members[k]) /\ IsMember(p.members[k]) /\ FixedSize(p.members[k]) # {}
  BY <1>1 DEF HasMembers, MembersSize
<1>3. PICK sizes : sizes = [k \in 1 .. m |-> The(FixedSize(p.members[k]))]
  OBVIOUS
<1>4. \A k \in 1 .. m : sizes[k] \in Nat /\ sizes[k] = The(FixedSize(p.members[k]))
  BY <1>2, <1>3, FixedIsNumber
<1>5. sizes \in Seq(Nat) /\ Len(sizes) = m
  BY <1>3, <1>4
<1>6. MembersSize(p) = {Total(sizes)}
  BY <1>1, <1>2, <1>3 DEF MembersSize
<1>7. PICK up : SumsUp(up, m, sizes) /\ Total(sizes) = up[m]
  BY <1>4, <1>5, TotalRecursion
<1>8. PICK S \in Nat : S = up[m]
  BY <1>7 DEF SumsUp
<1> DEFINE At(q, a, r) == q = a * m + r /\ start[q + 1] = a * S + up[r]
           T == {q \in 0 .. n : \E a \in Nat : \E r \in 0 .. m - 1 : At(q, a, r)}
<1>9. 0 \in T
  <2>1. At(0, 0, 0)
    BY <1>7 DEF SumsUp, Lays
  <2>2. 0 \in 0 .. n /\ 0 \in 0 .. m - 1 /\ 0 \in Nat
    BY <1>1
  <2> HIDE DEF At
  <2> QED BY <2>1, <2>2
<1>10. ASSUME NEW q \in 0 .. n - 1, q \in T PROVE q + 1 \in T
  <2>1. PICK a \in Nat, r \in 0 .. m - 1 : q = a * m + r /\ start[q + 1] = a * S + up[r]
    BY <1>10
  <2>2. PICK j \in Nat : j = q + 1 /\ j \in 1 .. n /\ j - 1 = q /\ j \in 0 .. n
    OBVIOUS
  <2>3. MemberOf(p, j) = p.members[r + 1] /\ r + 1 \in 1 .. m
    <3>1. q % m = r
      <4>1. r \in Nat /\ r < m
        BY <1>1
      <4>2. (a * m + r) % m = r
        BY <4>1, RemainderIs
      <4> QED BY <2>1, <4>2
    <3>2. MemberOf(p, j) = p.members[(q % m) + 1]
      BY <1>1, <2>2 DEF MemberOf
    <3>3. r + 1 \in 1 .. m
      BY <1>1
    <3> QED BY <3>1, <3>2, <3>3, Zenon
  <2>4. start[j + 1] = start[j] + sizes[r + 1]
    <3>1. PICK k \in 1 .. m : k = r + 1
      BY <2>3
    <3>2. PartIs(told[j], p.members[k], pieces[j], values[j])
      BY <2>2, <2>3, <3>1 DEF PartsAre
    <3>3. The(FixedSize(p.members[k])) = Len(pieces[j])
      BY <1>2, <3>2, FixedMember
    <3>4. start[j + 1] = start[j] + Len(pieces[j])
      BY <2>2 DEF Lays
    <3> QED BY <1>4, <3>1, <3>3, <3>4
  <2>5. up[r + 1] = up[r] + sizes[r + 1] /\ up[r] \in Nat /\ sizes[r + 1] \in Nat /\ up[0] = 0
    <3>1. r + 1 - 1 = r /\ r \in 0 .. m
      BY <2>3
    <3> QED BY <1>4, <1>7, <2>3, <3>1 DEF SumsUp
  <2>6. PICK b \in Nat, d \in Nat : b = a * m /\ d = a * S
    OBVIOUS
  <2>7. start[j + 1] = d + up[r + 1]
    <3>1. start[j] = d + up[r]
      BY <2>1, <2>2, <2>6
    <3> QED BY <2>4, <2>5, <2>6, <3>1
  <2>8. CASE r + 1 \in 0 .. m - 1
    <3>1. j = a * m + (r + 1)
      BY <2>1, <2>2, <2>6, <2>8
    <3>2. At(j, a, r + 1)
      BY <2>6, <2>7, <3>1
    <3> QED BY <2>2, <2>8, <3>2
  <2>9. CASE r + 1 = m
    <3>1. (a + 1) * m = b + m /\ (a + 1) * S = d + S
      BY <2>6
    <3>2. j = (a + 1) * m + 0
      BY <2>1, <2>2, <2>6, <2>9, <3>1
    <3>3. start[j + 1] = (a + 1) * S + up[0]
      BY <1>8, <2>5, <2>6, <2>7, <2>9, <3>1
    <3>4. a + 1 \in Nat /\ 0 \in 0 .. m - 1
      BY <1>1
    <3> QED BY <2>2, <3>2, <3>3, <3>4
  <2> QED BY <2>3, <2>8, <2>9, SMTT(30)
<1>11. \A q \in 0 .. n : q \in T
  <2> HIDE DEF T
  <2> QED BY <1>9, <1>10, Induction
<1>12. PICK a \in Nat, r \in 0 .. m - 1 : n = a * m + r /\ start[n + 1] = a * S + up[r]
  <2>1. n \in 0 .. n
    OBVIOUS
  <2> QED BY <1>11, <2>1
<1>13. a = c /\ r = 0
  <2>1. n = c * m + 0 /\ r \in Nat /\ r < m /\ 0 < m
    BY <1>1 DEF Times
  <2> QED BY <1>12, <2>1, OneDivision
<1>14. Len(v) = S * c
  <2>1. start[n + 1] = c * S + 0
    BY <1>7, <1>12, <1>13 DEF SumsUp
  <2>2. start[n + 1] = Len(v)
    BY DEF Lays
  <2>3. c * S = S * c /\ c * S \in Nat
    OBVIOUS
  <2> QED BY <2>1, <2>2, <2>3
<1> QED BY <1>6, <1>7, <1>8, <1>14

-----------------------------------------------------------------------------
(* Events that follow their schema *)

LEMMA SeqOfThem ==
  ASSUME NEW CONSTANT s, s \in Seq({s[k] : k \in DOMAIN s})
  PROVE  Len(s) \in Nat /\ DOMAIN s = 1 .. Len(s)
OBVIOUS

\* The parts of a structure are cells.
PiecesOf(parts) == [k \in DOMAIN parts |-> parts[k].cells]

LEMMA PartsAreCells ==
  ASSUME NEW CONSTANT ptr, NEW CONSTANT written, NEW CONSTANT i, NEW CONSTANT p,
         IsStructureOf(ptr, written, i, p)
  PROVE  /\ Len(written[i].parts) \in Nat /\ DOMAIN written[i].parts = 1 .. Len(written[i].parts)
         /\ ListOf(PiecesOf(written[i].parts), Nat) /\ Len(PiecesOf(written[i].parts)) = Len(written[i].parts)
         /\ written[i].cells = Flat(PiecesOf(written[i].parts))
<1>1. PICK parts : parts = written[i].parts
  OBVIOUS
<1>2. parts \in Seq({parts[k] : k \in DOMAIN parts})
  BY <1>1 DEF IsStructureOf
<1>3. PICK n \in Nat : n = Len(parts) /\ DOMAIN parts = 1 .. n
  BY <1>2, SeqOfThem
<1>4. \A k \in 1 .. n : parts[k].cells \in Seq(Nat)
  <2> TAKE k \in 1 .. n
  <2>1. \E lengths, m : IsValue(ptr, lengths, m, parts[k].cells, parts[k].value)
    BY <1>1, <1>3 DEF IsStructureOf
  <2> QED BY <2>1 DEF IsValue
<1>5. PiecesOf(parts) \in Seq(Seq(Nat)) /\ Len(PiecesOf(parts)) = n
  BY <1>3, <1>4 DEF PiecesOf
<1>6. written[i].cells = Flat(PiecesOf(parts))
  BY <1>1 DEF IsStructureOf, PiecesOf
<1> QED BY <1>1, <1>3, <1>5, <1>6 DEF ListOf

\* Each piece of an event is cells.
LEMMA PieceIsCells ==
  ASSUME NEW CONSTANT r, NEW CONSTANT written, NEW CONSTANT i, IsPiece(r, written, i),
         r.schema[i].form \in {"value", "array", "struct", "unsupported"}
  PROVE  written[i].cells \in Seq(Nat)
<1>1. CASE r.schema[i].form = "value"
  BY <1>1 DEF IsPiece, IsValue
<1>2. CASE r.schema[i].form = "array"
  BY <1>2 DEF IsPiece, IsArrayOf
<1>3. CASE r.schema[i].form = "unsupported"
  BY <1>3 DEF IsPiece
<1>4. CASE r.schema[i].form = "struct"
  <2>1. IsStructureOf(r.pointerSize, written, i, r.schema[i])
    BY <1>4 DEF IsPiece
  <2>2. PICK pieces, n : n \in Nat /\ ListOf(pieces, Nat) /\ Len(pieces) = n /\ written[i].cells = Flat(pieces)
    <3>1. PICK parts : parts = written[i].parts
      OBVIOUS
    <3>2. /\ Len(parts) \in Nat /\ ListOf(PiecesOf(parts), Nat) /\ Len(PiecesOf(parts)) = Len(parts)
          /\ written[i].cells = Flat(PiecesOf(parts))
      BY <2>1, <3>1, PartsAreCells
    <3>3. PICK pieces, n : pieces = PiecesOf(parts) /\ n = Len(parts)
      OBVIOUS
    <3>4. n \in Nat /\ ListOf(pieces, Nat) /\ Len(pieces) = n /\ written[i].cells = Flat(pieces)
      BY <3>2, <3>3
    <3> QED BY <3>4
  <2> QED BY <2>2, PiecesLie
<1> QED BY <1>1, <1>2, <1>3, <1>4

\* An event, its schema, and what was written.
Follows(r, written) ==
  /\ IsWritten(r, written) /\ IsDescribed(r.schema) /\ r.schema \in Schemas

LEMMA WrittenTypes ==
  ASSUME NEW CONSTANT r, NEW CONSTANT written, Follows(r, written)
  PROVE  /\ Len(written) \in Nat /\ DOMAIN written = 1 .. Len(written)
         /\ Len(r.schema) \in Nat /\ DOMAIN r.schema = 1 .. Len(r.schema) /\ Len(written) <= Len(r.schema)
         /\ \A i \in 1 .. Len(written) : IsPiece(r, written, i) /\ written[i].cells \in Seq(Nat)
         /\ \A i \in 1 .. Len(r.schema) : IsProperty(r.schema[i]) /\ (IsSimple(r.schema[i]) \/ IsStructure(r.schema[i]))
<1>1. Len(written) \in Nat /\ DOMAIN written = 1 .. Len(written) /\ Len(written) <= Len(r.schema)
      /\ \A i \in 1 .. Len(written) : IsPiece(r, written, i)
  <2>1. written \in Seq({written[i] : i \in DOMAIN written})
    BY DEF Follows, IsWritten
  <2> QED BY <2>1, SeqOfThem DEF Follows, IsWritten
<1>2. Len(r.schema) \in Nat /\ DOMAIN r.schema = 1 .. Len(r.schema)
      /\ \A i \in 1 .. Len(r.schema) : IsProperty(r.schema[i])
  <2>1. PICK s : s = r.schema
    OBVIOUS
  <2>2. s \in Seq({s[i] : i \in DOMAIN s}) /\ \A i \in DOMAIN s : IsProperty(s[i])
    BY <2>1, SchemasAssumption DEF Follows
  <2> QED BY <2>1, <2>2, SeqOfThem
<1>3. \A i \in 1 .. Len(r.schema) : IsSimple(r.schema[i]) \/ IsStructure(r.schema[i])
  BY <1>2 DEF Follows, IsDescribed
<1>4. \A i \in 1 .. Len(written) : written[i].cells \in Seq(Nat)
  <2> TAKE i \in 1 .. Len(written)
  <2>1. i \in 1 .. Len(r.schema)
    BY <1>1, <1>2
  <2>2. r.schema[i].form \in {"value", "array", "struct", "unsupported"}
    BY <1>2, <2>1 DEF IsProperty
  <2> QED BY <1>1, <2>2, PieceIsCells
<1> QED BY <1>1, <1>2, <1>3, <1>4

\* A number that is told is one.
LEMMA ToldTypes ==
  ASSUME NEW CONSTANT r, NEW CONSTANT written, Follows(r, written),
         NEW CONSTANT x, IsNumber(x), NEW CONSTANT i \in 1 .. Len(r.schema),
         i <= Len(written) + 1
  PROVE  \A n \in Told(written, i, x) : n \in Nat /\ Told(written, i, x) = {n}
<1>1. CASE Literal(x)
  BY <1>1 DEF Told, IsNumber
<1>2. CASE ~Literal(x) /\ x.n \in 1 .. i - 1 /\ Len(written[x.n].cells) = 1
  <2>1. x.n \in 1 .. Len(written)
    BY <1>2, WrittenTypes
  <2>2. written[x.n].cells \in Seq(Nat)
    BY <2>1, WrittenTypes
  <2>3. PICK t \in Seq(Nat) : t = written[x.n].cells /\ Len(t) = 1
    BY <1>2, <2>2
  <2>4. t[1] \in Nat
    BY <2>3
  <2>5. Told(written, i, x) = {t[1]}
    BY <1>2, <2>3 DEF Told
  <2> QED BY <2>4, <2>5
<1>3. CASE ~Literal(x) /\ ~(x.n \in 1 .. i - 1 /\ Len(written[x.n].cells) = 1)
  <2>1. Told(written, i, x) = {}
    BY <1>3 DEF Told
  <2> QED BY <2>1
<1> QED BY <1>1, <1>2, <1>3

\* The pieces of a structure that was written, and where they start.
Structured(written, i, p, c, n, start, pieces, values, told) ==
  /\ c \in Nat /\ Told(written, i, p.count) = {c} /\ n \in Nat /\ n = c * Len(p.members)
  /\ Lays(start, n, written[i].cells, pieces)
  /\ PartsAre(p, n, pieces, values, told)
  /\ \A k \in 1 .. n : told[k] = Told(written, i, MemberOf(p, k).length) /\ values[k] = written[i].parts[k].value

IsAt(p, r, i) == p = r.schema[i]

LEMMA StructureAt ==
  ASSUME NEW CONSTANT r, NEW CONSTANT written, Follows(r, written), NEW CONSTANT i \in 1 .. Len(written),
         NEW CONSTANT p, IsAt(p, r, i), p.form = "struct"
  PROVE  IsStructure(p) /\ HasMembers(p) /\ IsStructureOf(r.pointerSize, written, i, p)
<1>1. IsPiece(r, written, i) /\ (IsSimple(p) \/ IsStructure(p))
  <2>1. i \in 1 .. Len(r.schema)
    BY WrittenTypes
  <2>2. IsPiece(r, written, i) /\ (IsSimple(r.schema[i]) \/ IsStructure(r.schema[i]))
    BY <2>1, WrittenTypes
  <2> QED BY <2>2 DEF IsAt
<1>2. IsStructure(p) /\ IsStructureOf(r.pointerSize, written, i, p)
  BY <1>1 DEF IsPiece, IsSimple, IsAt
<1>3. PICK members : members = p.members
  OBVIOUS
<1>4. Len(members) \in Nat /\ DOMAIN members = 1 .. Len(members) /\ members # <<>>
      /\ \A k \in DOMAIN members : IsSimple(members[k]) /\ IsMember(members[k])
  <2>1. members \in Seq({members[k] : k \in DOMAIN members})
    BY <1>2, <1>3 DEF IsStructure, Range
  <2> QED BY <1>2, <1>3, <2>1, SeqOfThem DEF IsStructure, IsStructureOf
<1>5. Len(members) # 0
  <2>1. members \in Seq({members[k] : k \in DOMAIN members})
    BY <1>2, <1>3 DEF IsStructure, Range
  <2> QED BY <1>4, <2>1
<1>6. HasMembers(p)
  <2>1. Len(members) \in Nat \ {0}
    BY <1>4, <1>5
  <2> QED BY <1>3, <1>4, <2>1 DEF HasMembers
<1> QED BY <1>2, <1>6

LEMMA StructureIsCut ==
  ASSUME NEW CONSTANT r, NEW CONSTANT written, Follows(r, written), pointerSize = r.pointerSize,
         NEW CONSTANT i \in 1 .. Len(written),
         NEW CONSTANT p, IsAt(p, r, i), p.form = "struct"
  PROVE  \E c, n, start, pieces, values, told : Structured(written, i, p, c, n, start, pieces, values, told)
<1>1. IsStructure(p) /\ HasMembers(p) /\ IsStructureOf(r.pointerSize, written, i, p)
  BY StructureAt
<1>2. PICK parts : parts = written[i].parts
  OBVIOUS
<1>3. PICK n, pieces : /\ n \in Nat /\ n = Len(parts) /\ DOMAIN parts = 1 .. n /\ pieces = PiecesOf(parts)
                              /\ ListOf(pieces, Nat) /\ Len(pieces) = n /\ written[i].cells = Flat(pieces)
  BY <1>1, <1>2, PartsAreCells
<1>4. PICK start : Lays(start, n, written[i].cells, pieces)
  BY <1>3, PiecesLie
<1>5. PICK c : c \in Told(written, i, p.count) /\ n = c * Len(p.members)
  BY <1>1, <1>2, <1>3 DEF IsStructureOf
<1>6. c \in Nat /\ Told(written, i, p.count) = {c}
  <2>1. IsNumber(p.count)
    BY <1>1 DEF IsStructure
  <2>2. i \in 1 .. Len(r.schema) /\ i <= Len(written) + 1
    BY WrittenTypes
  <2> QED BY <1>5, <2>1, <2>2, ToldTypes
<1>7. PICK told, values : /\ told = [k \in 1 .. n |-> Told(written, i, MemberOf(p, k).length)]
                          /\ values = [k \in 1 .. n |-> parts[k].value]
  OBVIOUS
<1>8. PartsAre(p, n, pieces, values, told)
  <2>1. ASSUME NEW k \in 1 .. n
        PROVE  PartIs(told[k], MemberOf(p, k), pieces[k], values[k])
    <3>1. told[k] = Told(written, i, MemberOf(p, k).length) /\ values[k] = parts[k].value /\ pieces[k] = parts[k].cells
      BY <1>3, <1>7 DEF PiecesOf
    <3>2. IsValue(pointerSize, Told(written, i, MemberOf(p, k).length), MemberOf(p, k), parts[k].cells, parts[k].value)
      BY <1>1, <1>2, <1>3 DEF IsStructureOf
    <3>3. Literal(MemberOf(p, k).length) => Told(written, i, MemberOf(p, k).length) = {MemberOf(p, k).length.n}
      BY DEF Told
    <3>4. ~WidthsDiffer(pointerSize, MemberOf(p, k))
      <4>1. k \in Nat /\ k > 0
        BY <1>3
      <4>2. PICK h \in DOMAIN p.members : MemberOf(p, k) = p.members[h]
        BY <1>1, <4>1, MemberIsThere
      <4> QED BY <1>1, <4>2 DEF IsStructureOf
    <3> QED BY <3>1, <3>2, <3>3, <3>4 DEF PartIs
  <2> QED BY <2>1 DEF PartsAre
<1>9. \A k \in 1 .. n : told[k] = Told(written, i, MemberOf(p, k).length) /\ values[k] = written[i].parts[k].value
  BY <1>2, <1>7
<1>10. Structured(written, i, p, c, n, start, pieces, values, told)
  BY <1>4, <1>5, <1>6, <1>8, <1>9 DEF Structured
<1> QED BY <1>10

-----------------------------------------------------------------------------
(* The walk along what was written *)

\* The event that the parser walks.
EventOf(r) ==
  /\ properties = r.schema /\ buffer = r.buffer /\ pointerSize = r.pointerSize
  /\ pointerSize \in {1, 2} /\ Len(buffer) <= MaxUsize

CellsOf(written) == [i \in DOMAIN written |-> written[i].cells]

\* The slices are the pieces that were written, as far as the walk has come.
Walks(written, start) ==
  /\ Lays(start, Len(written), buffer, CellsOf(written))
  /\ Len(slices) <= Len(written)
  /\ \A i \in 1 .. Len(slices) : slices[i].start = start[i] /\ slices[i].len = Len(written[i].cells)
  /\ lastOffset = start[Len(slices) + 1]

LEMMA WalkBegins ==
  ASSUME NEW CONSTANT r, EventOf(r), NEW CONSTANT written, Follows(r, written), slices = <<>>, lastOffset = 0
  PROVE  \E start : Walks(written, start)
<1>1. PICK n, cells : n = Len(written) /\ cells = CellsOf(written)
  OBVIOUS
<1>2. n \in Nat /\ DOMAIN written = 1 .. n /\ \A i \in 1 .. n : written[i].cells \in Seq(Nat)
  BY <1>1, WrittenTypes
<1>3. cells \in Seq(Seq(Nat)) /\ Len(cells) = n
  BY <1>1, <1>2 DEF CellsOf
<1>4. PICK start : Lays(start, n, Flat(cells), cells)
  BY <1>2, <1>3, PiecesLie DEF ListOf
<1>5. buffer = Flat(cells)
  BY <1>1 DEF EventOf, Follows, IsWritten, CellsOf
<1>6. Len(slices) = 0 /\ start[1] = 0
  BY <1>4 DEF Lays
<1>7. Len(slices) <= Len(written) /\ lastOffset = start[Len(slices) + 1]
  BY <1>1, <1>2, <1>6
<1>8. \A i \in 1 .. Len(slices) : slices[i].start = start[i] /\ slices[i].len = Len(written[i].cells)
  BY <1>6
<1> QED BY <1>1, <1>4, <1>5, <1>7, <1>8 DEF Walks

\* A number is known to the walk as it was written.
LEMMA CarrierIsWritten ==
  ASSUME NEW CONSTANT r, NEW CONSTANT written, Follows(r, written), NEW CONSTANT start, Walks(written, start),
         Len(slices) \in Nat, NEW CONSTANT j \in Nat, j > 0, j <= Len(slices)
  PROVE  Carrier(slices, j) = IF Len(written[j].cells) = 1 THEN {written[j].cells[1]} ELSE {}
<1>1. j \in 1 .. Len(written) /\ j \in 1 .. Len(slices) /\ DOMAIN written = 1 .. Len(written) /\ Len(written) \in Nat
  BY WrittenTypes DEF Walks
<1>2. slices[j].start = start[j] /\ slices[j].len = Len(written[j].cells)
  BY <1>1 DEF Walks
<1>3. CASE Len(written[j].cells) = 1
  <2>1. CellsOf(written)[j] = written[j].cells
    BY <1>1 DEF CellsOf
  <2>2. \A c \in 1 .. Len(CellsOf(written)[j]) : buffer[start[j] + c] = CellsOf(written)[j][c]
    BY <1>1 DEF Walks, Lays
  <2>3. 1 \in 1 .. Len(CellsOf(written)[j])
    BY <1>3, <2>1
  <2>4. buffer[start[j] + 1] = written[j].cells[1]
    BY <2>1, <2>2, <2>3
  <2> QED BY <1>1, <1>2, <1>3, <2>4 DEF Carrier
<1>4. CASE Len(written[j].cells) # 1
  BY <1>1, <1>2, <1>4 DEF Carrier
<1> QED BY <1>3, <1>4

LEMMA GivenIsTold ==
  ASSUME NEW CONSTANT r, NEW CONSTANT written, Follows(r, written), NEW CONSTANT start, Walks(written, start),
         Len(slices) \in Nat, NEW CONSTANT x, IsNumber(x), NEW CONSTANT i, i = Len(slices) + 1
  PROVE  Given(slices, x) = Told(written, i, x)
<1>1. CASE Literal(x)
  BY <1>1 DEF Given, Told
<1>2. CASE ~Literal(x)
  <2>1. x.n \in Nat /\ x.n > 0
    BY <1>2 DEF IsNumber, Literal
  <2>2. Given(slices, x) = Carrier(slices, x.n)
    BY <1>2 DEF Given
  <2>3. CASE x.n <= Len(slices)
    <3>1. x.n \in 1 .. i - 1
      BY <2>1, <2>3
    <3>2. Carrier(slices, x.n) = IF Len(written[x.n].cells) = 1 THEN {written[x.n].cells[1]} ELSE {}
      BY <2>1, <2>3, CarrierIsWritten
    <3> QED BY <1>2, <2>2, <3>1, <3>2 DEF Told
  <2>4. CASE ~(x.n <= Len(slices))
    <3>1. x.n \notin 1 .. i - 1 /\ x.n \notin 1 .. Len(slices)
      BY <2>1, <2>4
    <3> QED BY <1>2, <2>2, <3>1 DEF Told, Carrier
  <2> QED BY <2>3, <2>4
<1> QED BY <1>1, <1>2

\* What is left begins with the next piece, and ends with the last.
LEMMA RestIsNext ==
  ASSUME NEW CONSTANT r, NEW CONSTANT written, Follows(r, written), NEW CONSTANT start, Walks(written, start),
         Len(slices) \in Nat, buffer \in Seq(Nat), NEW CONSTANT i, i = Len(slices) + 1, i <= Len(written)
  PROVE  /\ Rest \in Seq(Nat) /\ Len(Rest) \in Nat /\ Len(Rest) <= Len(buffer)
         /\ Begins(written[i].cells, Rest)
         /\ i = Len(written) => Len(written[i].cells) = Len(Rest)
<1>1. PICK n \in Nat, k \in Nat : n = Len(written) /\ k = i /\ k \in 1 .. n /\ k + 1 \in 1 .. n + 1 /\ DOMAIN written = 1 .. n
  <2>1. Len(written) \in Nat /\ DOMAIN written = 1 .. Len(written)
    BY WrittenTypes
  <2>2. PICK n \in Nat, k \in Nat : n = Len(written) /\ k = i
    <3>1. i \in Nat
      OBVIOUS
    <3> QED BY <2>1, <3>1, Zenon
  <2>3. k \in 1 .. n /\ k + 1 \in 1 .. n + 1
    BY <2>2
  <2> QED BY <2>1, <2>2, <2>3
<1>2. PICK cells : cells = CellsOf(written) /\ cells[k] = written[i].cells
  <2>1. CellsOf(written)[k] = written[k].cells
    BY <1>1 DEF CellsOf
  <2> QED BY <1>1, <2>1
<1>3. Lays(start, n, buffer, cells) /\ lastOffset = start[k]
  BY <1>1, <1>2 DEF Walks
<1>4. PICK w \in Seq(Nat) : w = buffer
  OBVIOUS
<1>5. /\ SubSeq(w, start[k] + 1, Len(w)) \in Seq(Nat)
      /\ Len(SubSeq(w, start[k] + 1, Len(w))) = Len(w) - start[k]
      /\ Begins(cells[k], SubSeq(w, start[k] + 1, Len(w)))
  BY <1>1, <1>3, <1>4, PieceBegins
<1>6. Rest = SubSeq(w, start[k] + 1, Len(w))
  BY <1>3, <1>4 DEF Rest
<1>7. start[k] \in Nat /\ Len(w) \in Nat /\ start[k] <= Len(w)
  <2>1. k \in 1 .. n + 1
    BY <1>1
  <2> QED BY <1>3, <1>4, <2>1, ListTypes DEF Lays
<1>8. i = Len(written) => Len(written[i].cells) = Len(w) - start[k]
  <2>1. start[k + 1] = start[k] + Len(cells[k]) /\ start[n + 1] = Len(w) /\ cells[k] \in Seq(Nat)
    BY <1>1, <1>3, <1>4 DEF Lays
  <2>2. Len(cells[k]) \in Nat
    BY <2>1, ListTypes
  <2> QED BY <1>1, <1>2, <1>7, <2>1, <2>2
<1>9. Rest \in Seq(Nat) /\ Len(Rest) = Len(w) - start[k] /\ Begins(cells[k], Rest)
  BY <1>5, <1>6
<1>10. Len(Rest) \in Nat /\ Len(Rest) <= Len(buffer)
  BY <1>4, <1>7, <1>9
<1> QED BY <1>2, <1>8, <1>9, <1>10

LEMMA TakenBegins ==
  ASSUME NEW CONSTANT W \in Seq(Nat), NEW CONSTANT k \in 0 .. Len(W)
  PROVE  Begins(SubSeq(W, 1, k), W) /\ Len(SubSeq(W, 1, k)) = k
<1>1. k \in Nat /\ 1 \in Nat /\ 1 <= 1 /\ 1 <= k + 1 /\ k <= Len(W)
  BY ListTypes
<1>2. /\ SubSeq(W, 1, k) \in Seq(Nat) /\ Len(SubSeq(W, 1, k)) = k - 1 + 1
      /\ \A h \in 1 .. k - 1 + 1 : SubSeq(W, 1, k)[h] = W[1 + h - 1]
  BY <1>1, CellsCut
<1>3. PICK t \in Seq(Nat) : t = SubSeq(W, 1, k) /\ Len(t) = k /\ \A h \in 1 .. k : t[h] = W[h]
  <2>1. k - 1 + 1 = k /\ \A h \in 1 .. k : 1 + h - 1 = h
    BY <1>1
  <2> QED BY <1>2, <2>1
<1>4. Begins(t, W)
  BY <1>1, <1>3, ListTypes DEF Begins
<1> QED BY <1>3, <1>4

LEMMA StructureIsSized ==
  ASSUME NEW CONSTANT r, EventOf(r), NEW CONSTANT written, Follows(r, written),
         NEW CONSTANT start, Walks(written, start),
         Len(slices) \in Nat, buffer \in Seq(Nat), NEW CONSTANT i, i = Len(slices) + 1, i <= Len(written),
         NEW CONSTANT p, IsAt(p, r, i), p.form = "struct"
  PROVE  \/ Sizes(p) = {Len(written[i].cells)}
         \/ /\ MembersSize(p) = {}
            /\ \A n \in Sizes(p) : n = Failed \/ n = Len(written[i].cells)
<1>1. i \in 1 .. Len(written) /\ pointerSize = r.pointerSize /\ pointerSize \in {1, 2}
  BY WrittenTypes DEF EventOf
<1>2. IsStructure(p) /\ HasMembers(p)
  BY <1>1, StructureAt
<1>3. PICK c, n, begin, pieces, values, told : Structured(written, i, p, c, n, begin, pieces, values, told)
  BY <1>1, StructureIsCut
<1>4. /\ c \in Nat /\ Told(written, i, p.count) = {c} /\ n \in Nat /\ n = c * Len(p.members)
      /\ Lays(begin, n, written[i].cells, pieces) /\ PartsAre(p, n, pieces, values, told)
  BY <1>3 DEF Structured
<1>5. Given(slices, p.count) = {c}
  BY <1>2, <1>4, GivenIsTold DEF IsStructure
<1>6. /\ Rest \in Seq(Nat) /\ Len(Rest) \in Nat /\ Len(Rest) <= Len(buffer) /\ Begins(written[i].cells, Rest)
  BY RestIsNext
<1>7. PICK v \in Seq(Nat) : v = written[i].cells /\ Len(v) \in Nat /\ Len(v) <= Len(Rest)
  BY <1>6, StartsWith
<1>8. LocalSizes(p) = UNION {Checked(m * d) : m \in MembersSize(p), d \in {c}}
  BY <1>5 DEF LocalSizes, StructSizes
<1>9. CASE MembersSize(p) # {}
  <2>1. PICK S \in Nat : MembersSize(p) = {S} /\ Len(v) = S * c
    <3>1. Lays(begin, n, v, pieces)
      BY <1>4, <1>7
    <3>2. n = Times(c, Len(p.members))
      BY <1>4 DEF Times
    <3>3. c \in Nat /\ n \in Nat /\ PartsAre(p, n, pieces, values, told)
      BY <1>4
    <3> QED BY <1>1, <1>2, <1>9, <3>1, <3>2, <3>3, FixedStructure, SMTT(30)
  <2>2. Checked(S * c) = {Len(v)}
    <3>1. Len(v) <= MaxUsize
      BY <1>6, <1>7, BoundsAssumption DEF EventOf
    <3> QED BY <1>7, <2>1, <3>1, BoundsAssumption DEF Checked
  <2>3. LocalSizes(p) = {Len(v)}
    BY <1>8, <2>1, <2>2
  <2> QED BY <1>7, <2>3 DEF Sizes
<1>10. CASE MembersSize(p) = {}
  <2>1. Sizes(p) = TdhSizes(p)
    BY <1>8, <1>10 DEF Sizes
  <2>2. {j \in DOMAIN slices : properties[j].name = p.name} = {}
    <3>1. DOMAIN slices = 1 .. i - 1
      BY DEF Walks
    <3>2. \A j \in 1 .. i - 1 : r.schema[j].name # p.name
      <4>1. IsPiece(r, written, i)
        BY <1>1, WrittenTypes
      <4> QED BY <4>1 DEF IsPiece, IsAt
    <3> QED BY <3>1, <3>2 DEF EventOf
  <2>3. TdhSizes(p) = {Failed} \cup {k \in 0 .. Len(Rest) : Fits(slices, p, SubSeq(Rest, 1, k), k = Len(Rest))}
    BY <2>2 DEF TdhSizes
  <2>4. ASSUME NEW k \in 0 .. Len(Rest), Fits(slices, p, SubSeq(Rest, 1, k), k = Len(Rest))
        PROVE  k = Len(v)
    <3>1. PICK u, isLast : u = SubSeq(Rest, 1, k) /\ isLast = (k = Len(Rest))
      OBVIOUS
    <3>2. Begins(u, Rest) /\ Len(u) = k
      BY <1>6, <3>1, TakenBegins
    <3>3. StructFits(slices, p, u, isLast)
      BY <2>4, <3>1 DEF Fits
    <3>4. Len(u) \in Ends(slices, p, u, isLast, n)[n]
      BY <1>4, <1>5, <1>10, <3>3 DEF StructFits
    <3>5. Knows(slices, p, n, told)
      <4>1. ASSUME NEW h \in 1 .. n PROVE Given(slices, MemberOf(p, h).length) = told[h]
        <5>1. IsNumber(MemberOf(p, h).length)
          BY <1>2, MemberIsOne, SMTT(30) DEF IsSimple
        <5>2. told[h] = Told(written, i, MemberOf(p, h).length)
          BY <1>3 DEF Structured
        <5> QED BY <5>1, <5>2, GivenIsTold
      <4> QED BY <4>1 DEF Knows
    <3>6. \A h \in 0 .. n : Ends(slices, p, u, isLast, n)[h] \subseteq {begin[h + 1]}
      BY <1>2, <1>4, <1>6, <1>7, <3>2, <3>5, OneCut
    <3>7. Len(u) = begin[n + 1]
      <4>1. n \in 0 .. n
        BY <1>4
      <4> QED BY <3>4, <3>6, <4>1
    <3> QED BY <1>4, <1>7, <3>2, <3>7 DEF Lays
  <2> QED BY <1>7, <1>10, <2>1, <2>3, <2>4
<1> QED BY <1>9, <1>10

\* An array of c elements, of n cells each if it has a length.
IsCounted(n, c, p, v, x) ==
  /\ n \in Nat /\ Given(slices, p.length) = {n}
  /\ c \in Nat /\ Given(slices, p.count) = {c}
  /\ IsArrayOf(pointerSize, {n}, {c}, p, v, x)

LEMMA CountedIsSized ==
  ASSUME NEW p, NEW n, NEW c, NEW v, NEW x, IsCounted(n, c, p, v, x),
         Rest \in Seq(Nat), Len(Rest) <= MaxUsize, Begins(v, Rest)
  PROVE  ArraySizes(p) = {Len(v)}
BY ArrayIsSized DEF IsCounted

\* A piece that is no structure has the size that is found for it.
LEMMA SimpleIsSized ==
  ASSUME NEW CONSTANT r, EventOf(r), NEW CONSTANT written, Follows(r, written),
         NEW CONSTANT start, Walks(written, start),
         Len(slices) \in Nat, buffer \in Seq(Nat), NEW CONSTANT i, i = Len(slices) + 1, i <= Len(written),
         NEW CONSTANT p, IsAt(p, r, i), p.form # "struct"
  PROVE  Sizes(p) = {Len(written[i].cells)}
<1>1. i \in 1 .. Len(written) /\ i \in 1 .. Len(r.schema) /\ pointerSize = r.pointerSize
  BY WrittenTypes DEF EventOf
<1>2. IsPiece(r, written, i) /\ IsProperty(p) /\ IsSimple(p)
  <2>1. IsPiece(r, written, i) /\ IsProperty(r.schema[i]) /\ (IsSimple(r.schema[i]) \/ IsStructure(r.schema[i]))
    BY <1>1, WrittenTypes
  <2> QED BY <2>1 DEF IsAt, IsStructure
<1>3. PICK lengths, counts, v, x : /\ lengths = Told(written, i, p.length) /\ counts = Told(written, i, p.count)
                                  /\ v = written[i].cells /\ x = written[i].value
  OBVIOUS
<1>4. IsNumber(p.length) /\ IsNumber(p.count)
  <2>1. IsNumber(Literally(1))
    BY DEF IsNumber, Literally
  <2> QED BY <1>2, <2>1 DEF IsSimple
<1>5. /\ Given(slices, p.length) = lengths /\ Given(slices, p.count) = counts
      /\ \A n \in lengths : n \in Nat /\ lengths = {n}
      /\ \A n \in counts : n \in Nat /\ counts = {n}
  <2>1. i <= Len(written) + 1
    BY <1>1, WrittenTypes
  <2>2. \A n \in Told(written, i, p.length) : n \in Nat /\ Told(written, i, p.length) = {n}
    BY <1>1, <1>4, <2>1, ToldTypes
  <2>3. \A n \in Told(written, i, p.count) : n \in Nat /\ Told(written, i, p.count) = {n}
    BY <1>1, <1>4, <2>1, ToldTypes
  <2>4. Given(slices, p.length) = Told(written, i, p.length) /\ Given(slices, p.count) = Told(written, i, p.count)
    BY <1>4, GivenIsTold
  <2> QED BY <1>3, <2>2, <2>3, <2>4
<1>6. p.form # "array" => counts = {1}
  BY <1>2, <1>3 DEF IsSimple, Told, Literal, Literally
<1>7. /\ Rest \in Seq(Nat) /\ Len(Rest) \in Nat /\ Len(Rest) <= MaxUsize /\ Begins(v, Rest)
      /\ i = Len(written) => Len(v) = Len(Rest)
  <2>1. /\ Rest \in Seq(Nat) /\ Len(Rest) \in Nat /\ Len(Rest) <= Len(buffer) /\ Begins(written[i].cells, Rest)
        /\ i = Len(written) => Len(written[i].cells) = Len(Rest)
    BY RestIsNext
  <2>2. Len(buffer) <= MaxUsize /\ Len(buffer) \in Nat
    BY ListTypes DEF EventOf
  <2> QED BY <1>3, <2>1, <2>2, BoundsAssumption
<1>8. /\ p.form = "value" => IsValue(pointerSize, lengths, p, v, x) /\ (p.in \in Remaining => i = Len(written))
      /\ p.form = "array" => IsArrayOf(pointerSize, lengths, counts, p, v, x)
      /\ p.form = "unsupported" => HasLength(p) /\ Len(v) \in lengths
  BY <1>1, <1>2, <1>3 DEF IsPiece, IsAt
<1>9. PICK n \in Nat, c \in Nat : lengths = {n} /\ counts = {c}
  <2>1. lengths # {}
    BY <1>2, <1>8 DEF IsSimple, IsValue, IsArrayOf
  <2>2. counts # {}
    BY <1>6, <1>8 DEF IsArrayOf
  <2>3. PICK n \in lengths, c \in counts : TRUE
    BY <2>1, <2>2
  <2> QED BY <1>5, <2>3
<1>10. p.form = "value" => p.in \in InTypes
  BY <1>2 DEF IsProperty
<1>11. LocalSizes(p) = {Len(v)}
  <2>1. Given(slices, p.length) = {n} /\ Given(slices, p.count) = {c}
    BY <1>5, <1>9
  <2>2. Rest \in Seq(Nat) /\ Len(Rest) <= MaxUsize /\ Begins(v, Rest)
    BY <1>7
  <2>3. CASE p.form = "value"
    <3>1. IsValue(pointerSize, {n}, p, v, x)
      BY <1>8, <1>9, <2>3
    <3>2. p.in \in Remaining => Len(v) = Len(Rest)
      BY <1>7, <1>8, <2>3
    <3>3. ValueSizes(p) = {Len(v)}
      BY <1>10, <2>1, <2>2, <2>3, <3>1, <3>2, ValueIsSized
    <3> QED BY <2>3, <3>3 DEF LocalSizes
  <2>4. CASE p.form = "array"
    <3>1. IsArrayOf(pointerSize, {n}, {c}, p, v, x)
      BY <1>8, <1>9, <2>4
    <3>2. ArraySizes(p) = {Len(v)}
      <4>1. IsCounted(n, c, p, v, x)
        BY <2>1, <3>1 DEF IsCounted
      <4> QED BY <2>2, <4>1, CountedIsSized
    <3> QED BY <2>4, <3>2 DEF LocalSizes
  <2>5. CASE p.form = "unsupported"
    <3>1. HasLength(p) /\ Len(v) = n
      BY <1>8, <1>9, <2>5
    <3> QED BY <2>1, <2>5, <3>1 DEF LocalSizes
  <2> QED BY <1>2, <2>3, <2>4, <2>5 DEF IsSimple
<1> QED BY <1>3, <1>11 DEF Sizes

\* Past the last piece no cells are left, and some are asked for.
LEMMA NoneIsSized ==
  ASSUME NEW CONSTANT p, HasNoCells(p), IsSimple(p), pointerSize \in {1, 2}
  PROVE  \A n \in Sizes(p) : n \in Nat /\ n > 0
<1>1. p.form = "value" /\ LocalSizes(p) = ValueSizes(p)
  BY DEF HasNoCells, LocalSizes
<1>2. Literal(p.length) /\ HasLength(p) => p.length.n \in Nat /\ p.length.n > 0
  BY DEF IsSimple, IsNumber, Literal, HasLength
<1>3. CASE p.in = "pointer"
  BY <1>1, <1>3 DEF ValueSizes, ContentSized, Counted, Remaining, Sizes
<1>4. CASE p.in # "pointer"
  <2>1. p.in \in Single \cup {"guid", "systemtime"}
    BY <1>4, FixedSizes DEF HasNoCells
  <2>2. FixedSizeOf(p.in) \in {{1}, {2}} /\ p.in \notin ContentSized /\ p.in # "wide"
    BY <2>1, FixedSizes DEF ContentSized, Counted, Remaining, Single, Numeric
  <2>3. CASE ~Literal(p.length)
    <3>1. ValueSizes(p) = FixedSizeOf(p.in)
      BY <1>4, <2>2, <2>3 DEF ValueSizes, ReferredLength
    <3> QED BY <1>1, <2>2, <3>1 DEF Sizes
  <2>4. CASE Literal(p.length) /\ HasLength(p)
    <3>1. ValueSizes(p) = {p.length.n}
      BY <1>4, <2>2, <2>4 DEF ValueSizes, ElementSize, InCells
    <3> QED BY <1>1, <1>2, <2>4, <3>1 DEF Sizes
  <2>5. CASE Literal(p.length) /\ ~HasLength(p)
    <3>1. SizeByContent(p.in, Rest) = FixedSizeOf(p.in)
      BY <2>1 DEF SizeByContent, Counted, Remaining, Single, Numeric
    <3>2. ValueSizes(p) = FixedSizeOf(p.in)
      BY <1>4, <2>2, <2>5, <3>1 DEF ValueSizes
    <3> QED BY <1>1, <2>2, <3>2 DEF Sizes
  <2> QED BY <2>3, <2>4, <2>5
<1> QED BY <1>3, <1>4

\* The next piece has its size, unless TDH refuses to tell it.
LEMMA NextIsSized ==
  ASSUME NEW CONSTANT r, EventOf(r), NEW CONSTANT written, Follows(r, written),
         NEW CONSTANT start, Walks(written, start),
         Len(slices) \in Nat, buffer \in Seq(Nat), NEW CONSTANT i, i = Len(slices) + 1, i <= Len(written),
         NEW CONSTANT p, IsAt(p, r, i)
  PROVE  \A n \in Sizes(p) : n = Len(written[i].cells) \/ (n = Failed /\ AsksTdh(p))
<1>1. CASE p.form = "struct"
  <2>1. \/ Sizes(p) = {Len(written[i].cells)}
        \/ /\ MembersSize(p) = {}
           /\ \A n \in Sizes(p) : n = Failed \/ n = Len(written[i].cells)
    BY <1>1, StructureIsSized
  <2>2. MembersSize(p) = {} => AsksTdh(p)
    BY <1>1 DEF AsksTdh
  <2> QED BY <2>1, <2>2
<1>2. CASE p.form # "struct"
  <2>1. Sizes(p) = {Len(written[i].cells)}
    BY <1>2, SimpleIsSized
  <2> QED BY <2>1
<1> QED BY <1>1, <1>2

\* Where the pieces end, nothing is left.
LEMMA NothingIsLeft ==
  ASSUME NEW CONSTANT written, Len(written) \in Nat, NEW CONSTANT start, Walks(written, start),
         Len(slices) = Len(written), buffer \in Seq(Nat)
  PROVE  Len(Rest) = 0
<1>1. PICK w \in Seq(Nat) : w = buffer /\ Len(w) \in Nat /\ lastOffset = Len(w)
  BY ListTypes DEF Walks, Lays
<1>2. Rest = SubSeq(w, Len(w) + 1, Len(w))
  BY <1>1 DEF Rest
<1>3. Len(SubSeq(w, Len(w) + 1, Len(w))) = 0
  <2>1. PICK a \in Nat, b \in Nat : a = Len(w) + 1 /\ b = Len(w) /\ 1 <= a /\ a <= b + 1 /\ b <= Len(w) /\ b - a + 1 = 0
    BY <1>1
  <2>2. Len(SubSeq(w, a, b)) = b - a + 1
    BY <2>1, CellsCut
  <2> QED BY <2>1, <2>2
<1> QED BY <1>2, <1>3

\* A step of the walk takes the next piece.
LEMMA PieceIsWalked ==
  ASSUME NEW CONSTANT r, EventOf(r), NEW CONSTANT written, Follows(r, written),
         NEW CONSTANT start, Walks(written, start),
         slices \in Seq([start : Nat, len : Nat]), buffer \in Seq(Nat), ParseNext
  PROVE  Len(slices) < Len(written)
         /\ slices' = Append(slices, [start |-> lastOffset, len |-> Len(written[Len(slices) + 1].cells)])
         /\ lastOffset' = lastOffset + Len(written[Len(slices) + 1].cells)
<1>1. PICK i, p : i \in Nat /\ i = Len(slices) + 1 /\ p = properties[i]
  <2>1. Len(slices) + 1 \in Nat
    OBVIOUS
  <2> QED BY <2>1, Zenon
<1>2. PICK n \in 0 .. Len(Rest) :
        /\ n \in Sizes(properties[Len(slices) + 1])
        /\ slices' = Append(slices, [start |-> lastOffset, len |-> n])
        /\ lastOffset' = lastOffset + n
  BY DEF ParseNext
<1>3. n \in Sizes(p) /\ IsAt(p, r, i) /\ i <= Len(r.schema)
  BY <1>1, <1>2 DEF EventOf, IsAt, ParseNext
<1>4. Len(slices) \in Nat /\ Len(written) \in Nat /\ Len(slices) <= Len(written)
  BY WrittenTypes DEF Walks
<1>5. CASE i <= Len(written)
  <2>1. n = Len(written[i].cells) \/ n = Failed
    BY <1>1, <1>3, <1>4, <1>5, NextIsSized
  <2>2. n # Failed
    BY DEF Failed
  <2> QED BY <1>1, <1>2, <1>4, <1>5, <2>1, <2>2
<1>6. CASE ~(i <= Len(written))
  <2>1. i = Len(written) + 1 /\ Len(slices) = Len(written) /\ Len(written) < Len(r.schema)
    BY <1>1, <1>3, <1>4, <1>6, WrittenTypes
  <2>2. HasNoCells(p)
    BY <1>3, <2>1 DEF Follows, IsWritten, IsAt
  <2>3. IsSimple(p)
    <3>1. i \in 1 .. Len(r.schema)
      BY <1>1, <1>3, <1>4, WrittenTypes
    <3>2. IsSimple(p) \/ IsStructure(p)
      BY <1>3, <3>1, WrittenTypes DEF IsAt
    <3> QED BY <2>2, <3>2 DEF HasNoCells, IsStructure
  <2>4. n > 0
    BY <1>3, <2>2, <2>3, NoneIsSized DEF EventOf
  <2>5. Len(Rest) = 0
    BY <1>4, <2>1, NothingIsLeft
  <2> QED BY <2>4, <2>5
<1> QED BY <1>5, <1>6

LEMMA WalkGoesOn ==
  ASSUME NEW CONSTANT r, EventOf(r), NEW CONSTANT written, Follows(r, written),
         NEW CONSTANT start, Walks(written, start),
         slices \in Seq([start : Nat, len : Nat]), buffer \in Seq(Nat), ParseNext
  PROVE  Walks(written, start)'
<1>1. PICK k \in Nat : k = Len(slices)
  OBVIOUS
<1>2. PICK c : c = Len(written[k + 1].cells)
  OBVIOUS
<1>3. /\ k < Len(written) /\ lastOffset' = lastOffset + c
      /\ slices' = Append(slices, [start |-> lastOffset, len |-> c])
  BY <1>1, <1>2, PieceIsWalked
<1>4. buffer' = buffer
  BY DEF ParseNext, event
<1>5. Len(written) \in Nat /\ DOMAIN written = 1 .. Len(written) /\ k + 1 \in 1 .. Len(written)
  BY <1>1, <1>3, WrittenTypes
<1>6. CellsOf(written)[k + 1] = written[k + 1].cells
  BY <1>5 DEF CellsOf
<1>7. /\ start[k + 1 + 1] = start[k + 1] + Len(CellsOf(written)[k + 1])
      /\ start[k + 1] = lastOffset
  BY <1>1, <1>5 DEF Walks, Lays
<1>8. lastOffset' = start[k + 1 + 1]
  BY <1>2, <1>3, <1>6, <1>7
<1>9. PICK s, e, t, S : s = slices /\ e = [start |-> lastOffset, len |-> c] /\ t = slices' /\ t = Append(s, e)
                        /\ S = [start : Nat, len : Nat] /\ e \in S /\ s \in Seq(S)
  <2>1. c \in Nat
    BY <1>2, <1>5, ListTypes, WrittenTypes
  <2>2. lastOffset \in Nat
    <3>1. k + 1 \in 1 .. Len(written) + 1
      BY <1>5
    <3> QED BY <1>7, <3>1 DEF Walks, Lays
  <2>3. [start |-> lastOffset, len |-> c] \in [start : Nat, len : Nat]
    BY <2>1, <2>2
  <2> QED BY <1>3, <2>3, Zenon
<1>10. Len(t) = k + 1 /\ t[k + 1] = e /\ \A i \in 1 .. k : t[i] = s[i]
  BY <1>1, <1>9, AppendTypes
<1>11. \A i \in 1 .. k + 1 : t[i].start = start[i] /\ t[i].len = Len(written[i].cells)
  <2>1. \A i \in 1 .. k : t[i].start = start[i] /\ t[i].len = Len(written[i].cells)
    BY <1>1, <1>9, <1>10 DEF Walks
  <2>2. t[k + 1].start = start[k + 1] /\ t[k + 1].len = Len(written[k + 1].cells)
    BY <1>2, <1>7, <1>9, <1>10
  <2> QED BY <2>1, <2>2
<1>12. Lays(start, Len(written), buffer', CellsOf(written))
  BY <1>4 DEF Walks
<1>13. Len(slices') <= Len(written) /\ lastOffset' = start[Len(slices') + 1]
  BY <1>3, <1>5, <1>8, <1>9, <1>10
<1> QED BY <1>9, <1>10, <1>11, <1>12, <1>13 DEF Walks

-----------------------------------------------------------------------------
(* What a piece is written as *)

\* No value that is meant is an error.
LEMMA MeaningIsPlain ==
  ASSUME NEW p, p.in \in InTypes, p.out \in OutTypes, NEW v, NEW x, Means(p, v, x)
  PROVE  x # Error
<1>1. Error # Null /\ \A kind, cells : Plain(kind, cells) # Error
  BY DEF Error, Null, Plain
<1>2. ~IsAddress(v, Error)
  BY <1>1 DEF IsAddress
<1>3. ~IsDate(v, Error)
  BY <1>1 DEF IsDate
<1>4. ~Means(p, v, Error)
  <2> SUFFICES ASSUME Means(p, v, Error) PROVE FALSE
    OBVIOUS
  <2>3. p.out \in {"none", "utf8"} => MeansAlone(p.in, v, Error)
    BY WhatIsMeant
  <2>1. CASE p.out # "none"
    <3>1. CASE p.out \in {"ip", "socket"} \cup Hexadecimal
      BY <1>1, <1>2, <3>1, WhatIsMeant
    <3>2. CASE p.out = "utf8"
      BY <1>1, <2>3, <3>2, WhatIsMeant, MeantAlone DEF IsTextOf
    <3> QED BY <2>1, <3>1, <3>2 DEF OutTypes
  <2>2. CASE p.out = "none"
    <3>1. CASE p.in \in TextTypes
      BY <1>1, <2>2, <2>3, <3>1, MeantAlone DEF IsTextOf
    <3>2. CASE p.in \in Numeric \cup {"pointer"}
      BY <1>1, <2>2, <2>3, <3>2, MeantAlone
    <3>3. CASE p.in \in {"binary", "ipv6", "blob", "null"}
      BY <1>1, <2>2, <2>3, <3>3, MeantAlone DEF IsBlob
    <3>4. CASE p.in = "bool"
      <4>1. IsTruth(v, Error)
        BY <2>2, <2>3, <3>4, MeantAlone
      <4> QED BY <1>1, <4>1 DEF IsTruth
    <3>6. CASE p.in = "filetime"
      <4>1. IsInstant(v, Error)
        BY <2>2, <2>3, <3>6, MeantAlone
      <4> QED BY <1>1, <4>1, Zenon DEF IsInstant
    <3>5. CASE p.in \in {"guid", "systemtime"}
      BY <1>1, <1>3, <2>2, <2>3, <3>5, MeantAlone
    <3> QED BY <3>1, <3>2, <3>3, <3>4, <3>5, <3>6, KindsOfTypes
  <2> QED BY <2>1, <2>2
<1> QED BY <1>4

\* What is written of the k-th part.
Becomes(p, values, k) == IF AllAlone(p, k) THEN values[k] ELSE Null

EndsAre(end, p, n, start) == \A k \in 0 .. n : end[k] = IF AllAlone(p, k) THEN {start[k + 1]} ELSE {}

LEMMA MemberIsRead ==
  ASSUME NEW CONSTANT p, HasMembers(p), NEW CONSTANT n \in Nat, NEW CONSTANT v \in Seq(Nat),
         NEW CONSTANT start, NEW CONSTANT pieces, Lays(start, n, v, pieces),
         NEW CONSTANT values, NEW CONSTANT told, PartsAre(p, n, pieces, values, told),
         NEW CONSTANT end, EndsAre(end, p, n, start), NEW CONSTANT k \in 1 .. n
  PROVE  /\ \A y \in MemberOutcomes(p, v, end, k) : y = Becomes(p, values, k)
         /\ Becomes(p, values, k) # Error
<1>1. k \in Nat /\ k > 0 /\ k \in 0 .. n /\ k - 1 \in 0 .. n /\ k - 1 + 1 = k
  OBVIOUS
<1>2. PICK m : m = MemberOf(p, k)
  OBVIOUS
<1>3. IsMember(m) /\ PartIs(told[k], m, pieces[k], values[k])
  BY <1>1, <1>2, MemberIsOne DEF PartsAre
<1>4. m.form = "value" /\ m.in \in InTypes /\ m.in # "sid" /\ m.out \in OutTypes
  BY <1>3 DEF IsMember
<1>5. IsValue(pointerSize, told[k], m, pieces[k], values[k]) /\ ~WidthsDiffer(pointerSize, m)
  BY <1>3 DEF PartIs
<1>6. values[k] # Error
  <2>1. Means(m, pieces[k], values[k])
    BY <1>5 DEF IsValue
  <2> QED BY <1>4, <2>1, MeaningIsPlain
<1>7. CASE AllAlone(p, k)
  <2>1. AllAlone(p, k - 1)
    BY <1>1, <1>7 DEF AllAlone
  <2>2. end[k] = {start[k + 1]} /\ end[k - 1] = {start[k]}
    BY <1>1, <1>7, <2>1 DEF EndsAre
  <2>3. The(end[k]) = start[k + 1] /\ The(end[k - 1]) = start[k] /\ end[k] # {}
    BY <2>2 DEF The
  <2>4. pieces[k] = SubSeq(v, start[k] + 1, start[k + 1])
    BY PieceBegins
  <2>5. MemberOutcomes(p, v, end, k) = Outcomes(m, pieces[k])
    BY <1>2, <2>3, <2>4 DEF MemberOutcomes
  <2>6. \A y \in Outcomes(m, pieces[k]) : y = values[k]
    BY <1>4, <1>5, ValueIsRead
  <2> QED BY <1>6, <1>7, <2>5, <2>6 DEF Becomes
<1>8. CASE ~AllAlone(p, k)
  <2>1. MemberOutcomes(p, v, end, k) = {Null} /\ Becomes(p, values, k) = Null
    BY <1>1, <1>8 DEF EndsAre, MemberOutcomes, Becomes
  <2>2. Null # Error
    BY NoValueIsNull
  <2> QED BY <2>1, <2>2
<1> QED BY <1>7, <1>8

\* The members of the elements that are complete.
ChosenFor(c, p, values, n) == \A k \in 1 .. n : c[k] = Becomes(p, values, k) /\ c[k] # Error

LEMMA MembersAreRead ==
  ASSUME NEW CONSTANT p, HasMembers(p), NEW CONSTANT n \in Nat, NEW CONSTANT v \in Seq(Nat),
         NEW CONSTANT start, NEW CONSTANT pieces, Lays(start, n, v, pieces),
         NEW CONSTANT values, NEW CONSTANT told, PartsAre(p, n, pieces, values, told),
         NEW CONSTANT end, EndsAre(end, p, n, start),
         NEW CONSTANT j \in 0 .. n,
         NEW CONSTANT c, c \in Selections([k \in 1 .. j |-> MemberOutcomes(p, v, end, k)])
  PROVE  ChosenFor(c, p, values, j)
<1>1. PICK sets, U : /\ sets = [k \in 1 .. j |-> MemberOutcomes(p, v, end, k)]
                     /\ U = {Becomes(p, values, k) : k \in 1 .. j}
  OBVIOUS
<1>2. \A k \in 1 .. j : /\ \A y \in sets[k] : y = Becomes(p, values, k)
                        /\ Becomes(p, values, k) # Error
  <2>1. ASSUME NEW k \in 1 .. j
        PROVE  /\ \A y \in MemberOutcomes(p, v, end, k) : y = Becomes(p, values, k)
               /\ Becomes(p, values, k) # Error
    <3>1. k \in 1 .. n
      OBVIOUS
    <3> QED BY <3>1, MemberIsRead
  <2> QED BY <1>1, <2>1
<1>3. SetsWithin(sets, j, U)
  <2>1. Len(sets) = j
    BY <1>1
  <2>2. \A k \in 1 .. j : sets[k] \subseteq U
    BY <1>1, <1>2
  <2> QED BY <2>1, <2>2 DEF SetsWithin
<1>4. j \in Nat /\ c \in Selections(sets)
  BY <1>1
<1>5. IsChoice(c, j, U, sets)
  BY <1>3, <1>4, SelectionsChoose
<1> QED BY <1>2, <1>5 DEF IsChoice, ChosenFor

LEMMA WhichMember ==
  ASSUME NEW CONSTANT p, NEW CONSTANT m \in Nat, m = Len(p.members), NEW CONSTANT a \in Nat,
         NEW CONSTANT k \in 1 .. m
  PROVE  MemberOf(p, a * m + k) = p.members[k]
<1>1. PICK r \in Nat : r = k - 1 /\ r < m /\ m > 0
  OBVIOUS
<1>2. (a * m + r) % m = r
  BY <1>1, RemainderIs
<1>3. PICK b \in Nat : b = a * m
  OBVIOUS
<1>4. PICK q \in Nat : q = a * m + r /\ q = (a * m + k) - 1 /\ q % m = r /\ r + 1 = k
  <2>1. b + r \in Nat /\ b + r = (b + k) - 1 /\ r + 1 = k
    BY <1>1, <1>3
  <2> QED BY <1>2, <1>3, <2>1
<1>5. MemberOf(p, a * m + k) = p.members[(q % m) + 1]
  BY <1>4 DEF MemberOf
<1> QED BY <1>4, <1>5

\* The members are located as far as they are sized alone.
LEMMA FirstElementAlone ==
  ASSUME NEW CONSTANT p, NEW CONSTANT m \in Nat, m = Len(p.members), NEW CONSTANT k \in 1 .. m
  PROVE  AllAlone(p, k) <=> \A h \in 1 .. k : SizedAlone(p.members[h])
<1>1. ASSUME NEW CONSTANT h \in 1 .. k PROVE MemberOf(p, h) = p.members[h]
  <2>1. h \in 1 .. m /\ 0 \in Nat /\ 0 * m + h = h
    OBVIOUS
  <2>2. MemberOf(p, 0 * m + h) = p.members[h]
    BY <2>1, WhichMember
  <2> QED BY <2>1, <2>2
<1> QED BY <1>1 DEF AllAlone

LEMMA AllElementsAlone ==
  ASSUME NEW CONSTANT p, NEW CONSTANT m \in Nat, m = Len(p.members), m > 0,
         NEW CONSTANT c \in Nat, NEW CONSTANT n \in Nat, n = Times(c, m)
  PROVE  /\ (\A k \in 1 .. m : SizedAlone(p.members[k])) => \A k \in 0 .. n : AllAlone(p, k)
         /\ ~(\A k \in 1 .. m : SizedAlone(p.members[k])) => \A k \in m .. n : ~AllAlone(p, k)
<1>1. ASSUME \A k \in 1 .. m : SizedAlone(p.members[k]), NEW CONSTANT k \in 0 .. n, NEW CONSTANT h \in 1 .. k
      PROVE  SizedAlone(MemberOf(p, h))
  <2>1. PICK a \in Nat : a = h - 1
    OBVIOUS
  <2>2. (a % m) + 1 \in 1 .. m
    BY Remainder
  <2> QED BY <1>1, <2>1, <2>2 DEF MemberOf
<1>2. ASSUME NEW CONSTANT h \in 1 .. m, ~SizedAlone(p.members[h]), NEW CONSTANT k \in m .. n
      PROVE  ~AllAlone(p, k)
  <2>1. h \in 1 .. k /\ 0 \in Nat /\ 0 * m + h = h
    OBVIOUS
  <2>2. MemberOf(p, 0 * m + h) = p.members[h]
    BY <1>2, <2>1, WhichMember
  <2> QED BY <1>2, <2>1, <2>2 DEF AllAlone
<1> QED BY <1>1, <1>2 DEF AllAlone

\* An element is written as its members were.
Read(p, chosen, parts, j) ==
  \A k \in 1 .. Len(p.members) :
    /\ chosen[(j - 1) * Len(p.members) + k] # Error
    /\ chosen[(j - 1) * Len(p.members) + k] =
         IF \A h \in 1 .. k : SizedAlone(p.members[h]) THEN parts[(j - 1) * Len(p.members) + k].value ELSE Null

LEMMA ElementIsRead ==
  ASSUME NEW p, NEW chosen, NEW parts, NEW j, Read(p, chosen, parts, j)
  PROVE  ElementMap(p, chosen, j) = Element(p, parts, j) /\ ~HasError(chosen, j, Len(p.members))
<1>1. ~HasError(chosen, j, Len(p.members))
  BY DEF Read, HasError
<1>2. \A k \in 1 .. Len(p.members) :
        Degraded(chosen[(j - 1) * Len(p.members) + k]) =
          IF \A h \in 1 .. k : SizedAlone(p.members[h]) THEN parts[(j - 1) * Len(p.members) + k].value ELSE Null
  BY DEF Read, Degraded
<1>3. [k \in 1 .. Len(p.members) |-> Entry(p.members[k].name, Degraded(chosen[(j - 1) * Len(p.members) + k]))]
      = [k \in 1 .. Len(p.members) |->
           Entry(p.members[k].name,
                 IF \A h \in 1 .. k : SizedAlone(p.members[h])
                 THEN parts[(j - 1) * Len(p.members) + k].value ELSE Null)]
  BY <1>2
<1>4. ElementMap(p, chosen, j) = Element(p, parts, j)
  BY <1>3 DEF ElementMap, Element
<1> QED BY <1>1, <1>4

\* A structure that was written, and its parts.
IsTakenApart(ptr, written, i, p, c, n, start, pieces, values, told) ==
  /\ HasMembers(p) /\ p.form = "struct" /\ IsStructureOf(ptr, written, i, p)
  /\ Structured(written, i, p, c, n, start, pieces, values, told)
  /\ written[i].cells \in Seq(Nat)

IsAlone(p) == p.count = Literally(1)

\* A structure is written as it is.
LEMMA StructIsRead ==
  ASSUME NEW CONSTANT ptr, NEW CONSTANT written, NEW CONSTANT i, NEW CONSTANT p,
         NEW CONSTANT c, NEW CONSTANT n, NEW CONSTANT start, NEW CONSTANT pieces,
         NEW CONSTANT values, NEW CONSTANT told,
         IsTakenApart(ptr, written, i, p, c, n, start, pieces, values, told),
         IsAlone(p), NEW CONSTANT x \in StructOutcomes(p, written[i].cells)
  PROVE  x = written[i].value /\ x # Error
<1>1. PICK v \in Seq(Nat) : /\ v = written[i].cells /\ x \in StructOutcomes(p, v)
                       /\ HasMembers(p) /\ p.form = "struct" /\ IsStructureOf(ptr, written, i, p)
                       /\ Structured(written, i, p, c, n, start, pieces, values, told)
  BY DEF IsTakenApart
<1>2. p.count = Literally(1)
  BY DEF IsAlone
<1>3. PICK m \in Nat : m = Len(p.members) /\ m > 0
  BY <1>1 DEF HasMembers
<1>4. n = m /\ n \in Nat /\ Lays(start, n, v, pieces) /\ PartsAre(p, n, pieces, values, told)
  <2>1. Told(written, i, p.count) = {1}
    BY <1>2 DEF Told, Literally, Literal
  <2>2. c = 1 /\ n = c * m
    BY <1>1, <1>3, <2>1 DEF Structured
  <2> QED BY <1>1, <2>2 DEF Structured
<1>5. PICK end : end = MemberEnds(p, v, m)
  OBVIOUS
<1>6. EndsAre(end, p, n, start)
  <2>1. \A k \in 0 .. n : MemberEnds(p, v, n)[k] = IF AllAlone(p, k) THEN {start[k + 1]} ELSE {}
    BY <1>1, <1>4, PartsAreLocated
  <2> QED BY <1>4, <1>5, <2>1 DEF EndsAre
<1>7. PICK d : /\ d \in Selections([k \in 1 .. m |-> MemberOutcomes(p, v, end, k)])
               /\ x = IF strict /\ HasError(d, 1, m) THEN Error ELSE ElementMap(p, d, 1)
  BY <1>1, <1>3, <1>5 DEF StructOutcomes
<1>8. ChosenFor(d, p, values, n)
  <2>1. n \in 0 .. n /\ d \in Selections([k \in 1 .. n |-> MemberOutcomes(p, v, end, k)])
    BY <1>4, <1>7
  <2> QED BY <1>1, <1>4, <1>6, <2>1, MembersAreRead
<1>9. PICK parts : parts = written[i].parts
  OBVIOUS
<1>10. Read(p, d, parts, 1)
  <2>1. ASSUME NEW CONSTANT k \in 1 .. m
        PROVE  /\ d[k] # Error
               /\ d[k] = IF \A h \in 1 .. k : SizedAlone(p.members[h]) THEN parts[k].value ELSE Null
    <3>1. d[k] = Becomes(p, values, k) /\ d[k] # Error
      BY <1>4, <1>8 DEF ChosenFor
    <3>2. AllAlone(p, k) <=> \A h \in 1 .. k : SizedAlone(p.members[h])
      BY <1>3, FirstElementAlone
    <3>3. values[k] = parts[k].value
      BY <1>1, <1>4, <1>9 DEF Structured
    <3> QED BY <3>1, <3>2, <3>3 DEF Becomes
  <2>2. \A k \in 1 .. m : (1 - 1) * m + k = k
    OBVIOUS
  <2> QED BY <1>3, <2>1, <2>2 DEF Read
<1>11. x = Element(p, parts, 1)
  BY <1>3, <1>7, <1>10, ElementIsRead
<1>12. written[i].value = Element(p, parts, 1)
  BY <1>1, <1>9, <1>2 DEF IsStructureOf
<1>13. \A y : Map(y) # Error
  BY DEF Map, Error
<1> QED BY <1>11, <1>12, <1>13 DEF Element

LEMMA ElementsGrow ==
  ASSUME NEW CONSTANT m \in Nat, m > 0, NEW CONSTANT c \in Nat, NEW CONSTANT n \in Nat, n = Times(c, m),
         NEW CONSTANT j \in 1 .. c
  PROVE  /\ j * m \in m .. n
         /\ \A k \in 1 .. m : (j - 1) * m + k \in 1 .. n
<1>1. PICK a \in Nat, b \in Nat : j = a + 1 /\ c = j + b
  <2>1. j - 1 \in Nat /\ c - j \in Nat /\ j = (j - 1) + 1 /\ c = j + (c - j)
    OBVIOUS
  <2> QED BY <2>1
<1>2. PICK x \in Nat, y \in Nat : x = a * m /\ y = b * m
  OBVIOUS
<1>3. j * m = x + m
  BY <1>1, <1>2
<1>4. n = x + m + y
  <2>1. n = (a + 1 + b) * m
    BY <1>1 DEF Times
  <2> QED BY <1>2, <2>1
<1>5. (j - 1) * m = x
  BY <1>1, <1>2
<1> QED BY <1>3, <1>4, <1>5

LEMMA StructArrayIsRead ==
  ASSUME NEW CONSTANT ptr, NEW CONSTANT written, NEW CONSTANT i, NEW CONSTANT p,
         NEW CONSTANT c, NEW CONSTANT n, NEW CONSTANT start, NEW CONSTANT pieces,
         NEW CONSTANT values, NEW CONSTANT told,
         IsTakenApart(ptr, written, i, p, c, n, start, pieces, values, told),
         IsStructArray(p), NEW CONSTANT x \in StructArrayOutcomes(p, written[i].cells, c)
  PROVE  x = written[i].value /\ x # Error
<1>1. PICK v \in Seq(Nat) : /\ v = written[i].cells /\ x \in StructArrayOutcomes(p, v, c)
                       /\ HasMembers(p) /\ p.form = "struct" /\ IsStructureOf(ptr, written, i, p)
                       /\ Structured(written, i, p, c, n, start, pieces, values, told)
  BY DEF IsTakenApart
<1>2. p.count # Literally(1)
  BY <1>1 DEF IsStructArray
<1>3. PICK m \in Nat : m = Len(p.members) /\ m > 0 /\ DOMAIN p.members = 1 .. m
  BY <1>1 DEF HasMembers
<1>4. /\ n \in Nat /\ c \in Nat /\ n = Times(c, m) /\ n = c * m
      /\ Lays(start, n, v, pieces) /\ PartsAre(p, n, pieces, values, told)
  BY <1>1, <1>3 DEF Structured, Times
<1>5. PICK end : end = MemberEnds(p, v, n)
  OBVIOUS
<1>6. EndsAre(end, p, n, start)
  <2>1. \A k \in 0 .. n : MemberEnds(p, v, n)[k] = IF AllAlone(p, k) THEN {start[k + 1]} ELSE {}
    BY <1>1, <1>4, PartsAreLocated
  <2> QED BY <1>5, <2>1 DEF EndsAre
<1>7. PICK complete : complete = {j \in 1 .. c : end[j * m] # {}}
  OBVIOUS
<1>8. PICK d : /\ d \in Selections([k \in 1 .. Cardinality(complete) * m |-> MemberOutcomes(p, v, end, k)])
               /\ x = IF strict /\ \E j \in complete : HasError(d, j, m) THEN Error
                      ELSE List([j \in 1 .. c |-> IF j \in complete THEN ElementMap(p, d, j) ELSE Null])
  BY <1>1, <1>3, <1>4, <1>5, <1>7 DEF StructArrayOutcomes
<1>9. PICK parts : parts = written[i].parts
  OBVIOUS
<1>10. PICK all : all = \A k \in 1 .. m : SizedAlone(p.members[k])
  OBVIOUS
<1>11. written[i].value = List([j \in 1 .. c |-> IF all THEN Element(p, parts, j) ELSE Null])
  <2>1. Told(written, i, p.count) = {c}
    BY <1>1 DEF Structured
  <2>2. PICK e \in Told(written, i, p.count) :
          written[i].value = IF p.count = Literally(1) THEN Element(p, parts, 1)
                             ELSE List([j \in 1 .. e |-> IF all THEN Element(p, parts, j) ELSE Null])
    BY <1>1, <1>3, <1>9, <1>10, <1>2 DEF IsStructureOf
  <2>3. e = c
    BY <2>1, <2>2
  <2> QED BY <1>2, <2>2, <2>3
<1>12. \A y : List(y) # Error
  BY DEF List, Error
<1>13. \A j \in 1 .. c : j * m \in m .. n /\ j * m \in 0 .. n /\ \A k \in 1 .. m : (j - 1) * m + k \in 1 .. n
  <2>1. ASSUME NEW CONSTANT j \in 1 .. c
        PROVE  j * m \in m .. n /\ \A k \in 1 .. m : (j - 1) * m + k \in 1 .. n
    BY <1>3, <1>4, ElementsGrow
  <2>2. \A q \in m .. n : q \in 0 .. n
    OBVIOUS
  <2> QED BY <2>1, <2>2
<1>14. CASE all
  <2>1. \A k \in 1 .. m : SizedAlone(p.members[k])
    BY <1>10, <1>14
  <2>2. \A k \in 0 .. n : AllAlone(p, k)
    BY <1>3, <1>4, <2>1, AllElementsAlone
  <2>3. complete = 1 .. c
    <3>1. \A j \in 1 .. c : end[j * m] # {}
      BY <1>6, <1>13, <2>2 DEF EndsAre
    <3> QED BY <1>7, <3>1
  <2>4. Cardinality(complete) = c
    BY <1>4, <2>3, FS_Interval
  <2>5. ChosenFor(d, p, values, n)
    <3>1. n \in 0 .. n /\ d \in Selections([k \in 1 .. n |-> MemberOutcomes(p, v, end, k)])
      BY <1>4, <1>8, <2>4
    <3> QED BY <1>1, <1>4, <1>6, <3>1, MembersAreRead
  <2>6. ASSUME NEW CONSTANT j \in 1 .. c PROVE Read(p, d, parts, j)
    <3>1. ASSUME NEW CONSTANT k \in 1 .. m
          PROVE  /\ d[(j - 1) * m + k] # Error
                 /\ d[(j - 1) * m + k] =
                      IF \A h \in 1 .. k : SizedAlone(p.members[h]) THEN parts[(j - 1) * m + k].value ELSE Null
      <4>1. PICK q \in 1 .. n : q = (j - 1) * m + k
        BY <1>13
      <4>2. d[q] = Becomes(p, values, q) /\ d[q] # Error /\ values[q] = parts[q].value
        BY <1>1, <1>9, <2>5 DEF ChosenFor, Structured
      <4>3. AllAlone(p, q)
        BY <1>4, <2>2
      <4>4. \A h \in 1 .. k : SizedAlone(p.members[h])
        BY <2>1
      <4> QED BY <4>1, <4>2, <4>3, <4>4 DEF Becomes
    <3> QED BY <1>3, <3>1 DEF Read
  <2>7. \A j \in 1 .. c : ElementMap(p, d, j) = Element(p, parts, j) /\ ~HasError(d, j, m)
    BY <1>3, <2>6, ElementIsRead
  <2>8. x = List([j \in 1 .. c |-> Element(p, parts, j)])
    BY <1>8, <2>3, <2>7
  <2>9. written[i].value = List([j \in 1 .. c |-> Element(p, parts, j)])
    BY <1>11, <1>14
  <2> QED BY <1>12, <2>8, <2>9
<1>15. CASE ~all
  <2>1. ~(\A k \in 1 .. m : SizedAlone(p.members[k]))
    BY <1>10, <1>15
  <2>2. \A k \in m .. n : ~AllAlone(p, k)
    BY <1>3, <1>4, <2>1, AllElementsAlone
  <2>3. complete = {}
    <3>1. \A j \in 1 .. c : end[j * m] = {}
      BY <1>6, <1>13, <2>2 DEF EndsAre
    <3> QED BY <1>7, <3>1
  <2>4. x = List([j \in 1 .. c |-> Null])
    BY <1>8, <2>3
  <2>5. written[i].value = List([j \in 1 .. c |-> Null])
    BY <1>11, <1>15
  <2> QED BY <1>12, <2>4, <2>5
<1> QED BY <1>14, <1>15

\* What a piece is written as: null, if it may be refused or its out type stands for
\* another width; of that width may be the elements of an array.
AsWritten(written, i, p, x) ==
  \/ x = written[i].value
  \/ x = Null /\ (MayBeRefused(p) \/ WidthsDiffer(pointerSize, p))
  \/ p.form = "array" /\ WidthsDiffer(pointerSize, p) /\ x = Numbers(OutWidth(p), written[i].cells)

LEMMA SimpleIsRead ==
  ASSUME NEW CONSTANT r, EventOf(r), NEW CONSTANT written, Follows(r, written),
         NEW CONSTANT i \in 1 .. Len(written), NEW CONSTANT p, IsAt(p, r, i), p.form # "struct",
         NEW CONSTANT y, y \in Outcomes(p, written[i].cells), ~(strict /\ y = Error)
  PROVE  AsWritten(written, i, p, Degraded(y))
<1>1. i \in 1 .. Len(r.schema) /\ DOMAIN r.schema = 1 .. Len(r.schema) /\ pointerSize = r.pointerSize
  BY WrittenTypes DEF EventOf
<1>2. IsPiece(r, written, i) /\ IsProperty(p) /\ IsSimple(p)
  <2>1. IsPiece(r, written, i) /\ IsProperty(r.schema[i]) /\ (IsSimple(r.schema[i]) \/ IsStructure(r.schema[i]))
    BY <1>1, WrittenTypes
  <2> QED BY <2>1 DEF IsAt, IsStructure
<1>3. PICK lengths, counts, v, x : /\ lengths = Told(written, i, p.length) /\ counts = Told(written, i, p.count)
                                  /\ v = written[i].cells /\ x = written[i].value
  OBVIOUS
<1>4. y = Error => Degraded(y) = Null
  BY DEF Degraded
<1>5. y # Error => Degraded(y) = y
  BY DEF Degraded
<1>6. Null # Error
  BY NoValueIsNull
<1>7. CASE p.form = "value"
  <2>1. IsValue(pointerSize, lengths, p, v, x)
    BY <1>1, <1>2, <1>3, <1>7 DEF IsPiece, IsAt
  <2>2. p.in \in InTypes
    BY <1>2, <1>7 DEF IsProperty
  <2>3. p.out \in OutTypes
    BY <1>1, <1>7, OutTypesAssumption DEF Follows, IsAt
  <2>4. y = x \/ (y = Error /\ (p.in = "sid" \/ WidthsDiffer(pointerSize, p)))
    BY <1>3, <1>7, <2>1, <2>2, <2>3, ValueIsRead
  <2>5. x # Error
    <3>1. Means(p, v, x)
      BY <2>1 DEF IsValue
    <3> QED BY <2>2, <2>3, <3>1, MeaningIsPlain
  <2> QED BY <1>3, <1>4, <1>5, <1>7, <2>4, <2>5 DEF AsWritten, MayBeRefused
<1>8. CASE p.form = "array"
  <2>1. IsArrayOf(pointerSize, lengths, counts, p, v, x)
    BY <1>1, <1>2, <1>3, <1>8 DEF IsPiece, IsAt
  <2>2. \/ y = x \/ (y = Error /\ (x = Null \/ Handler(p) = "numbers"))
        \/ WidthsDiffer(pointerSize, p) /\ y = Numbers(OutWidth(p), v)
    BY <1>3, <1>8, <2>1, ArrayIsRead
  <2>3. x # Error /\ Numbers(OutWidth(p), v) # Error
    <3>1. \A width : Numbers(width, v) # Error
      BY DEF Numbers, Error
    <3> QED BY <1>6, <2>1, <3>1 DEF IsArrayOf
  <2> QED BY <1>3, <1>4, <1>5, <1>8, <2>2, <2>3 DEF AsWritten, MayBeRefused
<1>9. CASE p.form = "unsupported"
  <2>1. x = Null
    BY <1>1, <1>2, <1>3, <1>9 DEF IsPiece, IsAt
  <2>2. y = Error
    BY <1>9, UnsupportedIsRead
  <2> QED BY <1>3, <1>4, <2>1, <2>2 DEF AsWritten
<1> QED BY <1>2, <1>7, <1>8, <1>9 DEF IsSimple

LEMMA StructureIsRead ==
  ASSUME NEW CONSTANT r, EventOf(r), NEW CONSTANT written, Follows(r, written),
         NEW CONSTANT i \in 1 .. Len(written), NEW CONSTANT p, IsAt(p, r, i), p.form = "struct",
         NEW CONSTANT counts, counts = Told(written, i, p.count),
         NEW CONSTANT y, y \in PropertyOutcomes(p, written[i].cells, counts)
  PROVE  AsWritten(written, i, p, Degraded(y))
<1>1. IsStructure(p) /\ HasMembers(p) /\ IsStructureOf(r.pointerSize, written, i, p)
  BY StructureAt
<1>2. PICK c, n, start, pieces, values, told : Structured(written, i, p, c, n, start, pieces, values, told)
  BY StructureIsCut DEF EventOf
<1>3. written[i].cells \in Seq(Nat)
  BY WrittenTypes
<1>4. IsTakenApart(r.pointerSize, written, i, p, c, n, start, pieces, values, told)
  BY <1>1, <1>2, <1>3 DEF IsTakenApart
<1>5. y = written[i].value /\ y # Error
  <2>1. CASE p.count = Literally(1)
    <3>1. y \in StructOutcomes(p, written[i].cells) /\ IsAlone(p)
      BY <2>1 DEF PropertyOutcomes, IsStructArray, IsAlone
    <3> QED BY <1>4, <3>1, StructIsRead
  <2>2. CASE p.count # Literally(1)
    <3>1. counts = {c}
      BY <1>2 DEF Structured
    <3>2. The(counts) = c /\ counts # {}
      BY <3>1 DEF The
    <3>3. y \in StructArrayOutcomes(p, written[i].cells, c) /\ IsStructArray(p)
      BY <2>2, <3>2 DEF PropertyOutcomes, IsStructArray
    <3> QED BY <1>4, <3>3, StructArrayIsRead, SMTT(30)
  <2> QED BY <2>1, <2>2
<1> QED BY <1>5 DEF AsWritten, Degraded

\* A piece that has its cells is written as what it means.
LEMMA PieceIsRead ==
  ASSUME NEW CONSTANT r, EventOf(r), NEW CONSTANT written, Follows(r, written),
         NEW CONSTANT i \in 1 .. Len(written), NEW CONSTANT p, IsAt(p, r, i),
         NEW CONSTANT counts, p.form = "struct" => counts = Told(written, i, p.count),
         NEW CONSTANT y, y \in PropertyOutcomes(p, written[i].cells, counts), ~(strict /\ y = Error)
  PROVE  AsWritten(written, i, p, Degraded(y))
<1>1. CASE p.form = "struct"
  BY <1>1, StructureIsRead
<1>2. CASE p.form # "struct"
  <2>1. y \in Outcomes(p, written[i].cells)
    BY <1>2 DEF PropertyOutcomes, IsStructArray
  <2> QED BY <1>2, <2>1, SimpleIsRead
<1> QED BY <1>1, <1>2

\* The cells of a slice are those of its piece.
LEMMA ValueIsPiece ==
  ASSUME NEW CONSTANT r, NEW CONSTANT written, Follows(r, written), NEW CONSTANT start, Walks(written, start),
         buffer \in Seq(Nat), Len(slices) \in Nat, NEW CONSTANT i \in 1 .. Len(slices)
  PROVE  ValueOf(i) = written[i].cells /\ i \in 1 .. Len(written)
<1>1. i \in 1 .. Len(written) /\ DOMAIN written = 1 .. Len(written) /\ Len(written) \in Nat /\ i # 0
  BY WrittenTypes DEF Walks
<1>2. PICK n \in Nat, w \in Seq(Nat) : n = Len(written) /\ w = buffer
  BY <1>1
<1>3. PICK pieces : pieces = CellsOf(written) /\ pieces[i] = written[i].cells
  <2>1. CellsOf(written)[i] = written[i].cells
    BY <1>1 DEF CellsOf
  <2> QED BY <2>1
<1>4. Lays(start, n, w, pieces) /\ i \in 1 .. n
  BY <1>1, <1>2, <1>3 DEF Walks
<1>5. pieces[i] = SubSeq(w, start[i] + 1, start[i + 1])
  BY <1>4, PieceBegins
<1>6. start[i + 1] = start[i] + Len(pieces[i])
  BY <1>4 DEF Lays
<1>7. slices[i].start = start[i] /\ slices[i].len = Len(pieces[i])
  BY <1>3 DEF Walks
<1>8. EndOf(i) = start[i + 1]
  BY <1>1, <1>6, <1>7 DEF EndOf
<1> QED BY <1>1, <1>2, <1>3, <1>5, <1>7, <1>8 DEF ValueOf

-----------------------------------------------------------------------------
(* The serializer, step by step *)

\* The parser only works for a property, or for a count that is known already.
Asked ==
  /\ pc \in {"idle", "parse"}
  /\ phase = "bytes" => request = at + 1
  /\ phase = "count" =>
       /\ at + 1 \in DOMAIN slices /\ request \in DOMAIN slices
       /\ CountIsAsked(properties[at + 1]) /\ request = properties[at + 1].count.n
       /\ pc = "idle" => answer = request

\* What is left of the event when the walk stopped is nothing, or needs TDH.
IsStuck(written) ==
  \/ dataStart = {}
  \/ Len(slices) + 1 > Len(written)
  \/ AsksTdh(properties[Len(slices) + 1])

Stopped(written) ==
  phase = "bytes" /\ pc = "idle" /\ answer # at + 1 => at + 1 \notin DOMAIN slices /\ IsStuck(written)

\* An event that is walked as it was written.
Underway(r, written, start) ==
  /\ EventOf(r) /\ Follows(r, written) /\ Walks(written, start)
  /\ slices \in Seq([start : Nat, len : Nat]) /\ buffer \in Seq(Nat)
  /\ at \in Nat /\ request \in Names \cup Nat \cup {Nothing}

LEMMA UnderwayTypes ==
  ASSUME NEW CONSTANT r, NEW CONSTANT written, NEW CONSTANT start, Underway(r, written, start)
  PROVE  Len(slices) \in Nat /\ DOMAIN slices = 1 .. Len(slices)
         /\ Len(written) \in Nat /\ Len(slices) <= Len(written) /\ Len(written) <= Len(properties)
         /\ Len(properties) \in Nat /\ DOMAIN properties = 1 .. Len(properties)
<1>1. Len(slices) \in Nat /\ DOMAIN slices = 1 .. Len(slices)
  BY DEF Underway
<1>2. Len(written) \in Nat /\ Len(written) <= Len(r.schema) /\ Len(r.schema) \in Nat
      /\ DOMAIN r.schema = 1 .. Len(r.schema)
  BY WrittenTypes DEF Underway
<1> QED BY <1>1, <1>2 DEF Underway, EventOf, Walks

\* A step of the walk that fails is stuck.
LEMMA FailsIfStuck ==
  ASSUME NEW CONSTANT r, NEW CONSTANT written, NEW CONSTANT start, Underway(r, written, start), ParseFails
  PROVE  IsStuck(written)
<1>1. CASE dataStart = {}
  BY <1>1 DEF IsStuck
<1>2. CASE dataStart # {}
  <2>1. PICK n : n \in Sizes(properties[Len(slices) + 1]) /\ n \notin 0 .. Len(Rest)
    BY <1>2 DEF ParseFails
  <2>2. PICK i, p : i = Len(slices) + 1 /\ p = properties[i]
    OBVIOUS
  <2>3. IsAt(p, r, i) /\ n \in Sizes(p) /\ i \in Nat
    BY <2>1, <2>2, UnderwayTypes DEF IsAt, Underway, EventOf
  <2>4. CASE i <= Len(written)
    <3>1. n = Len(written[i].cells) \/ (n = Failed /\ AsksTdh(p))
      BY <2>2, <2>3, <2>4, NextIsSized, UnderwayTypes DEF Underway
    <3>2. Rest \in Seq(Nat) /\ Begins(written[i].cells, Rest)
      BY <2>2, <2>4, RestIsNext, UnderwayTypes DEF Underway
    <3>3. Len(written[i].cells) \in 0 .. Len(Rest)
      BY <3>2, BeginningIsCut
    <3>4. AsksTdh(p)
      BY <2>1, <3>1, <3>3
    <3> QED BY <2>2, <3>4 DEF IsStuck
  <2>5. CASE ~(i <= Len(written))
    BY <2>2, <2>3, <2>5, UnderwayTypes DEF IsStuck
  <2> QED BY <2>4, <2>5
<1> QED BY <1>1, <1>2

\* The walk goes on along what was written, and stops where it cannot.
LEMMA WalkKeepsTo ==
  ASSUME NEW CONSTANT r, NEW CONSTANT written, NEW CONSTANT start, Underway(r, written, start),
         PhaseFollows, Asked, Walking
  PROVE  Walks(written, start)' /\ Asked' /\ Stopped(written)'
<1>1. phase' = phase /\ at' = at /\ UNCHANGED <<serializer, event>>
  <2>1. UNCHANGED serializer
    BY DEF Walking
  <2>2. UNCHANGED event
    BY DEF Walking, Walk, ProbeHit, ProbeMiss, IndexHit, ParseNext, ParseFails, Exhausted
  <2> QED BY <2>1, <2>2 DEF serializer
<1>2. properties' = properties /\ buffer' = buffer /\ dataStart' = dataStart
  BY <1>1 DEF event
<1>3. Walk /\ pc # "probe"
  BY DEF Walking, Asked
<1>4. pc = "parse" /\ phase \in {"bytes", "count"} /\ request' = request
  BY <1>3 DEF Walk, ProbeHit, ProbeMiss, IndexHit, ParseNext, ParseFails, Exhausted, Pending, PhaseFollows, cache
<1>5. CASE IndexHit
  <2>1. UNCHANGED cache /\ answer' = request /\ pc' = "idle"
    BY <1>5 DEF IndexHit, Return
  <2>2. slices' = slices /\ lastOffset' = lastOffset
    BY <2>1 DEF cache
  <2>3. Walks(written, start)'
    BY <1>2, <2>2 DEF Underway, Walks
  <2> QED BY <1>1, <1>2, <1>4, <2>1, <2>2, <2>3 DEF Asked, Stopped, CountIsAsked
<1>6. CASE ~IndexHit
  <2>1. ParseNext \/ ParseFails \/ Exhausted
    BY <1>3, <1>6 DEF Walk, ProbeHit, ProbeMiss
  <2>2. request \notin DOMAIN slices /\ phase = "bytes" /\ request = at + 1
    BY <1>4, <2>1 DEF ParseNext, ParseFails, Exhausted, Pending, Asked
  <2>3. CASE ParseNext
    <3>1. Walks(written, start)'
      BY <2>3, WalkGoesOn DEF Underway
    <3>2. \/ pc' = "parse"
          \/ pc' = "idle" /\ answer' = Len(slices) + 1 /\ Reached(Len(slices) + 1)
      BY <1>4, <2>3 DEF ParseNext, Return
    <3>3. Reached(Len(slices) + 1) => request = Len(slices) + 1
      <4>1. Len(slices) + 1 \in 1 .. Len(properties)
        BY <2>3, UnderwayTypes DEF ParseNext
      <4>2. properties[Len(slices) + 1].name \in Names
        BY <4>1, SchemaTypes DEF Underway, EventOf, Follows, IsProperty
      <4>3. request \notin Names
        <5>1. request \in Int
          BY <2>2 DEF Underway
        <5> QED BY <5>1, NamesAssumption
      <4> QED BY <4>2, <4>3 DEF Reached
    <3> QED BY <1>1, <2>2, <3>1, <3>2, <3>3, <1>4 DEF Asked, Stopped
  <2>4. CASE ParseFails
    <3>1. UNCHANGED cache /\ pc' = "idle"
      BY <2>4 DEF ParseFails, Return
    <3>2. slices' = slices /\ lastOffset' = lastOffset
      BY <3>1 DEF cache
    <3>3. Walks(written, start)'
      BY <1>2, <3>2 DEF Underway, Walks
    <3>4. IsStuck(written)
      BY <2>4, FailsIfStuck
    <3>5. IsStuck(written)'
      <4>1. pointerSize' = pointerSize
        BY <1>1 DEF event
      <4>2. \A q : AsksTdh(q)' <=> AsksTdh(q)
        BY <4>1 DEF AsksTdh, MembersSize, FixedSize, TypeSize, ElementSize
      <4> QED BY <1>2, <3>2, <3>4, <4>2 DEF IsStuck
    <3> QED BY <1>1, <1>4, <2>2, <3>1, <3>2, <3>3, <3>5 DEF Asked, Stopped
  <2>5. CASE Exhausted
    <3>1. UNCHANGED cache /\ pc' = "idle" /\ Len(slices) = Len(properties)
      BY <2>5 DEF Exhausted, Return
    <3>2. slices' = slices /\ lastOffset' = lastOffset
      BY <3>1 DEF cache
    <3>3. Walks(written, start)'
      BY <1>2, <3>2 DEF Underway, Walks
    <3>4. Len(slices) + 1 > Len(written)
      BY <3>1, UnderwayTypes
    <3>5. IsStuck(written)'
      BY <3>2, <3>4 DEF IsStuck
    <3> QED BY <1>1, <1>4, <2>2, <3>1, <3>2, <3>3, <3>5 DEF Asked, Stopped
  <2> QED BY <2>1, <2>3, <2>4, <2>5
<1> QED BY <1>5, <1>6

\* The entries so far are of pieces, and what these are written as.
SoFar(written) ==
  phase \notin {"done", "failed"} =>
    \A i \in 1 .. at : i \in 1 .. Len(written) /\ AsWritten(written, i, properties[i], entries[i].value)

\* The count of a structure is known where the structure is.
LEMMA CountIsKnown ==
  ASSUME NEW CONSTANT r, NEW CONSTANT written, NEW CONSTANT start, Underway(r, written, start),
         NEW CONSTANT i \in DOMAIN slices, NEW CONSTANT p, IsAt(p, r, i), p.form = "struct"
  PROVE  IF Literal(p.count) THEN Told(written, i, p.count) = {p.count.n}
         ELSE /\ p.count.n \in DOMAIN slices
              /\ Told(written, i, p.count) = Carrier(slices, p.count.n)
<1>1. i \in 1 .. Len(written) /\ i \in Nat /\ i <= Len(slices)
  BY UnderwayTypes
<1>2. IsStructure(p)
  BY <1>1, StructureAt DEF Underway
<1>3. Told(written, i, p.count) # {}
  <2>1. PICK c, n, begin, pieces, values, told : Structured(written, i, p, c, n, begin, pieces, values, told)
    BY <1>1, StructureIsCut DEF Underway, EventOf
  <2> QED BY <2>1 DEF Structured
<1>4. CASE Literal(p.count)
  BY <1>4 DEF Told
<1>5. CASE ~Literal(p.count)
  <2>1. p.count.n \in 1 .. i - 1 /\ Len(written[p.count.n].cells) = 1
    BY <1>3, <1>5 DEF Told
  <2>2. PICK j \in Nat : j = p.count.n /\ j > 0 /\ j <= Len(slices)
    BY <1>1, <2>1, UnderwayTypes
  <2>3. Carrier(slices, j) = IF Len(written[j].cells) = 1 THEN {written[j].cells[1]} ELSE {}
    BY <2>2, UnderwayTypes, CarrierIsWritten DEF Underway
  <2>4. p.count.n \in DOMAIN slices
    BY <2>2, UnderwayTypes
  <2> QED BY <1>5, <2>1, <2>2, <2>3, <2>4 DEF Told
<1> QED BY <1>4, <1>5

LEMMA SameIsWritten ==
  ASSUME UNCHANGED event, NEW CONSTANT written
  PROVE  \A q, j, v : AsWritten(written, j, q, v)' <=> AsWritten(written, j, q, v)
<1>1. pointerSize' = pointerSize
  BY DEF event
<1> QED BY <1>1 DEF AsWritten

\* A property that is located is written as what it was.
LEMMA WriteKeepsTo ==
  ASSUME NEW CONSTANT r, NEW CONSTANT written, NEW CONSTANT start, Underway(r, written, start),
         Core, SoFar(written), at + 1 \in DOMAIN slices,
         NEW CONSTANT counts,
         properties[at + 1].form = "struct" => counts = Told(written, at + 1, properties[at + 1].count),
         Write(counts), phase \in {"bytes", "count"}
  PROVE  SoFar(written)'
<1>1. PICK x \in PropertyOutcomes(properties[at + 1], ValueOf(at + 1), counts) :
        /\ phase' = IF strict /\ x = Error THEN "failed" ELSE "entries"
        /\ at' = IF strict /\ x = Error THEN at ELSE at + 1
        /\ entries' = IF strict /\ x = Error THEN entries
                      ELSE Append(entries, Entry(properties[at + 1].name, Degraded(x)))
        /\ UNCHANGED <<vars, given, fields, extended>>
  BY DEF Write
<1>2. CASE strict /\ x = Error
  BY <1>1, <1>2 DEF SoFar
<1>3. CASE ~(strict /\ x = Error)
  <2>1. PICK i, p, n : i = at + 1 /\ p = properties[i] /\ n \in Nat /\ n = at /\ i = n + 1
    <3>1. at + 1 = at + 1 /\ at \in Nat
      BY DEF Underway
    <3> QED BY <3>1, Zenon
  <2>2. i \in 1 .. Len(slices) /\ Len(slices) \in Nat /\ IsAt(p, r, i)
    BY <2>1, UnderwayTypes DEF IsAt, Underway, EventOf
  <2>3. ValueOf(i) = written[i].cells /\ i \in 1 .. Len(written)
    BY <2>2, ValueIsPiece DEF Underway
  <2>4. AsWritten(written, i, p, Degraded(x))
    <3>1. p.form = "struct" => counts = Told(written, i, p.count)
      BY <2>1
    <3>2. x \in PropertyOutcomes(p, written[i].cells, counts)
      BY <1>1, <2>1, <2>3
    <3> QED BY <1>3, <2>2, <2>3, <3>1, <3>2, PieceIsRead DEF Underway
  <2>5. PICK old, e, new : /\ old = entries /\ new = entries' /\ new = Append(old, e)
                           /\ e = Entry(p.name, Degraded(x)) /\ IsSeq(old) /\ Len(old) = n
    <3>1. IsSeq(entries) /\ Len(entries) = n
      BY <2>1 DEF Core, EntriesFollow, Done, IsSeq
    <3>2. entries' = Append(entries, Entry(p.name, Degraded(x)))
      BY <1>1, <1>3, <2>1
    <3> QED BY <3>1, <3>2, Zenon
  <2>6. OneMore(old, n, e, new)
    BY <2>1, <2>5, EntryAppended DEF Appended
  <2>7. new[i].value = Degraded(x) /\ \A j \in 1 .. n : new[j] = old[j]
    BY <2>1, <2>5, <2>6 DEF OneMore, Entry
  <2>8. phase' = "entries" /\ at' = n + 1 /\ properties' = properties /\ UNCHANGED event
    BY <1>1, <1>3, <2>1 DEF vars, event
  <2>9. \A j \in 1 .. n : j \in 1 .. Len(written) /\ AsWritten(written, j, properties[j], old[j].value)
    BY <2>1, <2>5 DEF SoFar
  <2>10. \A j \in 1 .. n + 1 : j \in 1 .. Len(written) /\ AsWritten(written, j, properties[j], new[j].value)
    <3>1. \A j \in 1 .. n + 1 : j \in 1 .. n \/ j = i
      BY <2>1
    <3> QED BY <2>1, <2>3, <2>4, <2>7, <2>9, <3>1
  <2>11. \A q, j, v : AsWritten(written, j, q, v)' <=> AsWritten(written, j, q, v)
    BY <2>8, SameIsWritten
  <2> QED BY <2>5, <2>8, <2>10, <2>11 DEF SoFar
<1> QED BY <1>2, <1>3

\* What Faithful says of one entry, and of an event that was written so.
IsEntryOf(written, i, x) ==
  \/ x = Meant(written, i)
  \/ /\ x = Null
     /\ \/ i \notin DOMAIN slices /\ \E j \in 1 .. i : AsksTdh(properties[j])
        \/ MayBeRefused(properties[i])
        \/ WidthsDiffer(pointerSize, properties[i])
        \/ dataStart = {}
  \/ /\ properties[i].form = "array" /\ WidthsDiffer(pointerSize, properties[i])
     /\ i \in DOMAIN written
     /\ x = Numbers(OutWidth(properties[i]), written[i].cells)

IsFaithfulTo(written) == \A i \in DOMAIN entries : IsEntryOf(written, i, entries[i].value)

Keeps(written, start) ==
  /\ Walks(written, start) /\ Asked /\ Stopped(written) /\ SoFar(written)
  /\ Done => IsFaithfulTo(written)

LEMMA SameEventSame ==
  ASSUME UNCHANGED event
  PROVE  \A q : AsksTdh(q)' <=> AsksTdh(q)
<1>1. pointerSize' = pointerSize
  BY DEF event
<1> QED BY <1>1 DEF AsksTdh, MembersSize, FixedSize, ElementSize

LEMMA SameEntry ==
  ASSUME UNCHANGED <<event, slices, dataStart>>, NEW CONSTANT written
  PROVE  \A i, x : IsEntryOf(written, i, x)' <=> IsEntryOf(written, i, x)
<1>1. pointerSize' = pointerSize /\ properties' = properties
  BY DEF event
<1>2. \A q : AsksTdh(q)' <=> AsksTdh(q)
  BY SameEventSame
<1> QED BY <1>1, <1>2 DEF IsEntryOf

\* What a piece is written as is what Faithful says of its entry.
LEMMA WrittenIsEntry ==
  ASSUME NEW CONSTANT written, NEW CONSTANT i \in DOMAIN written, NEW CONSTANT x,
         AsWritten(written, i, properties[i], x)
  PROVE  IsEntryOf(written, i, x)
BY DEF AsWritten, IsEntryOf, Meant

\* Where the walk stopped, the properties that are left are null.
LEMMA LosingIsFaithful ==
  ASSUME NEW CONSTANT r, NEW CONSTANT written, NEW CONSTANT start, Underway(r, written, start),
         Core, Stopped(written), SoFar(written), LoseBytes
  PROVE  Done' => IsFaithfulTo(written)'
<1> SUFFICES ASSUME Done' PROVE IsFaithfulTo(written)'
  OBVIOUS
<1>1. phase = "bytes" /\ pc = "idle" /\ answer # at + 1 /\ UNCHANGED vars
  BY DEF LoseBytes
<1>2. ~strict /\ entries' = [i \in DOMAIN properties |-> IF i <= at THEN entries[i] ELSE NullEntry(i)]
  BY DEF LoseBytes, Done
<1>3. properties' = properties /\ slices' = slices /\ dataStart' = dataStart /\ UNCHANGED event
  BY <1>1 DEF vars, event, cache
<1>4. \A i, x : IsEntryOf(written, i, x)' <=> IsEntryOf(written, i, x)
  BY <1>3, SameEntry
<1>5. at + 1 \notin DOMAIN slices /\ IsStuck(written)
  BY <1>1 DEF Stopped
<1>6. Len(slices) <= at /\ Len(slices) \in Nat /\ at \in Nat
  <2>1. at \in Nat
    BY DEF Underway
  <2> QED BY <1>5, <2>1, UnderwayTypes
<1>7. ASSUME NEW i \in DOMAIN entries' PROVE IsEntryOf(written, i, entries'[i].value)
  <2>1. i \in 1 .. Len(properties) /\ i \in DOMAIN properties
    BY <1>2, UnderwayTypes
  <2>2. CASE i <= at
    <3>1. entries'[i] = entries[i] /\ i \in 1 .. at
      BY <1>2, <2>1, <2>2
    <3>2. i \in 1 .. Len(written) /\ AsWritten(written, i, properties[i], entries[i].value)
      BY <1>1, <3>1 DEF SoFar
    <3>3. i \in DOMAIN written
      BY <3>2, WrittenTypes DEF Underway
    <3> QED BY <3>1, <3>2, <3>3 DEF AsWritten, IsEntryOf, Meant
  <2>3. CASE ~(i <= at)
    <3>1. entries'[i].value = Null
      BY <1>2, <2>1, <2>3 DEF NullEntry, Entry
    <3>2. i > Len(slices) /\ i >= Len(slices) + 1 /\ i \notin DOMAIN slices
      BY <1>6, <2>1, <2>3, UnderwayTypes
    <3>3. CASE dataStart = {}
      BY <3>1, <3>3 DEF IsEntryOf
    <3>4. CASE Len(slices) + 1 > Len(written)
      <4>1. i \notin 1 .. Len(written)
        BY <1>6, <2>1, <3>2, <3>4, UnderwayTypes
      <4>2. i \notin DOMAIN written
        BY <4>1, WrittenTypes DEF Underway
      <4> QED BY <3>1, <4>2 DEF Meant, IsEntryOf
    <3>5. CASE AsksTdh(properties[Len(slices) + 1])
      <4>1. Len(slices) + 1 \in 1 .. i
        BY <1>6, <2>1, <3>2
      <4> QED BY <3>1, <3>2, <3>5, <4>1 DEF IsEntryOf
    <3> QED BY <1>5, <3>3, <3>4, <3>5 DEF IsStuck
  <2> QED BY <2>2, <2>3
<1> QED BY <1>3, <1>4, <1>7 DEF IsFaithfulTo

LEMMA KeepsOn ==
  ASSUME NEW CONSTANT r, NEW CONSTANT written, NEW CONSTANT start, Underway(r, written, start),
         Core, AnswerMatches, Keeps(written, start), [SerializerNext]_allVars
  PROVE  Keeps(written, start)'
<1> USE DEF Keeps
<1>0. ASSUME UNCHANGED event
       PROVE  \A q, j, v : AsWritten(written, j, q, v)' <=> AsWritten(written, j, q, v)
  BY <1>0, SameIsWritten
<1>1. CASE SerializeFields
  <2>1. UNCHANGED <<vars, at, entries>> /\ phase = "fields" /\ phase' \in {"failed", "entries"}
    BY <1>1 DEF SerializeFields, given
  <2> QED BY <1>0, <2>1 DEF vars, event, cache, Walks, Asked, Stopped, SoFar, Done
<1>2. CASE AskBytes
  <2>1. UNCHANGED <<event, cache, at, entries>> /\ phase = "entries" /\ phase' = "bytes" /\ pc' = "parse" /\ request' = at + 1
    BY <1>2 DEF AskBytes, AskFor, document
  <2> QED BY <1>0, <2>1 DEF event, cache, Walks, Asked, Stopped, SoFar, Done
<1>3. CASE Walking
  <2>1. Walks(written, start)' /\ Asked' /\ Stopped(written)'
    BY <1>3, WalkKeepsTo DEF Core
  <2>2. UNCHANGED <<phase, at, entries>>
    BY <1>3 DEF Walking, serializer, document
  <2>3. UNCHANGED event
    BY <1>3 DEF Walking, Walk, ProbeHit, ProbeMiss, IndexHit, ParseNext, ParseFails, Exhausted
  <2>4. SoFar(written)'
    BY <1>0, <2>2, <2>3 DEF SoFar, event
  <2>5. ~Done
    <3>1. pc # "idle"
      BY <1>3 DEF Walking, Walk, ProbeHit, ProbeMiss, IndexHit, ParseNext, ParseFails, Exhausted, Pending
    <3> QED BY <3>1 DEF Core, PhaseFollows, Done
  <2> QED BY <2>1, <2>2, <2>4, <2>5 DEF Done
<1>4. CASE LoseBytes
  <2>1. Done' => IsFaithfulTo(written)'
    BY <1>4, LosingIsFaithful
  <2>2. UNCHANGED <<vars, at>> /\ phase' \in {"failed", "done"}
    BY <1>4 DEF LoseBytes
  <2> QED BY <1>0, <2>1, <2>2 DEF vars, event, cache, Walks, Asked, Stopped, SoFar
<1>5. ASSUME answer = at + 1, pc = "idle", phase = "bytes" PROVE at + 1 \in DOMAIN slices
  <2>1. request = at + 1 /\ at \in Nat
    BY <1>5 DEF Asked, Underway
  <2>2. request # Nothing
    BY <2>1, NamesAssumption
  <2>3. answer > 0
    BY <1>5, <2>1
  <2>4. answer \in DOMAIN slices
    BY <1>5, <2>2, <2>3 DEF AnswerMatches, Answered
  <2> QED BY <1>5, <2>4
<1>6. PICK i, p : i = at + 1 /\ p = properties[i]
  OBVIOUS
<1>7. IsAt(p, r, i)
  BY <1>6 DEF IsAt, Underway, EventOf
<1>8. CASE AskCount
  <2>1. /\ UNCHANGED <<event, cache, at, entries>> /\ phase = "bytes" /\ phase' = "count" /\ pc' = "parse"
        /\ request' = p.count.n /\ CountIsAsked(p)
    BY <1>6, <1>8 DEF AskCount, AskFor, document
  <2>2. i \in DOMAIN slices
    BY <1>5, <1>6, <1>8 DEF AskCount, Got
  <2>3. p.count.n \in DOMAIN slices
    <3>1. p.form = "struct" /\ ~Literal(p.count)
      BY <2>1 DEF CountIsAsked, IsStructArray
    <3> QED BY <1>7, <2>2, <3>1, CountIsKnown
  <2>4. Asked'
    BY <1>6, <2>1, <2>2, <2>3 DEF Asked, event, cache, CountIsAsked
  <2> QED BY <1>0, <2>1, <2>4 DEF event, cache, Walks, Stopped, SoFar, Done
<1>9. ASSUME NEW CONSTANT counts, Write(counts), i \in DOMAIN slices, phase \in {"bytes", "count"},
             p.form = "struct" => counts = Told(written, i, p.count)
      PROVE  Keeps(written, start)'
  <2>1. SoFar(written)'
    BY <1>6, <1>9, WriteKeepsTo
  <2>2. UNCHANGED vars /\ phase' \in {"failed", "entries"}
    BY <1>9 DEF Write
  <2> QED BY <2>1, <2>2 DEF vars, event, cache, Walks, Asked, Stopped, Done
<1>10. CASE WriteLocated
  <2>1. /\ Write(IF Literal(p.count) THEN {p.count.n} ELSE {}) /\ phase = "bytes" /\ Got(i) /\ ~CountIsAsked(p)
    BY <1>6, <1>10 DEF WriteLocated
  <2>2. PICK counts : counts = IF Literal(p.count) THEN {p.count.n} ELSE {}
    OBVIOUS
  <2>3. i \in DOMAIN slices
    BY <1>5, <1>6, <2>1 DEF Got
  <2>4. p.form = "struct" => counts = Told(written, i, p.count)
    <3> SUFFICES ASSUME p.form = "struct" PROVE counts = Told(written, i, p.count)
      OBVIOUS
    <3>1. CASE Literal(p.count)
      BY <1>7, <2>2, <2>3, <3>1, CountIsKnown
    <3>2. CASE ~Literal(p.count)
      <4>1. p.count.n \in DOMAIN slices
        BY <1>7, <2>3, <3>2, CountIsKnown
      <4>2. p.count.n \in DOMAIN properties
        BY <4>1, UnderwayTypes
      <4>3. IsStructArray(p)
        BY <3>2 DEF IsStructArray, Literal, Literally
      <4> QED BY <2>1, <3>2, <4>2, <4>3 DEF CountIsAsked
    <3> QED BY <3>1, <3>2
  <2> QED BY <1>9, <2>1, <2>2, <2>3, <2>4
<1>11. CASE WriteCounted
  <2>1. phase = "count" /\ pc = "idle" /\ Write(IF answer = request THEN Carrier(slices, request) ELSE {})
    BY <1>11 DEF WriteCounted
  <2>2. i \in DOMAIN slices /\ CountIsAsked(p) /\ request = p.count.n /\ answer = request
    BY <1>6, <2>1 DEF Asked
  <2>3. PICK counts : counts = Carrier(slices, p.count.n)
    OBVIOUS
  <2>4. Write(counts)
    BY <2>1, <2>2, <2>3
  <2>5. counts = Told(written, i, p.count)
    <3>1. p.form = "struct" /\ ~Literal(p.count)
      BY <2>2 DEF CountIsAsked, IsStructArray
    <3> QED BY <1>7, <2>2, <2>3, <3>1, CountIsKnown
  <2> QED BY <1>9, <2>1, <2>2, <2>4, <2>5
<1>12. CASE AllWritten
  <2>1. UNCHANGED <<vars, at, entries>> /\ phase = "entries" /\ phase' = "done" /\ at = Len(properties)
    BY <1>12 DEF AllWritten, document
  <2>2. DOMAIN entries = 1 .. at
    <3>1. entries \in Seq(Range(entries)) /\ Len(entries) = at
      BY <2>1 DEF Core, EntriesFollow, Done
    <3> QED BY <3>1, SeqElements
  <2>3. IsFaithfulTo(written)
    <3>1. \A j \in 1 .. at : j \in DOMAIN written /\ AsWritten(written, j, properties[j], entries[j].value)
      BY <2>1, WrittenTypes DEF SoFar, Underway
    <3> QED BY <2>2, <3>1, WrittenIsEntry DEF IsFaithfulTo
  <2>4. \A j, x : IsEntryOf(written, j, x)' <=> IsEntryOf(written, j, x)
    <3>1. UNCHANGED <<event, slices, dataStart>>
      BY <2>1 DEF vars, event, cache
    <3> QED BY <3>1, SameEntry
  <2>5. IsFaithfulTo(written)'
    BY <2>1, <2>3, <2>4 DEF IsFaithfulTo
  <2> QED BY <1>0, <2>1, <2>5 DEF vars, event, cache, Walks, Asked, Stopped, SoFar
<1>13. CASE UNCHANGED allVars
  <2>1. UNCHANGED <<vars, phase, at, entries>>
    BY <1>13 DEF allVars, serializer, document
  <2>2. UNCHANGED <<event, properties, slices, dataStart>>
    BY <2>1 DEF vars, event, cache
  <2>3. \A q : AsksTdh(q)' <=> AsksTdh(q)
    BY <2>2, SameEventSame
  <2>4. \A j, x : IsEntryOf(written, j, x)' <=> IsEntryOf(written, j, x)
    BY <2>2, SameEntry
  <2>5. IsFaithfulTo(written)' <=> IsFaithfulTo(written)
    BY <2>1, <2>4 DEF IsFaithfulTo
  <2>6. Walks(written, start)' /\ Asked' /\ SoFar(written)'
    BY <1>0, <2>1, <2>2 DEF vars, event, cache, Walks, Asked, SoFar, CountIsAsked
  <2>7. Stopped(written)'
    BY <2>1, <2>2, <2>3 DEF vars, event, cache, Stopped, IsStuck
  <2> QED BY <2>1, <2>5, <2>6, <2>7 DEF Done
<1> QED BY <1>1, <1>2, <1>3, <1>4, <1>8, <1>10, <1>11, <1>12, <1>13 DEF SerializerNext, SerializeEvent

\* The inductive invariant of Faithful: the walk lies along what was written.
FaithfulIInv ==
  /\ \E family \in Records : record \in family
  /\ buffer = record.buffer /\ pointerSize = record.pointerSize
  /\ \A written \in record.written : \E start : Keeps(written, start)

LEMMA EventIsUnderway ==
  ASSUME FaithfulIInv, Core, WalkIInv, NEW CONSTANT written, written \in record.written,
         NEW CONSTANT start, Walks(written, start), NEW CONSTANT r, r = record
  PROVE  Underway(r, written, start)
<1>1. PICK family \in Records : record \in family
  BY DEF FaithfulIInv
<1>2. /\ record.schema \in Schemas /\ IsDescribed(record.schema)
      /\ Len(record.buffer) <= MaxBuffer /\ record.pointerSize \in {1, 2} /\ record.buffer \in Seq(Cells)
      /\ IsWritten(record, written)
  BY <1>1, RecordsAssumption, WrittenAssumption
<1>3. record.buffer \in Seq(Nat)
  BY <1>2, CellsAssumption, WiderSeq
<1>4. Len(record.buffer) <= MaxUsize
  <2>1. Len(record.buffer) \in Nat
    BY <1>3, ListTypes
  <2> QED BY <1>2, <2>1, BoundsAssumption
<1>5. EventOf(r)
  BY <1>2, <1>4 DEF FaithfulIInv, EventOf, Core, SchemaAsDescribed
<1>6. Follows(r, written)
  BY <1>2 DEF Follows
<1>7. at \in Nat
  BY SchemaTypes DEF Core
<1>8. slices \in Seq([start : Nat, len : Nat]) /\ request \in Names \cup Nat \cup {Nothing}
  BY DEF WalkIInv, TypeOK, WalkTypeOK
<1>9. buffer \in Seq(Nat)
  BY <1>3 DEF FaithfulIInv
<1> QED BY <1>5, <1>6, <1>7, <1>8, <1>9 DEF Underway

LEMMA FaithfulAtFirst == SerializerInit => FaithfulIInv
<1> SUFFICES ASSUME SerializerInit PROVE FaithfulIInv
  OBVIOUS
<1>1. PICK family \in Records : record \in family
  BY DEF SerializerInit
<1>2. buffer = record.buffer /\ pointerSize = record.pointerSize /\ slices = <<>> /\ lastOffset = 0
      /\ pc = "idle" /\ phase = "fields" /\ at = 0
  BY DEF SerializerInit
<1>3. PICK r : r = record
  OBVIOUS
<1>4. Core
  BY CoreAtFirst
<1>5. /\ r.schema \in Schemas /\ IsDescribed(r.schema) /\ r.pointerSize \in {1, 2}
      /\ r.buffer \in Seq(Cells) /\ Len(r.buffer) <= MaxBuffer
      /\ \A written \in r.written : IsWritten(r, written)
  BY <1>1, <1>3, RecordsAssumption, WrittenAssumption
<1>6. EventOf(r)
  <2>1. r.buffer \in Seq(Nat)
    BY <1>5, CellsAssumption, WiderSeq
  <2>2. Len(r.buffer) <= MaxUsize
    BY <1>5, <2>1, ListTypes, BoundsAssumption
  <2> QED BY <1>2, <1>3, <1>4, <1>5, <2>2 DEF EventOf, Core, SchemaAsDescribed
<1>7. ASSUME NEW written \in r.written PROVE \E start : Keeps(written, start)
  <2>1. Follows(r, written)
    BY <1>5 DEF Follows
  <2>2. PICK start : Walks(written, start)
    BY <1>2, <1>6, <2>1, WalkBegins
  <2>3. Asked /\ Stopped(written) /\ SoFar(written) /\ ~Done
    BY <1>2 DEF Asked, Stopped, SoFar, Done
  <2> QED BY <2>2, <2>3 DEF Keeps
<1> QED BY <1>1, <1>2, <1>3, <1>7 DEF FaithfulIInv

LEMMA FaithfulStep ==
  ASSUME FaithfulIInv, Core, WalkIInv, [SerializerNext]_allVars
  PROVE  FaithfulIInv'
<1>1. UNCHANGED <<record, event>>
  BY DEF SerializerNext, SerializeFields, SerializeEvent, AskBytes, AskFor, Walking, Walk, ProbeHit, ProbeMiss,
         IndexHit, ParseNext, ParseFails, Exhausted, LoseBytes, AskCount, WriteLocated, WriteCounted, Write,
         AllWritten, allVars, vars, serializer, given
<1>2. record' = record /\ buffer' = buffer /\ pointerSize' = pointerSize
  BY <1>1 DEF event
<1>3. PICK r : r = record
  OBVIOUS
<1>4. ASSUME NEW written \in r.written PROVE \E start : Keeps(written, start)'
  <2>1. PICK start : Keeps(written, start)
    BY <1>3, <1>4 DEF FaithfulIInv
  <2>2. Underway(r, written, start)
    BY <1>3, <1>4, <2>1, EventIsUnderway DEF Keeps
  <2>3. Keeps(written, start)'
    BY <2>1, <2>2, KeepsOn DEF WalkIInv
  <2> QED BY <2>3
<1> QED BY <1>2, <1>3, <1>4 DEF FaithfulIInv
-----------------------------------------------------------------------------
(* Theorems *)

\* To its parser, the serializer is one more user: whatever it asks for, for a
\* property or for a count in between, is a run of PropertyWalk.  What is proved of
\* every walk holds of the serializer's (EventSerializer and its Parser).
THEOREM SerializingIsWalking == SerializerSpec => Spec
<1>1. Core /\ [SerializerNext]_allVars => [Next]_vars
  BY CoreStep
<1> QED BY <1>1, CoreHolds, SerializerInitIsInit, PTL DEF SerializerSpec, Spec

\* The inductive invariant holds of every event that Windows may hand over.
THEOREM SerializerInvariant == SerializerSpec => []SerializerIInv
<1>1. Core /\ WalkIInv => SerializerIInv
  <2>1. Core => Len(entries) <= Len(properties)
    <3> SUFFICES ASSUME Core PROVE Len(entries) <= Len(properties)
      OBVIOUS
    <3>1. Len(properties) \in Nat
      BY SchemaTypes DEF Core
    <3> QED BY <3>1 DEF Core, EntriesFollow
  <2> QED BY <2>1 DEF Core, WalkIInv, TypeOK, SerializerIInv, SerializerTypeOK
<1> QED BY <1>1, CoreHolds, SerializingIsWalking, WalkInvariant, PTL

\* The serializer keeps its types, and those of the parser it owns (EventSerializer::new).
THEOREM SerializerTypeCorrect == SerializerSpec => []SerializerTypeOK
<1>1. SerializerIInv => SerializerTypeOK
  BY DEF SerializerIInv
<1> QED BY <1>1, SerializerInvariant, PTL

\* Whatever top-level properties, arrays, structures and references a schema has, the
\* properties that the flat array of TDH is parsed into are those it describes: no
\* member is taken for a property, no index for a number (PropertyIterator::new).
THEOREM SchemaAlwaysAsDescribed == SerializerSpec => []SchemaAsDescribed
<1>1. SerializerIInv => SchemaAsDescribed
  BY DEF SerializerIInv
<1> QED BY <1>1, SerializerInvariant, PTL

\* A lenient serializer never fails and writes one entry for each property in their
\* order, wherever the walk stops (EventSer, with fail_unimplemented off).
THEOREM LenientAlwaysKeepsAll == SerializerSpec => []LenientKeepsAll
<1>1. SerializerIInv => LenientKeepsAll
  <2> SUFFICES ASSUME SerializerIInv, Done
               PROVE  [i \in DOMAIN entries |-> entries[i].name] =
                      [i \in DOMAIN properties |-> properties[i].name]
    BY DEF SerializerIInv, EntriesFollow, LenientKeepsAll
  <2>1. Len(entries) = Len(properties) /\ DOMAIN entries = 1 .. Len(entries)
    BY SeqElements DEF SerializerIInv, EntriesFollow
  <2> QED BY <2>1 DEF SerializerIInv, EntriesFollow
<1> QED BY <1>1, SerializerInvariant, PTL

\* A strict serializer that succeeds has a value for each property but those of an
\* unknown type: what cannot be located, counted or decoded fails the event (EventSer,
\* with fail_unimplemented on; PropHandler::Null).
THEOREM StrictAlwaysHasValues == SerializerSpec => []StrictHasValues
<1>1. SerializerIInv => StrictHasValues
  BY DEF SerializerIInv, EntriesFollow, StrictHasValues
<1> QED BY <1>1, SerializerInvariant, PTL

\* Each property that the serializer writes is decoded from cells that are a value of
\* its type, in the length and count that the event announces.
THEOREM SerializedSlicesFit == SerializerSpec => []SlicesFit
BY SerializingIsWalking, SlicesAlwaysFit, PTL

\* The items of an event are reported as what their blobs say, wherever these are cut
\* short: nothing is read past the size of an item, nothing that it holds is left out
\* but a SID that Windows refuses, and a strict serializer passes over none
\* (to_extended_data_item, ExtendedSer).
THEOREM ExtendedAlwaysFaithful == SerializerSpec => []ExtendedFaithful
<1>1. SerializerInit => ExtendedIInv
  BY DEF SerializerInit, ExtendedIInv, ExtendedFaithful
<1>2. ExtendedIInv /\ [SerializerNext]_allVars => ExtendedIInv'
  BY ExtendedStep
<1>3. ExtendedIInv => ExtendedFaithful
  BY DEF ExtendedIInv
<1> QED BY <1>1, <1>2, <1>3, PTL DEF SerializerSpec

\* An event that follows its schema is serialized as what was written, whatever its
\* values, counts, terminators and structures are and wherever TDH refuses a size:
\* each property before that has its value, unless that may be refused itself or is
\* read in another width than its own, where a number is lost and an array is cut in
\* other elements (EventSer, ser_from_bytes, StructSer, StructArraySer over
\* property_bytes_at).
THEOREM AlwaysFaithful == SerializerSpec => []Faithful
<1>1. FaithfulIInv /\ Core /\ WalkIInv /\ [SerializerNext]_allVars => FaithfulIInv'
  BY FaithfulStep
<1>2. FaithfulIInv => Faithful
  BY DEF FaithfulIInv, Keeps, IsFaithfulTo, IsEntryOf, Faithful
<1>3. SerializerSpec => []Core /\ []WalkIInv
  BY CoreHolds, SerializingIsWalking, WalkInvariant, PTL
<1> QED BY <1>1, <1>2, <1>3, FaithfulAtFirst, PTL DEF SerializerSpec
=============================================================================
