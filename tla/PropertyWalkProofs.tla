------------------------- MODULE PropertyWalkProofs -------------------------
(***************************************************************************)
(* Proofs about PropertyWalk: whatever the schema, the event and the       *)
(* requests, the slices tile the user buffer, each holds a value of its    *)
(* property, and the answers are those that were asked for.                *)
(***************************************************************************)
EXTENDS PropertyWalk, DataInduction, FiniteSetTheorems, TLAPS

\* The cache is well typed and its slices tile the buffer.
IInv ==
  /\ buffer \in Seq(Cells)
  /\ slices \in Seq([start : Nat, len : Nat])
  /\ lastOffset \in Nat
  /\ SlicesTile

\* A parser has located nothing at first.
LEMMA InitIInv == Init => IInv
<1> SUFFICES ASSUME Init PROVE IInv
  OBVIOUS
<1>1. buffer \in Seq(Cells)
  <2>1. PICK n \in 0 .. MaxBuffer : buffer \in [1 .. n -> Cells]
    BY DEF Init
  <2> QED
    BY <2>1, BoundsAssumption
<1>2. SlicesTile
  BY <1>1 DEF Init, SlicesTile, EndOf
<1> QED
  BY <1>1, <1>2 DEF Init, IInv

\* A slice that is appended starts where the ones before it end.
LEMMA AppendTiles ==
  ASSUME IInv, dataStart # {},
         NEW n \in 0 .. Len(Rest),
         slices' = Append(slices, [start |-> lastOffset, len |-> n]),
         lastOffset' = lastOffset + n,
         UNCHANGED event
  PROVE  IInv'
<1> DEFINE s == [start |-> lastOffset, len |-> n]
<1>1. lastOffset <= Len(buffer) /\ Len(buffer) \in Nat /\ lastOffset \in Nat
  BY DEF IInv, SlicesTile
<1>2. Len(Rest) = Len(buffer) - lastOffset
  BY <1>1 DEF IInv, Rest
<1>3. n \in Nat /\ lastOffset' \in Nat /\ lastOffset' <= Len(buffer)
  BY <1>1, <1>2
<1>4. s \in [start : Nat, len : Nat]
  BY <1>1, <1>3
<1>5. /\ slices' \in Seq([start : Nat, len : Nat])
      /\ Len(slices') = Len(slices) + 1
      /\ \A i \in 1 .. Len(slices) : slices'[i] = slices[i]
      /\ slices'[Len(slices) + 1] = s
  BY <1>4 DEF IInv
<1>6. \A i \in 0 .. Len(slices) : EndOf(i)' = EndOf(i)
  BY <1>5 DEF EndOf, IInv
<1>7. \A i \in DOMAIN slices' : slices'[i].start = EndOf(i - 1)'
  <2> SUFFICES ASSUME NEW i \in 1 .. Len(slices) + 1
               PROVE  slices'[i].start = EndOf(i - 1)'
    BY <1>5
  <2>1. CASE i = Len(slices) + 1
    BY <2>1, <1>5, <1>6 DEF IInv, SlicesTile
  <2>2. CASE i \in 1 .. Len(slices)
    BY <2>2, <1>5, <1>6 DEF IInv, SlicesTile
  <2> QED
    BY <2>1, <2>2 DEF IInv
<1>8. lastOffset' = EndOf(Len(slices))'
  BY <1>1, <1>3, <1>5 DEF EndOf, IInv
<1>9. SlicesTile'
  BY <1>3, <1>7, <1>8 DEF SlicesTile, event
<1> QED
  BY <1>3, <1>5, <1>9 DEF IInv, event

\* Every step of the parser keeps the tiling.
LEMMA NextIInv == IInv /\ [Next]_vars => IInv'
<1> SUFFICES ASSUME IInv, [Next]_vars PROVE IInv'
  OBVIOUS
<1>1. ASSUME UNCHANGED <<event, slices, lastOffset>> PROVE IInv'
  BY <1>1 DEF IInv, SlicesTile, EndOf, event
<1>2. CASE Ask
  BY <1>1, <1>2 DEF Ask, cache
<1>3. CASE ProbeHit
  BY <1>1, <1>3 DEF ProbeHit
<1>4. CASE ProbeMiss
  BY <1>1, <1>4 DEF ProbeMiss, cache
<1>5. CASE IndexHit
  BY <1>1, <1>5 DEF IndexHit, cache
<1>6. CASE ParseNext
  <2>1. PICK n \in 0 .. Len(Rest) :
          /\ slices' = Append(slices, [start |-> lastOffset, len |-> n])
          /\ lastOffset' = lastOffset + n
    BY <1>6 DEF ParseNext
  <2>2. dataStart # {} /\ UNCHANGED event
    BY <1>6 DEF ParseNext
  <2> QED
    BY <2>1, <2>2, AppendTiles
<1>7. CASE ParseFails
  BY <1>1, <1>7 DEF ParseFails, cache
<1>8. CASE Exhausted
  BY <1>1, <1>8 DEF Exhausted, cache
<1>9. CASE UNCHANGED vars
  BY <1>1, <1>9 DEF vars, cache
<1> QED
  BY <1>2, <1>3, <1>4, <1>5, <1>6, <1>7, <1>8, <1>9 DEF Next, Walk, Finished

\* For every schema, event and sequence of requests, the slices tile the buffer
\* from its start and stay inside it (parse_next_property).
THEOREM SlicesAlwaysTile == Spec => []SlicesTile
<1>1. IInv => SlicesTile
  BY DEF IInv
<1> QED
  BY <1>1, InitIInv, NextIInv, PTL DEF Spec
-----------------------------------------------------------------------------
(* Types and answers *)

LEMMA SchemaTypes ==
  ASSUME properties \in Schemas
  PROVE  /\ Len(properties) \in Nat
         /\ DOMAIN properties = 1 .. Len(properties)
         /\ \A i \in 1 .. Len(properties) : IsProperty(properties[i])
<1> DEFINE S == {properties[i] : i \in DOMAIN properties}
<1>1. properties \in Seq(S)
  BY SchemasAssumption
<1>2. \A i \in DOMAIN properties : IsProperty(properties[i])
  BY SchemasAssumption
<1> HIDE DEF S
<1> QED BY <1>1, <1>2

\* A request is a name or a number, and no name is a number.
LEMMA NoNameIsNumber == \A n \in Names : n \notin Int /\ n # Nothing
BY NamesAssumption

LEMMA TypesAtFirst == Init => TypeOK /\ WalkFollows /\ AnswerMatches
<1> SUFFICES ASSUME Init PROVE TypeOK /\ WalkFollows /\ AnswerMatches
  OBVIOUS
<1>1. Len(properties) \in Nat
  BY SchemaTypes DEF Init
<1>2. buffer \in Seq(Cells)
  BY InitIInv DEF IInv
<1>3. <<>> \in Seq([start : Nat, len : Nat]) /\ Len(<<>>) = 0
  OBVIOUS
<1> QED BY <1>1, <1>2, <1>3 DEF Init, TypeOK, WalkTypeOK, WalkFollows, AnswerMatches, Answered, NotFound

\* A slice is appended for each property that is parsed.
LEMMA ParseAppends ==
  ASSUME TypeOK, SlicesTile, ParseNext
  PROVE  /\ slices' \in Seq([start : Nat, len : Nat])
         /\ Len(slices') = Len(slices) + 1
         /\ lastOffset' \in Nat
<1>1. PICK n \in 0 .. Len(Rest) :
        /\ slices' = Append(slices, [start |-> lastOffset, len |-> n])
        /\ lastOffset' = lastOffset + n
  BY DEF ParseNext
<1>2. buffer \in Seq(Cells) /\ lastOffset \in Nat /\ slices \in Seq([start : Nat, len : Nat])
  BY DEF TypeOK, WalkTypeOK
<1>3. n \in Nat /\ lastOffset' \in Nat
  BY <1>1, <1>2
<1> QED BY <1>1, <1>2, <1>3

LEMMA TypesAreKept ==
  ASSUME TypeOK, WalkFollows, AnswerMatches, SlicesTile, [Next]_vars
  PROVE  TypeOK' /\ WalkFollows' /\ AnswerMatches'
<1> USE DEF TypeOK, WalkTypeOK, WalkFollows, AnswerMatches, Answered, NotFound, Failed, event, cache
<1>1. Len(properties) \in Nat /\ DOMAIN properties = 1 .. Len(properties)
      /\ \A i \in 1 .. Len(properties) : properties[i].name \in Names
  BY SchemaTypes DEF IsProperty
<1>2. Len(slices) \in Nat /\ DOMAIN slices = 1 .. Len(slices)
  OBVIOUS
<1>3. CASE Ask
  <2>1. \A i \in DOMAIN slices : i \in 1 .. Len(properties)
    BY <1>1, <1>2
  <2>2. CASE request' \in Names
    BY <1>3, <2>2, NoNameIsNumber DEF Ask
  <2>3. CASE request' \in 1 .. Len(properties) + 1
    <3>1. request' \in Int /\ request' \notin Names /\ request' # Nothing /\ request' \in Nat
      BY <1>1, <2>3, NamesAssumption
    <3>2. \A i \in DOMAIN slices : properties[i].name # request'
      BY <1>1, <2>1, <3>1
    <3> QED BY <1>3, <3>1, <3>2 DEF Ask
  <2> QED BY <1>3, <2>2, <2>3 DEF Ask
<1>4. CASE ProbeHit
  <2>1. PICK i \in Hits : nextProbe' = i % Len(slices) /\ answer' = i /\ pc' = "idle"
                          /\ UNCHANGED <<event, slices, lastOffset, request>>
    BY <1>4 DEF ProbeHit, Return
  <2>2. i \in 1 .. Len(slices) /\ properties[i].name = request
    BY <1>2, <2>1 DEF Hits
  <2>3. i % Len(slices) \in Nat
    <3>1. PICK a \in Nat, b \in Nat : a = i /\ b = Len(slices) /\ b > 0
      <4>1. i \in Nat /\ Len(slices) \in Nat /\ Len(slices) > 0
        BY <1>2, <2>2
      <4> QED BY <4>1
    <3>2. a % b \in 0 .. b - 1
      BY <3>1
    <3> QED BY <3>1, <3>2
  <2> QED BY <1>2, <2>1, <2>2, <2>3
<1>5. CASE ProbeMiss
  BY <1>1, <1>2, <1>5, NoNameIsNumber DEF ProbeMiss, Hits
<1>6. CASE IndexHit
  BY <1>2, <1>6 DEF IndexHit, Return
<1>7. CASE ParseNext
  <2> DEFINE next == Len(slices) + 1
  <2>1. slices' \in Seq([start : Nat, len : Nat]) /\ Len(slices') = next /\ lastOffset' \in Nat
        /\ DOMAIN slices' = 1 .. next
    BY <1>7, ParseAppends
  <2>2. pc = "parse" /\ next \in 1 .. Len(properties) /\ UNCHANGED <<event, nextProbe, request>>
    BY <1>1, <1>2, <1>7 DEF ParseNext, Pending
  <2>3. CASE Reached(next)
    <3>1. answer' = next /\ pc' = "idle" /\ (request = next \/ properties[next].name = request)
      BY <1>7, <2>3 DEF ParseNext, Reached, Return
    <3> QED BY <1>2, <2>1, <2>2, <3>1
  <2>4. CASE ~ Reached(next)
    <3>1. UNCHANGED <<pc, answer>> /\ properties[next].name # request
      BY <1>2, <1>7, <2>4 DEF ParseNext, Reached
    <3>2. \A i \in DOMAIN slices' : properties[i].name # request
      BY <1>2, <2>1, <2>2, <3>1
    <3> QED BY <2>1, <2>2, <3>1, <3>2
  <2> QED BY <2>3, <2>4
<1>8. CASE ParseFails
  BY <1>8 DEF ParseFails, Return
<1>9. CASE Exhausted
  <2>1. pc = "parse" /\ request \notin 1 .. Len(slices) /\ Len(slices) = Len(properties)
    BY <1>2, <1>9 DEF Exhausted, Pending
  <2>2. \A i \in DOMAIN properties : request # i /\ properties[i].name # request
    BY <1>1, <1>2, <2>1
  <2> QED BY <1>9, <2>2 DEF Exhausted, Return
<1>10. CASE UNCHANGED vars
  BY <1>10 DEF vars
<1> QED
  BY <1>3, <1>4, <1>5, <1>6, <1>7, <1>8, <1>9, <1>10 DEF Next, Walk, Finished

-----------------------------------------------------------------------------
(* Sizes *)

\* A value fits or not, whatever else is located: that only depends on the event.
LEMMA MemberFitsStays ==
  ASSUME UNCHANGED <<buffer, pointerSize>>, NEW CONSTANT known, NEW CONSTANT p, NEW CONSTANT v,
         NEW CONSTANT isLast
  PROVE  MemberFits(known, p, v, isLast)' <=> MemberFits(known, p, v, isLast)
BY Zenon DEF MemberFits, ValueFits, ArrayFits, Given, Carrier

LEMMA FixedSizeStays ==
  ASSUME UNCHANGED pointerSize, NEW CONSTANT p
  PROVE  FixedSize(p)' = FixedSize(p)
BY Zenon DEF FixedSize, ElementSize

LEMMA FitsStays ==
  ASSUME UNCHANGED <<buffer, pointerSize>>, NEW CONSTANT known, NEW CONSTANT p, NEW CONSTANT v,
         NEW CONSTANT isLast
  PROVE  Fits(known, p, v, isLast)' <=> Fits(known, p, v, isLast)
<1>1. \A q, w, last : MemberFits(known, q, w, last)' <=> MemberFits(known, q, w, last)
  BY MemberFitsStays
<1>2. MembersSize(p)' = MembersSize(p)
  <2>1. \A q : FixedSize(q)' = FixedSize(q)
    BY FixedSizeStays
  <2> QED BY <2>1 DEF MembersSize
<1>3. ASSUME NEW CONSTANT n
      PROVE  Ends(known, p, v, isLast, n)' = Ends(known, p, v, isLast, n)
  <2>1. \A k, starts : EndsAfter(known, p, v, isLast, k, starts)' = EndsAfter(known, p, v, isLast, k, starts)
    BY <1>1 DEF EndsAfter
  <2> QED BY <2>1 DEF Ends
<1>4. Given(known, p.count)' = Given(known, p.count)
  BY Zenon DEF Given, Carrier
<1>5. StructFits(known, p, v, isLast)' <=> StructFits(known, p, v, isLast)
  BY <1>2, <1>3, <1>4, Zenon DEF StructFits
<1> QED BY <1>1, <1>5 DEF Fits

LEMMA FixedSizes ==
  ASSUME NEW in
  PROVE  /\ in \in Single => FixedSizeOf(in) = {1}
         /\ in \in {"guid", "systemtime"} => FixedSizeOf(in) = {2}
         /\ in \notin Single \cup {"guid", "systemtime"} => FixedSizeOf(in) = {}
BY DEF FixedSizeOf, Single, Numeric

\* The first n cells of the rest.
Taken(n) == SubSeq(Rest, 1, n)

LEMMA WiderSeq ==
  ASSUME NEW S, NEW T, S \subseteq T, NEW s \in Seq(S)
  PROVE  s \in Seq(T)
OBVIOUS

LEMMA RestTypes ==
  ASSUME TypeOK, SlicesTile
  PROVE  Rest \in Seq(Nat) /\ Len(Rest) \in Nat /\ Len(Rest) = Len(buffer) - lastOffset
         /\ \A n \in 0 .. Len(Rest) :
              /\ Len(Taken(n)) = n /\ DOMAIN Taken(n) = 1 .. n
              /\ \A k \in 1 .. n : Taken(n)[k] = Rest[k]
         /\ \A k \in 1 .. Len(Rest) : Rest[k] \in Nat
<1>1. buffer \in Seq(Nat)
  <2>1. \A s \in Seq(Cells) : s \in Seq(Nat)
    BY CellsAssumption, WiderSeq
  <2> QED BY <2>1 DEF TypeOK
<1>2. lastOffset \in Nat /\ lastOffset <= Len(buffer)
  BY DEF TypeOK, WalkTypeOK, SlicesTile
<1>3. Rest \in Seq(Nat) /\ Len(Rest) = Len(buffer) - lastOffset
  BY <1>1, <1>2 DEF Rest
<1>4. Len(Rest) \in Nat
  BY <1>3
<1>5. \A n \in 0 .. Len(Rest) :
        Taken(n) \in Seq(Nat) /\ Len(Taken(n)) = n /\ \A k \in 1 .. n : Taken(n)[k] = Rest[k]
  BY <1>3, PrefixTypes DEF Taken
<1>6. \A k \in 1 .. Len(Rest) : Rest[k] \in Nat
  BY <1>3
<1>7. \A n \in 0 .. Len(Rest) : DOMAIN Taken(n) = 1 .. n
  <2> TAKE n \in 0 .. Len(Rest)
  <2>1. PICK t \in Seq(Nat) : t = Taken(n) /\ Len(t) = n
    BY <1>5
  <2> QED BY <2>1
<1> QED BY <1>3, <1>4, <1>5, <1>6, <1>7

LEMMA SeqElements ==
  ASSUME NEW S, NEW s \in Seq(S)
  PROVE  Len(s) \in Nat /\ DOMAIN s = 1 .. Len(s) /\ \A j \in 1 .. Len(s) : s[j] \in S
OBVIOUS

LEMMA SliceTypes ==
  ASSUME TypeOK
  PROVE  /\ Len(slices) \in Nat /\ DOMAIN slices = 1 .. Len(slices)
         /\ \A j \in 1 .. Len(slices) : slices[j].start \in Nat /\ slices[j].len \in Nat
<1>1. slices \in Seq([start : Nat, len : Nat])
  BY DEF TypeOK, WalkTypeOK
<1>2. Len(slices) \in Nat /\ DOMAIN slices = 1 .. Len(slices)
  BY <1>1, SeqElements
<1>3. \A j \in 1 .. Len(slices) : slices[j] \in [start : Nat, len : Nat]
  BY <1>1, SeqElements
<1>4. \A j \in 1 .. Len(slices) : slices[j].start \in Nat /\ slices[j].len \in Nat
  BY <1>3
<1> QED BY <1>2, <1>4

\* The slices end one after the other, at last where the walk is.
LEMMA SliceEnds ==
  ASSUME TypeOK, SlicesTile, NEW i \in 1 .. Len(slices)
  PROVE  EndOf(i) \in Nat /\ EndOf(i) <= lastOffset /\ EndOf(i) <= Len(buffer)
<1>1. PICK n \in Nat : n = Len(slices)
  BY SliceTypes
<1>2. \A j \in 1 .. n : slices[j].start \in Nat /\ slices[j].len \in Nat
  BY <1>1, SliceTypes
<1>3. \A j \in 0 .. n : EndOf(j) \in Nat
  BY <1>2 DEF EndOf
<1>4. \A j \in 1 .. n : EndOf(j - 1) <= EndOf(j)
  <2> TAKE j \in 1 .. n
  <2>1. slices[j].start = EndOf(j - 1)
    BY <1>1, SliceTypes DEF SlicesTile
  <2>2. EndOf(j) = slices[j].start + slices[j].len
    BY DEF EndOf
  <2> QED BY <1>2, <2>1, <2>2
<1> DEFINE T == {k \in 0 .. n : EndOf(n - k) <= EndOf(n)}
<1>5. 0 \in T
  BY <1>1, <1>3
<1>6. ASSUME NEW k \in 0 .. n - 1, k \in T PROVE k + 1 \in T
  <2>1. PICK j \in 1 .. n : j = n - k /\ j - 1 = n - (k + 1)
    <3>1. n - k \in 1 .. n /\ (n - k) - 1 = n - (k + 1)
      OBVIOUS
    <3> QED BY <3>1
  <2>2. EndOf(j - 1) <= EndOf(j) /\ EndOf(j) <= EndOf(n)
    BY <1>4, <1>6, <2>1
  <2>3. EndOf(j - 1) \in Nat /\ EndOf(j) \in Nat /\ EndOf(n) \in Nat
    BY <1>1, <1>3
  <2>4. k + 1 \in 0 .. n
    BY <1>1
  <2> QED BY <2>1, <2>2, <2>3, <2>4
<1>7. \A k \in 0 .. n : k \in T
  <2> HIDE DEF T
  <2> QED BY <1>1, <1>5, <1>6, Induction
<1>8. PICK k \in 0 .. n : i = n - k
  <2>1. n - i \in 0 .. n /\ i = n - (n - i)
    BY <1>1
  <2> QED BY <2>1
<1>9. EndOf(i) <= EndOf(n) /\ EndOf(i) \in Nat
  BY <1>1, <1>3, <1>7, <1>8
<1>10. EndOf(n) = lastOffset /\ lastOffset \in Nat /\ lastOffset <= Len(buffer)
  BY <1>1 DEF SlicesTile, TypeOK, WalkTypeOK
<1>11. Len(buffer) \in Nat
  BY DEF TypeOK
<1> QED BY <1>9, <1>10, <1>11

\* A number that is referred to is one of the cells, or none.
LEMMA CarrierTypes ==
  ASSUME TypeOK, SlicesTile, NEW i
  PROVE  \A n \in Carrier(slices, i) : n \in Nat /\ Carrier(slices, i) = {n}
<1> SUFFICES ASSUME i \in 1 .. Len(slices), slices[i].len = 1
             PROVE  buffer[slices[i].start + 1] \in Nat
  BY DEF Carrier
<1>1. PICK a \in Nat : a = slices[i].start /\ EndOf(i) = a + 1
  <2>1. slices[i].start \in Nat /\ EndOf(i) = slices[i].start + 1
    BY SliceTypes DEF EndOf
  <2> QED BY <2>1
<1>2. a + 1 <= Len(buffer)
  BY <1>1, SliceEnds
<1>3. buffer \in Seq(Cells) /\ a + 1 \in 1 .. Len(buffer)
  BY <1>2 DEF TypeOK
<1>4. buffer[a + 1] \in Cells
  BY <1>3
<1> QED BY <1>1, <1>4, CellsAssumption

\* The sizes that a value gets from its own cells.
LEMMA TextFits ==
  ASSUME TypeOK, SlicesTile, NEW n \in 0 .. Len(Rest), n \in FirstOf(Nuls(Rest))
  PROVE  Nuls(Taken(n)) = {Len(Taken(n))}
<1>1. n \in Nuls(Rest) /\ \A j \in Nuls(Rest) : n <= j
  BY RestTypes DEF FirstOf, Failed
<1>2. n \in 1 .. Len(Rest) /\ Rest[n] = 0
  BY <1>1, RestTypes DEF Nuls
<1>3. \A k \in 1 .. n : Taken(n)[k] = 0 <=> k = n
  <2>1. \A k \in 1 .. n : k \in 1 .. Len(Rest) /\ k \in DOMAIN Rest
    BY <1>2, RestTypes
  <2> QED BY <1>1, <1>2, <2>1, RestTypes DEF Nuls
<1>4. DOMAIN Taken(n) = 1 .. n /\ Len(Taken(n)) = n
  BY RestTypes
<1> QED BY <1>2, <1>3, <1>4 DEF Nuls

LEMMA WideFits ==
  ASSUME TypeOK, SlicesTile, NEW n \in 0 .. Len(Rest), NEW k \in FirstOf(Nuls(Chars(Rest))),
         k # Failed, n = 2 * k
  PROVE  Len(Taken(n)) % 2 = 0 /\ Nuls(Chars(Taken(n))) = {Len(Chars(Taken(n)))}
<1>1. k \in Nuls(Chars(Rest)) /\ \A j \in Nuls(Chars(Rest)) : k <= j
  BY DEF FirstOf
<1>2. PICK m \in Nat, h \in Nat : m = Len(Rest) /\ h = m \div 2
  BY RestTypes
<1>3. DOMAIN Chars(Rest) = 1 .. h /\ \A j \in 1 .. h : Chars(Rest)[j] = Rest[2 * j - 1] + Rest[2 * j]
  BY <1>2 DEF Chars
<1>4. k \in 1 .. h /\ Rest[2 * k - 1] + Rest[2 * k] = 0
  BY <1>1, <1>3 DEF Nuls
<1>5. Len(Taken(n)) = n /\ \A j \in 1 .. n : Taken(n)[j] = Rest[j]
  BY RestTypes
<1>6. n \div 2 = k /\ n % 2 = 0
  BY <1>4
<1>7. /\ DOMAIN Chars(Taken(n)) = 1 .. k /\ Len(Chars(Taken(n))) = k
      /\ \A j \in 1 .. k : Chars(Taken(n))[j] = Taken(n)[2 * j - 1] + Taken(n)[2 * j]
  <2>1. Chars(Taken(n)) = [j \in 1 .. k |-> Taken(n)[2 * j - 1] + Taken(n)[2 * j]]
    BY <1>5, <1>6 DEF Chars
  <2>2. k \in Nat
    BY <1>4
  <2> QED BY <2>1, <2>2
<1>8. \A j \in 1 .. k : Chars(Taken(n))[j] = Chars(Rest)[j]
  <2> TAKE j \in 1 .. k
  <2>1. 2 * j - 1 \in 1 .. n /\ 2 * j \in 1 .. n /\ j \in 1 .. h
    BY <1>4
  <2>2. Taken(n)[2 * j - 1] = Rest[2 * j - 1] /\ Taken(n)[2 * j] = Rest[2 * j]
    BY <1>5, <2>1
  <2> QED BY <1>3, <1>7, <2>1, <2>2
<1>9. \A j \in 1 .. k : Chars(Taken(n))[j] = 0 <=> j = k
  <2> TAKE j \in 1 .. k
  <2>1. j \in DOMAIN Chars(Rest)
    BY <1>3, <1>4
  <2>2. Chars(Rest)[j] = 0 => k <= j
    BY <1>1, <2>1 DEF Nuls
  <2>3. Chars(Rest)[k] = 0
    BY <1>1 DEF Nuls
  <2> QED BY <1>4, <1>8, <2>2, <2>3
<1>10. k \in 1 .. k
  BY <1>4
<1> QED BY <1>5, <1>6, <1>7, <1>9, <1>10 DEF Nuls

LEMMA CountedFits ==
  ASSUME TypeOK, SlicesTile, NEW n \in 0 .. Len(Rest), Rest # <<>>, n = 1 + Rest[1]
  PROVE  Taken(n) # <<>> /\ Taken(n)[1] = Len(Taken(n)) - 1
<1>1. 1 \in 1 .. Len(Rest)
  BY RestTypes
<1>2. Rest[1] \in Nat
  BY <1>1, RestTypes
<1>3. 1 \in 1 .. n
  BY <1>2
<1>4. Len(Taken(n)) = n /\ Taken(n)[1] = Rest[1]
  BY <1>3, RestTypes
<1>5. n # 0 /\ Len(<<>>) = 0
  BY <1>2
<1> QED BY <1>2, <1>4, <1>5

\* What a value of each type has to satisfy.
LEMMA ValueArms ==
  ASSUME NEW ptr, NEW lengths, NEW p, NEW v, NEW isLast
  PROVE  /\ p.in = "pointer" /\ Len(v) = ptr => ValueFits(ptr, lengths, p, v, isLast)
         /\ /\ p.in \in Single \cup {"guid", "systemtime"}
            /\ Len(v) \in TypeSize(p)
            => ValueFits(ptr, lengths, p, v, isLast)
         /\ p.in \in Counted /\ v # <<>> /\ v[1] = Len(v) - 1 => ValueFits(ptr, lengths, p, v, isLast)
         /\ p.in \in Remaining /\ isLast => ValueFits(ptr, lengths, p, v, isLast)
         /\ /\ p.in \in {"ansi", "wide", "ipv6", "binary", "null"} /\ HasLength(p)
            /\ \A n \in lengths : Len(v) = InCells(p.in, n)
            => ValueFits(ptr, lengths, p, v, isLast)
         /\ p.in = "ansi" /\ ~HasLength(p) /\ Nuls(v) = {Len(v)} => ValueFits(ptr, lengths, p, v, isLast)
         /\ /\ p.in = "wide" /\ ~HasLength(p)
            /\ Len(v) % 2 = 0 /\ Nuls(Chars(v)) = {Len(Chars(v))}
            => ValueFits(ptr, lengths, p, v, isLast)
         /\ p.in = "ipv6" /\ ~HasLength(p) /\ Len(v) = 2 => ValueFits(ptr, lengths, p, v, isLast)
         /\ p.in \in {"binary", "null"} /\ ~HasLength(p) => ValueFits(ptr, lengths, p, v, isLast)
<1>1. FixedSizeOf(p.in) # {} <=> p.in \in Single \cup {"guid", "systemtime"}
  BY FixedSizes
<1> QED
  BY <1>1 DEF ValueFits, Counted, Remaining, Single, Numeric

\* The size that is found for a value is one that its type, and the length that is
\* given, allow.
LEMMA ValueSizeFits ==
  ASSUME TypeOK, SlicesTile, NEW p, p.in \in InTypes,
         NEW n \in 0 .. Len(Rest), n \in ValueSizes(p)
  PROVE  ValueFits(pointerSize, Given(slices, p.length), p, Taken(n), n = Len(Rest))
<1>1. Len(Taken(n)) = n
  BY RestTypes
<1>2. CASE p.in = "pointer"
  <2>1. n = pointerSize
    BY <1>2 DEF ValueSizes, ContentSized, Counted, Remaining
  <2> QED BY <1>1, <1>2, <2>1, ValueArms
<1>3. CASE p.in \in Single \cup {"guid", "systemtime"}
  <2>1. FixedSizeOf(p.in) # {} /\ p.in \notin ContentSized /\ p.in # "pointer" /\ p.in # "wide"
    BY <1>3, FixedSizes DEF ContentSized, Counted, Remaining, Single, Numeric
  <2>2. n \in TypeSize(p)
    <3>1. CASE ~ Literal(p.length)
      BY <2>1, <3>1 DEF ValueSizes, ReferredLength, TypeSize
    <3>2. CASE Literal(p.length) /\ HasLength(p)
      BY <2>1, <3>2 DEF ValueSizes, ElementSize, TypeSize, InCells
    <3>3. CASE Literal(p.length) /\ ~ HasLength(p)
      <4>1. n \in SizeByContent(p.in, Rest)
        BY <2>1, <3>3 DEF ValueSizes
      <4>2. n \in FixedSizeOf(p.in)
        BY <1>3, <4>1 DEF SizeByContent, Counted, Remaining, Single, Numeric
      <4> QED BY <3>3, <4>2 DEF TypeSize
    <3> QED BY <3>1, <3>2, <3>3
  <2> QED BY <1>1, <1>3, <2>2, ValueArms
<1>4. CASE p.in \in Counted
  <2>1. n \in SizeByContent(p.in, Rest) /\ FixedSizeOf(p.in) = {} /\ p.in # "pointer"
    BY <1>4, FixedSizes DEF ValueSizes, ContentSized, Counted, Single, Numeric
  <2>2. Rest # <<>> /\ n = 1 + Rest[1]
    <3>1. SizeByContent(p.in, Rest) = IF Rest = <<>> THEN {Failed} ELSE {1 + Rest[1]}
      BY <1>4 DEF SizeByContent, Counted, Remaining
    <3>2. n # Failed
      BY RestTypes DEF Failed
    <3> QED BY <2>1, <3>1, <3>2
  <2>3. Taken(n) # <<>> /\ Taken(n)[1] = Len(Taken(n)) - 1
    BY <2>2, CountedFits
  <2> QED BY <1>4, <2>3, ValueArms
<1>5. CASE p.in \in Remaining
  <2>1. n \in SizeByContent(p.in, Rest) /\ FixedSizeOf(p.in) = {} /\ p.in # "pointer"
    BY <1>5, FixedSizes DEF ValueSizes, ContentSized, Remaining, Single, Numeric
  <2>2. n = Len(Rest)
    BY <1>5, <2>1 DEF SizeByContent, Counted, Remaining
  <2> QED BY <1>5, <2>2, ValueArms
<1>6. CASE p.in \in {"ansi", "wide", "ipv6", "binary", "null"}
  <2>1. FixedSizeOf(p.in) = {} /\ p.in # "pointer" /\ p.in \notin ContentSized
        /\ p.in \notin Counted /\ p.in \notin Remaining
    BY <1>6, FixedSizes DEF ContentSized, Counted, Remaining, Single, Numeric
  <2>2. CASE ~ Literal(p.length)
    <3>1. PICK c \in Carrier(slices, p.length.n) : n \in LengthInCells(p.in, c)
      BY <2>1, <2>2 DEF ValueSizes, ReferredLength
    <3>2. n = InCells(p.in, c) /\ Given(slices, p.length) = {c}
      BY <2>2, <3>1, CarrierTypes DEF LengthInCells, Checked, Given
    <3>3. HasLength(p) /\ \A m \in Given(slices, p.length) : Len(Taken(n)) = InCells(p.in, m)
      BY <1>1, <2>2, <3>2 DEF HasLength
    <3> QED BY <1>6, <3>3, ValueArms
  <2>3. CASE Literal(p.length) /\ HasLength(p)
    <3>1. n = InCells(p.in, p.length.n) /\ Given(slices, p.length) = {p.length.n}
      BY <2>1, <2>3 DEF ValueSizes, ElementSize, Given
    <3>2. \A m \in Given(slices, p.length) : Len(Taken(n)) = InCells(p.in, m)
      BY <1>1, <3>1
    <3> QED BY <1>6, <2>3, <3>2, ValueArms
  <2>4. CASE Literal(p.length) /\ ~ HasLength(p)
    <3>1. n \in SizeByContent(p.in, Rest)
      BY <2>1, <2>4 DEF ValueSizes
    <3>2. CASE p.in = "ansi"
      <4>1. n \in FirstOf(Nuls(Rest))
        <5>1. SizeByContent("ansi", Rest) = FirstOf(Nuls(Rest))
          BY DEF SizeByContent, Counted, Remaining
        <5> QED BY <3>1, <3>2, <5>1
      <4>2. Nuls(Taken(n)) = {Len(Taken(n))}
        BY <4>1, TextFits
      <4> QED BY <2>4, <3>2, <4>2, ValueArms
    <3>3. CASE p.in = "wide"
      <4>1. PICK k \in FirstOf(Nuls(Chars(Rest))) : n = IF k = Failed THEN Failed ELSE 2 * k
        <5>1. SizeByContent("wide", Rest)
                = {IF k = Failed THEN Failed ELSE 2 * k : k \in FirstOf(Nuls(Chars(Rest)))}
          BY DEF SizeByContent, Counted, Remaining
        <5> QED BY <3>1, <3>3, <5>1
      <4>2. k # Failed /\ n = 2 * k
        BY <4>1, RestTypes DEF Failed
      <4>3. Len(Taken(n)) % 2 = 0 /\ Nuls(Chars(Taken(n))) = {Len(Chars(Taken(n)))}
        BY <4>2, WideFits
      <4> QED BY <2>4, <3>3, <4>3, ValueArms
    <3>4. CASE p.in = "ipv6"
      <4>1. n = 2
        BY <3>1, <3>4 DEF SizeByContent, Counted, Remaining
      <4> QED BY <1>1, <2>4, <3>4, <4>1, ValueArms
    <3>5. CASE p.in \in {"binary", "null"}
      BY <2>4, <3>5, ValueArms
    <3> QED BY <1>6, <3>2, <3>3, <3>4, <3>5
  <2> QED BY <2>2, <2>3, <2>4
<1> QED BY <1>2, <1>3, <1>4, <1>5, <1>6 DEF InTypes, ContentSized

\* A length or a count stands for one number at most.
LEMMA GivenOne ==
  ASSUME TypeOK, SlicesTile, NEW x
  PROVE  /\ \A n \in Given(slices, x) : Given(slices, x) = {n}
         /\ ~Literal(x) => Given(slices, x) = Carrier(slices, x.n)
         /\ Literal(x) => Given(slices, x) = {x.n}
<1>1. \A n \in Carrier(slices, x.n) : Carrier(slices, x.n) = {n}
  BY CarrierTypes
<1> QED BY <1>1 DEF Given

\* What an array of each type has to satisfy.
LEMMA ArrayArms ==
  ASSUME NEW ptr, NEW lengths, NEW c, NEW p, NEW v,
         p.in = "pointer" => Len(v) = ptr * c,
         p.in \in Single \cup {"guid", "systemtime"} =>
           \A n \in TypeSize(p) : Len(v) = n * c,
         p.in = "ansi" /\ ~HasLength(p) =>
           Cardinality(Nuls(v)) = c /\ (v # <<>> => Len(v) \in Nuls(v)),
         p.in \in {"ansi", "wide"} /\ HasLength(p) =>
           \A n \in lengths : Len(v) = InCells(p.in, n) * c
  PROVE  ArrayFits(ptr, lengths, {c}, p, v)
<1>1. FixedSizeOf(p.in) # {} <=> p.in \in Single \cup {"guid", "systemtime"}
  BY FixedSizes
<1> QED
  BY <1>1 DEF ArrayFits

LEMMA ArraySizeFits ==
  ASSUME TypeOK, SlicesTile, NEW p, NEW n \in 0 .. Len(Rest), n \in ArraySizes(p)
  PROVE  ArrayFits(pointerSize, Given(slices, p.length), Given(slices, p.count), p, Taken(n))
<1> DEFINE elem == IF p.in # "pointer" /\ ~Literal(p.length) THEN ReferredLength(p) ELSE ElementSize(p)
<1>1. PICK c \in Given(slices, p.count) :
        n \in IF elem = {} /\ c = 0 THEN {0} ELSE UNION {Checked(e * c) : e \in elem}
  BY DEF ArraySizes
<1>2. Given(slices, p.count) = {c}
  BY <1>1, GivenOne
<1>3. Len(Taken(n)) = n
  BY RestTypes
<1>4. (elem = {} /\ c = 0 /\ n = 0) \/ \E e \in elem : n = e * c
  <2> HIDE DEF elem
  <2> QED BY <1>1 DEF Checked
<1>5. ASSUME p.in = "pointer" PROVE n = pointerSize * c
  <2>1. elem = {pointerSize}
    BY <1>5 DEF ElementSize
  <2> HIDE DEF elem
  <2> QED BY <1>4, <2>1
<1>6. ASSUME p.in \in Single \cup {"guid", "systemtime"}, NEW k \in TypeSize(p)
      PROVE  n = k * c
  <2>1. FixedSizeOf(p.in) # {} /\ p.in # "pointer" /\ p.in # "wide"
    BY <1>6, FixedSizes DEF Single, Numeric
  <2>2. elem = TypeSize(p)
    BY <2>1 DEF ReferredLength, ElementSize, TypeSize, InCells, HasLength
  <2>3. elem = {k}
    BY <1>6, <2>2, FixedSizes DEF TypeSize
  <2> HIDE DEF elem
  <2> QED BY <1>4, <2>3
<1>7. ASSUME p.in = "ansi", ~HasLength(p)
      PROVE  Cardinality(Nuls(Taken(n))) = c /\ (Taken(n) # <<>> => Len(Taken(n)) \in Nuls(Taken(n)))
  <2>1. elem = {}
    BY <1>7, FixedSizes DEF ElementSize, HasLength, Single, Numeric
  <2>2. c = 0 /\ n = 0
    <3> HIDE DEF elem
    <3> QED BY <1>4, <2>1
  <2>3. Taken(n) = <<>> /\ Nuls(Taken(n)) = {}
    BY <2>2, RestTypes DEF Taken, Nuls
  <2> QED BY <2>2, <2>3, FS_EmptySet
<1>8. ASSUME p.in \in {"ansi", "wide"}, HasLength(p), NEW k \in Given(slices, p.length)
      PROVE  n = InCells(p.in, k) * c
  <2>1. FixedSizeOf(p.in) = {} /\ p.in # "pointer"
    BY <1>8, FixedSizes DEF Single, Numeric
  <2>2. Given(slices, p.length) = {k}
    BY <1>8, GivenOne
  <2>3. elem = {} \/ elem = {InCells(p.in, k)}
    <3>1. CASE Literal(p.length)
      <4>1. k = p.length.n
        BY <2>2, <3>1, GivenOne
      <4> QED BY <1>8, <2>1, <3>1, <4>1 DEF ElementSize
    <3>2. CASE ~Literal(p.length)
      <4>1. Carrier(slices, p.length.n) = {k}
        BY <2>2, <3>2, GivenOne
      <4>2. ReferredLength(p) = LengthInCells(p.in, k)
        BY <2>1, <4>1 DEF ReferredLength
      <4> QED BY <2>1, <3>2, <4>2 DEF LengthInCells, Checked
    <3> QED BY <3>1, <3>2
  <2>4. CASE elem = {}
    <3>1. ~Literal(p.length)
      BY <1>8, <2>1, <2>4 DEF ElementSize
    <3>2. k \in Nat
      BY <1>8, <3>1, GivenOne, CarrierTypes
    <3>3. c = 0 /\ n = 0
      <4> HIDE DEF elem
      <4> QED BY <1>4, <2>4
    <3>4. InCells(p.in, k) \in Nat
      BY <3>2 DEF InCells
    <3> QED BY <3>3, <3>4
  <2>5. CASE elem = {InCells(p.in, k)}
    <3> HIDE DEF elem
    <3> QED BY <1>4, <2>5
  <2> QED BY <2>3, <2>4, <2>5
<1>9. ArrayFits(pointerSize, Given(slices, p.length), {c}, p, Taken(n))
  <2> HIDE DEF elem
  <2>1. p.in = "pointer" => Len(Taken(n)) = pointerSize * c
    BY <1>3, <1>5
  <2>2. p.in \in Single \cup {"guid", "systemtime"} =>
          \A k \in TypeSize(p) : Len(Taken(n)) = k * c
    BY <1>3, <1>6
  <2>3. p.in \in {"ansi", "wide"} /\ HasLength(p) =>
          \A k \in Given(slices, p.length) : Len(Taken(n)) = InCells(p.in, k) * c
    BY <1>3, <1>8
  <2> QED BY <1>7, <2>1, <2>2, <2>3, ArrayArms
<1> QED BY <1>2, <1>9

LEMMA StructSizeFits ==
  ASSUME TypeOK, SlicesTile, NEW p, NEW n \in 0 .. Len(Rest), n \in StructSizes(p), NEW isLast
  PROVE  StructFits(slices, p, Taken(n), isLast)
<1>1. PICK m \in MembersSize(p), c \in Given(slices, p.count) : n \in Checked(m * c)
  BY DEF StructSizes
<1>2. Given(slices, p.count) = {c} /\ MembersSize(p) = {m} /\ n = m * c
  BY <1>1, GivenOne DEF MembersSize, Checked
<1>3. Len(Taken(n)) = n
  BY RestTypes
<1> QED BY <1>2, <1>3 DEF StructFits

\* So is every size: unless TDH finds it by the name of a property before.
LEMMA SizeFits ==
  ASSUME TypeOK, SlicesTile, NEW p, IsProperty(p), NEW n \in 0 .. Len(Rest), n \in Sizes(p)
  PROVE  \/ Fits(slices, p, Taken(n), n = Len(Rest))
         \/ \E j \in 1 .. Len(slices) : properties[j].name = p.name /\ slices[j].len = n
<1>1. Len(Taken(n)) = n /\ n # Failed
  BY RestTypes DEF Failed
<1>2. ASSUME n \in LocalSizes(p) PROVE Fits(slices, p, Taken(n), n = Len(Rest))
  <2>1. CASE p.form = "value"
    <3>1. p.in \in InTypes /\ n \in ValueSizes(p)
      BY <1>2, <2>1 DEF IsProperty, LocalSizes
    <3>2. ValueFits(pointerSize, Given(slices, p.length), p, Taken(n), n = Len(Rest))
      BY <3>1, ValueSizeFits
    <3> QED BY <2>1, <3>2 DEF Fits, MemberFits
  <2>2. CASE p.form = "array"
    <3>1. n \in ArraySizes(p)
      BY <1>2, <2>2 DEF LocalSizes
    <3>2. ArrayFits(pointerSize, Given(slices, p.length), Given(slices, p.count), p, Taken(n))
      BY <3>1, ArraySizeFits
    <3> QED BY <2>2, <3>2 DEF Fits, MemberFits
  <2>3. CASE p.form = "struct"
    <3>1. n \in StructSizes(p)
      BY <1>2, <2>3 DEF LocalSizes
    <3> QED BY <2>3, <3>1, StructSizeFits DEF Fits
  <2>4. CASE p.form = "unsupported"
    <3>1. n \in Given(slices, p.length)
      BY <1>2, <2>4 DEF LocalSizes
    <3>2. \A k \in Given(slices, p.length) : Len(Taken(n)) = k
      BY <1>1, <3>1, GivenOne
    <3> QED BY <2>4, <3>2 DEF Fits, MemberFits
  <2> QED BY <2>1, <2>2, <2>3, <2>4 DEF IsProperty
<1>3. CASE n \in TdhSizes(p)
  <2> DEFINE same == {j \in DOMAIN slices : properties[j].name = p.name}
  <2>1. CASE same # {}
    <3>1. PICK j \in FirstOf(same) : n = slices[j].len
      BY <1>1, <1>3, <2>1 DEF TdhSizes
    <3>2. j \in same
      BY <2>1, <3>1 DEF FirstOf
    <3> QED BY <3>1, <3>2, SliceTypes
  <2>2. CASE same = {}
    BY <1>1, <1>3, <2>2 DEF TdhSizes, Taken
  <2> QED BY <2>1, <2>2
<1> QED BY <1>2, <1>3 DEF Sizes

\* What was located before keeps its place, and what is located next takes the
\* start of the rest.
LEMMA ParseKeeps ==
  ASSUME TypeOK, SlicesTile, NEW n \in 0 .. Len(Rest), NEW next, next = Len(slices) + 1,
         slices' = Append(slices, [start |-> lastOffset, len |-> n]), UNCHANGED event
  PROVE  /\ \A i \in 1 .. Len(slices) :
              /\ slices'[i] = slices[i]
              /\ SubSeq(slices', 1, i - 1) = SubSeq(slices, 1, i - 1)
              /\ ValueOf(i)' = ValueOf(i) /\ (EndOf(i) = Len(buffer))' = (EndOf(i) = Len(buffer))
         /\ slices'[next].len = n
         /\ SubSeq(slices', 1, Len(slices)) = slices
         /\ ValueOf(next)' = Taken(n)
         /\ (EndOf(next) = Len(buffer))' <=> n = Len(Rest)
<1> DEFINE R == [start : Nat, len : Nat]
           s == [start |-> lastOffset, len |-> n]
<1>1. slices \in Seq(R) /\ lastOffset \in Nat
  BY DEF TypeOK, WalkTypeOK
<1>2. Len(Rest) \in Nat /\ Len(Rest) = Len(buffer) - lastOffset
  BY RestTypes
<1>3. s \in R /\ n \in Nat
  BY <1>1, <1>2
<1>4. slices' \in Seq(R) /\ Len(slices') = Len(slices) + 1 /\ slices'[next] = s
      /\ \A i \in 1 .. Len(slices) : slices'[i] = slices[i]
  <2>1. slices' = Append(slices, s)
    OBVIOUS
  <2> HIDE DEF R, s
  <2> QED BY <1>1, <1>3, <2>1
<1>5. Len(slices) \in Nat
  BY SliceTypes
<1>6. \A i \in 1 .. Len(slices) : SubSeq(slices', 1, i - 1) = SubSeq(slices, 1, i - 1)
  <2> TAKE i \in 1 .. Len(slices)
  <2> HIDE DEF R, s
  <2> QED BY <1>1, <1>4, <1>5
<1>7. SubSeq(slices', 1, Len(slices)) = slices
  <2> HIDE DEF R, s
  <2> QED BY <1>1, <1>4, <1>5
<1>8. \A i \in 1 .. Len(slices) : EndOf(i)' = EndOf(i)
  BY <1>4, <1>5 DEF EndOf
<1>9. \A i \in 1 .. Len(slices) : ValueOf(i)' = ValueOf(i)
  BY <1>4, <1>8 DEF ValueOf, event
<1>10. EndOf(next)' = lastOffset + n
  <2>1. slices'[next].start = lastOffset /\ slices'[next].len = n
    BY <1>4
  <2>2. next # 0
    BY <1>5
  <2> QED BY <2>1, <2>2, Zenon DEF EndOf
<1>11. ValueOf(next)' = SubSeq(buffer, lastOffset + 1, lastOffset + n)
  <2>1. slices'[next].start = lastOffset
    BY <1>4
  <2> QED BY <1>10, <2>1, Zenon DEF ValueOf, event
<1>12. Taken(n) = SubSeq(buffer, lastOffset + 1, lastOffset + n)
  <2>1. buffer \in Seq(Cells) /\ Len(buffer) \in Nat
    BY DEF TypeOK
  <2> QED BY <1>1, <1>2, <1>3, <2>1 DEF Taken, Rest
<1>13. (EndOf(next) = Len(buffer))' <=> n = Len(Rest)
  <2>1. Len(buffer) \in Nat /\ buffer' = buffer
    BY DEF TypeOK, event
  <2> QED BY <1>1, <1>2, <1>3, <1>10, <2>1
<1>14. \A i \in 1 .. Len(slices) : (EndOf(i) = Len(buffer))' = (EndOf(i) = Len(buffer))
  BY <1>8 DEF event
<1> QED BY <1>4, <1>6, <1>7, <1>9, <1>11, <1>12, <1>13, <1>14

LEMMA ParseFits ==
  ASSUME TypeOK, SlicesTile, SlicesFit, ParseNext
  PROVE  SlicesFit'
<1>1. PICK next \in Nat : next = Len(slices) + 1
  <2>1. Len(slices) + 1 \in Nat
    BY SliceTypes
  <2> QED BY <2>1
<1>2. PICK n \in 0 .. Len(Rest) :
        n \in Sizes(properties[next]) /\ slices' = Append(slices, [start |-> lastOffset, len |-> n])
  BY <1>1 DEF ParseNext
<1>3. UNCHANGED event /\ next \in 1 .. Len(properties)
  <2>1. next >= 1 /\ next <= Len(properties)
    BY <1>1, SliceTypes DEF ParseNext
  <2> QED BY <2>1, SchemaTypes DEF ParseNext, TypeOK
<1>4. /\ \A i \in 1 .. Len(slices) :
           /\ slices'[i] = slices[i]
           /\ SubSeq(slices', 1, i - 1) = SubSeq(slices, 1, i - 1)
           /\ ValueOf(i)' = ValueOf(i) /\ (EndOf(i) = Len(buffer))' = (EndOf(i) = Len(buffer))
      /\ slices'[next].len = n
      /\ SubSeq(slices', 1, next - 1) = slices
      /\ ValueOf(next)' = Taken(n)
      /\ (EndOf(next) = Len(buffer))' <=> n = Len(Rest)
  <2>1. next - 1 = Len(slices)
    BY <1>1, SliceTypes
  <2> QED BY <1>1, <1>2, <1>3, <2>1, ParseKeeps
<1>5. DOMAIN slices' = 1 .. next /\ \A i \in 1 .. next : i # next => i \in 1 .. Len(slices)
  BY <1>1, ParseAppends, SliceTypes
<1> DEFINE OwnFit(i) == Fits(SubSeq(slices, 1, i - 1), properties[i], ValueOf(i), EndOf(i) = Len(buffer))
           NameFit(i) == \E j \in 1 .. i - 1 : /\ properties[j].name = properties[i].name
                                              /\ slices[j].len = slices[i].len
<1>6. ASSUME NEW i \in 1 .. Len(slices) PROVE (OwnFit(i) \/ NameFit(i))'
  <2>1. OwnFit(i) \/ NameFit(i)
    BY <1>6, SliceTypes DEF SlicesFit
  <2>2. CASE OwnFit(i)
    <3>1. PICK known, p, v, last :
            known = SubSeq(slices, 1, i - 1) /\ p = properties[i] /\ v = ValueOf(i)
            /\ last = (EndOf(i) = Len(buffer))
      OBVIOUS
    <3>2. Fits(known, p, v, last)
      BY <2>2, <3>1
    <3>3. Fits(known, p, v, last)'
      BY <1>3, <3>2, FitsStays DEF event
    <3>4. known = SubSeq(slices', 1, i - 1) /\ p = properties'[i] /\ v = ValueOf(i)'
          /\ last = (EndOf(i) = Len(buffer))'
      BY <1>3, <1>4, <3>1 DEF event
    <3>5. OwnFit(i)'
      BY <3>3, <3>4, Zenon
    <3> QED BY <3>5
  <2>3. CASE NameFit(i)
    <3>1. PICK j \in 1 .. i - 1 : properties[j].name = properties[i].name /\ slices[j].len = slices[i].len
      BY <2>3
    <3>2. j \in 1 .. Len(slices)
      BY SliceTypes
    <3>3. properties'[j].name = properties'[i].name /\ slices'[j].len = slices'[i].len
      BY <1>3, <1>4, <3>1, <3>2 DEF event
    <3> QED BY <3>3
  <2> QED BY <2>1, <2>2, <2>3
<1>7. (OwnFit(next) \/ NameFit(next))'
  <2>1. IsProperty(properties[next])
    BY <1>3, SchemaTypes DEF TypeOK
  <2>2. CASE Fits(slices, properties[next], Taken(n), n = Len(Rest))
    <3>1. PICK known, p, v, last :
            known = slices /\ p = properties[next] /\ v = Taken(n) /\ last = (n = Len(Rest))
      OBVIOUS
    <3>2. Fits(known, p, v, last)
      BY <2>2, <3>1
    <3>3. Fits(known, p, v, last)'
      BY <1>3, <3>2, FitsStays DEF event
    <3>4. known = SubSeq(slices', 1, next - 1) /\ p = properties'[next] /\ v = ValueOf(next)'
          /\ last = (EndOf(next) = Len(buffer))'
      BY <1>3, <1>4, <3>1 DEF event
    <3>5. OwnFit(next)'
      BY <3>3, <3>4, Zenon
    <3> QED BY <3>5
  <2>3. CASE \E j \in 1 .. Len(slices) : properties[j].name = properties[next].name /\ slices[j].len = n
    <3>1. PICK j \in 1 .. Len(slices) : properties[j].name = properties[next].name /\ slices[j].len = n
      BY <2>3
    <3>2. j \in 1 .. next - 1
      BY <1>1, SliceTypes
    <3>3. properties'[j].name = properties'[next].name /\ slices'[j].len = slices'[next].len
      BY <1>3, <1>4, <3>1 DEF event
    <3> QED BY <3>2, <3>3
  <2> QED BY <1>2, <2>1, <2>2, <2>3, SizeFits
<1>8. \A i \in 1 .. next : (OwnFit(i) \/ NameFit(i))'
  <2> HIDE DEF OwnFit, NameFit
  <2> QED BY <1>5, <1>6, <1>7
<1> QED BY <1>5, <1>8 DEF SlicesFit

\* Any other step leaves the slices and the event alone.
LEMMA FitsIsKept ==
  ASSUME TypeOK, SlicesTile, SlicesFit, [Next]_vars
  PROVE  SlicesFit'
<1>1. CASE ParseNext
  BY <1>1, ParseFits
<1>2. ASSUME UNCHANGED <<event, slices>> PROVE SlicesFit'
  <2>1. ASSUME NEW i \in DOMAIN slices,
               NEW known, NEW p, NEW v, NEW last,
               known = SubSeq(slices, 1, i - 1), p = properties[i], v = ValueOf(i),
               last = (EndOf(i) = Len(buffer)), Fits(known, p, v, last)
        PROVE  Fits(SubSeq(slices, 1, i - 1), properties[i], ValueOf(i), EndOf(i) = Len(buffer))'
    <3>1. Fits(known, p, v, last)'
      BY <1>2, <2>1, FitsStays DEF event
    <3>2. known = SubSeq(slices', 1, i - 1) /\ p = properties'[i] /\ v = ValueOf(i)'
          /\ last = (EndOf(i) = Len(buffer))'
      BY <1>2, <2>1, Zenon DEF event, ValueOf, EndOf
    <3> QED BY <3>1, <3>2, Zenon
  <2>2. \A i \in DOMAIN slices :
          Fits(SubSeq(slices, 1, i - 1), properties[i], ValueOf(i), EndOf(i) = Len(buffer))
          => Fits(SubSeq(slices, 1, i - 1), properties[i], ValueOf(i), EndOf(i) = Len(buffer))'
    BY <2>1, Zenon
  <2> QED BY <1>2, <2>2, Zenon DEF SlicesFit, event
<1>3. CASE Ask
  BY <1>2, <1>3 DEF Ask, cache
<1>4. CASE ProbeHit
  BY <1>2, <1>4 DEF ProbeHit
<1>5. CASE ProbeMiss
  BY <1>2, <1>5 DEF ProbeMiss, cache
<1>6. CASE IndexHit
  BY <1>2, <1>6 DEF IndexHit, cache
<1>7. CASE ParseFails
  BY <1>2, <1>7 DEF ParseFails, cache
<1>8. CASE Exhausted
  BY <1>2, <1>8 DEF Exhausted, cache
<1>9. CASE UNCHANGED vars
  BY <1>2, <1>9 DEF vars, cache
<1> QED
  BY <1>1, <1>3, <1>4, <1>5, <1>6, <1>7, <1>8, <1>9 DEF Next, Walk, Finished
-----------------------------------------------------------------------------
(* Theorems *)

\* The inductive invariant of the walk holds whatever the schema, the event and the
\* requests (Parser::find_property and parse_next_property).
THEOREM WalkInvariant == Spec => []WalkIInv
<1>1. Init => WalkIInv
  <2>1. Init => slices = <<>>
    BY DEF Init
  <2>2. slices = <<>> => SlicesFit
    BY DEF SlicesFit
  <2> QED BY <2>1, <2>2, TypesAtFirst, InitIInv DEF WalkIInv, IInv
<1>2. WalkIInv /\ [Next]_vars => WalkIInv'
  <2> SUFFICES ASSUME WalkIInv, [Next]_vars PROVE WalkIInv'
    OBVIOUS
  <2>1. TypeOK' /\ WalkFollows' /\ AnswerMatches'
    BY TypesAreKept DEF WalkIInv
  <2>2. IInv
    BY DEF WalkIInv, IInv, TypeOK, WalkTypeOK
  <2>3. SlicesTile'
    BY <2>2, NextIInv DEF IInv
  <2>4. SlicesFit'
    BY FitsIsKept DEF WalkIInv
  <2> QED BY <2>1, <2>3, <2>4 DEF WalkIInv
<1> QED BY <1>1, <1>2, PTL DEF Spec

\* The state of the parser keeps its types whatever is asked of it (Parser, its cache
\* and its cursor).
THEOREM TypeCorrect == Spec => []TypeOK
<1>1. WalkIInv => TypeOK
  BY DEF WalkIInv
<1> QED BY <1>1, WalkInvariant, PTL

\* Whatever the schema announces and the event holds, each located property takes
\* cells that are a value of its type, as long and as many as the values before it
\* say: no size wraps around, reads past a terminator or comes from another
\* property, but for the names that repeat (find_property_size).
THEOREM SlicesAlwaysFit == Spec => []SlicesFit
<1>1. WalkIInv => SlicesFit
  BY DEF WalkIInv
<1> QED BY <1>1, WalkInvariant, PTL

\* A request gets a property of its own name or index, or none only if the schema
\* has none, from the cache as from the walk (find_property, property_bytes_at).
THEOREM AnswersAlwaysMatch == Spec => []AnswerMatches
<1>1. WalkIInv => AnswerMatches
  BY DEF WalkIInv
<1> QED BY <1>1, WalkInvariant, PTL
=============================================================================
