--------------------------- MODULE DataInduction ---------------------------
(***************************************************************************)
(* Induction and recursion on natural numbers, stated of sets instead of   *)
(* predicates; and what follows for sequences that are concatenated.       *)
(***************************************************************************)
EXTENDS Concatenation, WellFoundedInduction, TLAPS

\* A set of numbers has a least one.
LEMMA LeastNumber ==
  ASSUME NEW T \in SUBSET Nat, T # {}
  PROVE  \E x \in T : \A y \in T : x <= y
<1> DEFINE R == OpToRel(<, Nat)
<1>1. IsWellFoundedOn(R, Nat)
  BY NatLessThanWellFounded, Zenon
<1>2. T \subseteq Nat
  OBVIOUS
<1>3. ASSUME NEW y \in T, NEW x \in T, y < x
      PROVE  <<y, x>> \in R
  BY <1>3 DEF OpToRel
<1> HIDE DEF R
<1>4. PICK x \in T : \A y \in T : <<y, x>> \notin R
  BY <1>1, <1>2, WFMin, Zenon
<1>5. \A y \in T : ~ (y < x)
  BY <1>3, <1>4
<1> QED BY <1>2, <1>5

\* A set that holds 0, and with each number below N the next one, holds all up to N.
LEMMA Induction ==
  ASSUME NEW N \in Nat, NEW S, 0 \in S, \A n \in 0 .. N - 1 : n \in S => n + 1 \in S
  PROVE  \A n \in 0 .. N : n \in S
<1> DEFINE T == (0 .. N) \ S
<1>1. ASSUME T # {} PROVE FALSE
  <2>0. T \in SUBSET Nat
    OBVIOUS
  <2>1. PICK x \in T : \A y \in T : x <= y
    <3> HIDE DEF T
    <3> QED BY <1>1, <2>0, LeastNumber
  <2>2. x \in 1 .. N /\ x - 1 \notin T
    BY <2>1
  <2>3. x - 1 \in S /\ x - 1 \in 0 .. N - 1 /\ x = (x - 1) + 1
    BY <2>2
  <2> QED BY <2>1, <2>3
<1> QED BY <1>1

\* A function on 0 .. N whose every value is made from the one before.
Makes(G, N, S) == G \in [S \X (1 .. N) -> S]

Iterates(f, N, S, first, G) ==
  /\ f \in [0 .. N -> S]
  /\ f[0] = first
  /\ \A n \in 1 .. N : f[n] = G[<<f[n - 1], n>>]

LEMMA Recursion ==
  ASSUME NEW N \in Nat, NEW S, NEW first \in S, NEW G, Makes(G, N, S)
  PROVE  \E f : Iterates(f, N, S, first, G)
<1> DEFINE T == {k \in 0 .. N : \E f : Iterates(f, k, S, first, G)}
<1>1. 0 \in T
  <2> DEFINE f == [n \in 0 .. 0 |-> first]
  <2>1. Iterates(f, 0, S, first, G) /\ 0 \in 0 .. N
    BY DEF Iterates
  <2> HIDE DEF f
  <2> QED BY <2>1
<1>2. ASSUME NEW k \in 0 .. N - 1, k \in T PROVE k + 1 \in T
  <2>1. PICK f : Iterates(f, k, S, first, G)
    BY <1>2
  <2> DEFINE g == [n \in 0 .. k + 1 |-> IF n = k + 1 THEN G[<<f[k], k + 1>>] ELSE f[n]]
  <2>2. G[<<f[k], k + 1>>] \in S
    BY <2>1, k \in 0 .. k, k + 1 \in 1 .. N DEF Makes, Iterates
  <2>3. g \in [0 .. k + 1 -> S]
    BY <2>1, <2>2 DEF Iterates
  <2>4. g[0] = first
    BY <2>1 DEF Iterates
  <2>5. ASSUME NEW n \in 1 .. k + 1 PROVE g[n] = G[<<g[n - 1], n>>]
    <3>1. CASE n = k + 1
      <4>1. n - 1 = k /\ k \in 0 .. k + 1 /\ k # k + 1 /\ k + 1 \in 0 .. k + 1
        BY <3>1
      <4>2. g[k] = f[k] /\ g[k + 1] = G[<<f[k], k + 1>>]
        BY <4>1
      <4> QED BY <3>1, <4>1, <4>2
    <3>2. CASE n # k + 1
      <4>1. n \in 1 .. k /\ n - 1 # k + 1 /\ n \in 0 .. k + 1 /\ n - 1 \in 0 .. k + 1
        BY <3>2
      <4> QED BY <2>1, <3>2, <4>1 DEF Iterates
    <3> QED BY <3>1, <3>2
  <2>6. k + 1 \in 0 .. N /\ Iterates(g, k + 1, S, first, G)
    <3> HIDE DEF g
    <3> QED BY <2>3, <2>4, <2>5 DEF Iterates
  <2> HIDE DEF g
  <2> QED BY <2>6
<1>3. N \in T
  <2> HIDE DEF T
  <2> QED BY <1>1, <1>2, Induction
<1> QED BY <1>3
-----------------------------------------------------------------------------
(* Concatenation *)

ListOf(items, S) == items \in Seq(Seq(S))

\* The concatenation of the first n items, for each n.
Concatenates(f, N, S, items) ==
  /\ f = [n \in 0 .. N |-> f[n]]
  /\ f[0] = <<>>
  /\ \A n \in 0 .. N : f[n] \in Seq(S)
  /\ \A n \in 1 .. N : /\ f[n] = f[n - 1] \o items[n]
                       /\ f[n - 1] \in Seq(S) /\ items[n] \in Seq(S)

LEMMA ConcatTypes ==
  ASSUME NEW S, NEW s \in Seq(S), NEW t \in Seq(S)
  PROVE  /\ s \o t \in Seq(S)
         /\ Len(s \o t) = Len(s) + Len(t)
         /\ Len(s) \in Nat /\ Len(t) \in Nat
         /\ \A i \in 1 .. Len(s) : (s \o t)[i] = s[i]
         /\ \A i \in 1 .. Len(t) : (s \o t)[Len(s) + i] = t[i]
OBVIOUS

LEMMA FlatRecursion ==
  ASSUME NEW S, NEW items, ListOf(items, S), NEW N, N = Len(items)
  PROVE  \E f : Concatenates(f, N, S, items) /\ Flat(items) = f[N]
<1> DEFINE Fits(f) == f = [n \in 0 .. Len(items) |-> IF n = 0 THEN <<>> ELSE f[n - 1] \o items[n]]
           flat == CHOOSE f : Fits(f)
           G == [x \in Seq(S) \X (1 .. N) |-> x[1] \o items[x[2]]]
<1>1. N \in Nat
  BY DEF ListOf
<1>2. \A n \in 1 .. N : items[n] \in Seq(S)
  BY DEF ListOf
<1>3. Makes(G, N, Seq(S))
  BY <1>2 DEF Makes
<1>4. \A x \in Seq(S) : \A n \in 1 .. N : G[<<x, n>>] = x \o items[n]
  OBVIOUS
<1> HIDE DEF G
<1>5. PICK g : Iterates(g, N, Seq(S), <<>>, G)
  <2>1. <<>> \in Seq(S)
    OBVIOUS
  <2> QED BY <1>1, <1>3, <2>1, Recursion
<1>6. Fits(g)
  <2>1. ASSUME NEW n \in 1 .. N PROVE g[n] = g[n - 1] \o items[n]
    <3>1. n - 1 \in 0 .. N
      BY <1>1
    <3>2. g[n - 1] \in Seq(S) /\ g[n] = G[<<g[n - 1], n>>]
      BY <1>5, <3>1 DEF Iterates
    <3> QED BY <1>4, <3>2
  <2>2. g[0] = <<>>
    BY <1>5 DEF Iterates
  <2>3. ASSUME NEW n \in 0 .. N PROVE g[n] = IF n = 0 THEN <<>> ELSE g[n - 1] \o items[n]
    <3>1. n # 0 => n \in 1 .. N
      BY <1>1
    <3> QED BY <2>1, <2>2, <3>1
  <2>4. g = [n \in 0 .. N |-> g[n]]
    BY <1>5 DEF Iterates
  <2> QED BY <2>3, <2>4
<1>7. Fits(flat)
  <2> HIDE DEF Fits
  <2> QED BY <1>6
<1>8. Flat(items) = flat[N]
  BY DEF Flat
<1> HIDE DEF flat
<1>9. flat = [n \in 0 .. N |-> flat[n]]
  BY <1>7
<1>10. flat[0] = <<>>
  BY <1>1, <1>7
<1>11. ASSUME NEW n \in 1 .. N PROVE flat[n] = flat[n - 1] \o items[n]
  BY <1>1, <1>7
<1> HIDE DEF Fits
<1>12. \A n \in 0 .. N : flat[n] \in Seq(S)
  <2> DEFINE T == {m \in 0 .. N : flat[m] \in Seq(S)}
  <2>1. 0 \in T
    <3>1. <<>> \in Seq(S) /\ 0 \in 0 .. N
      BY <1>1
    <3> QED BY <1>10, <3>1
  <2>2. ASSUME NEW n \in 0 .. N - 1, n \in T PROVE n + 1 \in T
    <3>1. n + 1 \in 1 .. N /\ n + 1 \in 0 .. N /\ (n + 1) - 1 = n
      BY <1>1
    <3>2. flat[n + 1] = flat[n] \o items[n + 1]
      BY <1>11, <3>1
    <3>3. flat[n] \in Seq(S) /\ items[n + 1] \in Seq(S)
      BY <1>2, <2>2, <3>1
    <3>4. flat[n + 1] \in Seq(S)
      BY <3>2, <3>3, ConcatTypes
    <3> QED BY <3>1, <3>4
  <2>3. \A n \in 0 .. N : n \in T
    <3> HIDE DEF T
    <3> QED BY <1>1, <2>1, <2>2, Induction
  <2> QED BY <2>3
<1>13. \A n \in 1 .. N : n - 1 \in 0 .. N
  BY <1>1
<1> QED BY <1>2, <1>8, <1>9, <1>10, <1>11, <1>12, <1>13 DEF Concatenates

\* What has been laid out stays where it is.
LEMMA FlatStays ==
  ASSUME NEW S, NEW items, ListOf(items, S), NEW N, N = Len(items), N \in Nat,
         NEW f, Concatenates(f, N, S, items), NEW i \in 1 .. N, NEW c \in 1 .. Len(items[i])
  PROVE  Len(f[i - 1]) + c \in 1 .. Len(f[N]) /\ f[N][Len(f[i - 1]) + c] = items[i][c]
<1> DEFINE b == Len(f[i - 1])
           T == {n \in 0 .. N : i <= n => b + c \in 1 .. Len(f[n]) /\ f[n][b + c] = items[i][c]}
<1>1. b \in Nat /\ c \in Nat
  <2>1. f[i - 1] \in Seq(S) /\ items[i] \in Seq(S)
    BY DEF Concatenates
  <2> QED BY <2>1
<1> HIDE DEF b
<1>2. 0 \in T
  OBVIOUS
<1>3. ASSUME NEW n \in 0 .. N - 1, n \in T PROVE n + 1 \in T
  <2>1. PICK m \in 1 .. N : m = n + 1 /\ m - 1 = n /\ m \in 0 .. N
    OBVIOUS
  <2>2. PICK x, y, z : x \in Seq(S) /\ y \in Seq(S) /\ x = f[n] /\ y = items[m] /\ z = f[m] /\ z = x \o y
    BY <2>1 DEF Concatenates
  <2>3. /\ Len(z) = Len(x) + Len(y)
        /\ Len(x) \in Nat /\ Len(y) \in Nat
        /\ \A k \in 1 .. Len(x) : z[k] = x[k]
        /\ \A k \in 1 .. Len(y) : z[Len(x) + k] = y[k]
    <3>1. z = x \o y
      BY <2>2
    <3> QED BY <3>1
  <2>4. CASE i = m
    <3>1. b = Len(x) /\ c \in 1 .. Len(y) /\ y = items[i]
      BY <2>1, <2>2, <2>4 DEF b
    <3>2. b + c \in 1 .. Len(z) /\ z[b + c] = items[i][c]
      BY <2>3, <3>1
    <3> QED BY <2>1, <2>2, <3>2
  <2>5. CASE i <= n
    <3>1. b + c \in 1 .. Len(x) /\ x[b + c] = items[i][c]
      BY <1>3, <2>2, <2>5
    <3>2. b + c \in 1 .. Len(z) /\ z[b + c] = items[i][c]
      BY <1>1, <2>3, <3>1
    <3> QED BY <2>1, <2>2, <3>2
  <2>6. CASE i > m
    BY <2>1, <2>6
  <2> QED BY <2>1, <2>4, <2>5, <2>6
<1>4. N \in T
  <2>1. N \in 0 .. N
    OBVIOUS
  <2> HIDE DEF T
  <2> QED BY <1>2, <1>3, <2>1, Induction
<1> QED BY <1>4 DEF b

\* The items lie one after the other, each as it is, from a start that is 0 for the
\* first and the end of the one before for the others.
Starts(start, items) ==
  /\ start[1] = 0
  /\ start[Len(items) + 1] = Len(Flat(items))
  /\ \A i \in 1 .. Len(items) + 1 : start[i] \in Nat
  /\ \A i \in 1 .. Len(items) :
       /\ start[i + 1] = start[i] + Len(items[i])
       /\ \A c \in 1 .. Len(items[i]) : Flat(items)[start[i] + c] = items[i][c]

LEMMA FlatLayout ==
  ASSUME NEW S, NEW items, ListOf(items, S)
  PROVE  Flat(items) \in Seq(S) /\ \E start : Starts(start, items)
<1>1. PICK N : N = Len(items) /\ N \in Nat
  BY DEF ListOf
<1>2. PICK f : Concatenates(f, N, S, items) /\ Flat(items) = f[N]
  BY <1>1, FlatRecursion
<1>3. \A n \in 0 .. N : f[n] \in Seq(S) /\ Len(f[n]) \in Nat
  BY <1>2 DEF Concatenates
<1> DEFINE start == [i \in 1 .. N + 1 |-> Len(f[i - 1])]
<1>4. ASSUME NEW i \in 1 .. N + 1 PROVE start[i] \in Nat
  <2>1. i - 1 \in 0 .. N
    BY <1>1
  <2> QED BY <1>3, <2>1
<1>5. start[1] = 0 /\ start[N + 1] = Len(Flat(items))
  <2>1. f[0] = <<>>
    BY <1>2 DEF Concatenates
  <2>2. start[1] = Len(f[0]) /\ start[N + 1] = Len(f[N])
    BY <1>1
  <2> QED BY <1>2, <2>1, <2>2
<1>6. ASSUME NEW i \in 1 .. N
      PROVE  /\ start[i + 1] = start[i] + Len(items[i])
             /\ \A c \in 1 .. Len(items[i]) : Flat(items)[start[i] + c] = items[i][c]
  <2>1. start[i + 1] = Len(f[i]) /\ start[i] = Len(f[i - 1])
    BY <1>1
  <2>2. f[i] = f[i - 1] \o items[i] /\ f[i - 1] \in Seq(S) /\ items[i] \in Seq(S)
    BY <1>2 DEF Concatenates
  <2>3. Len(f[i]) = Len(f[i - 1]) + Len(items[i])
    BY <2>2, ConcatTypes
  <2> HIDE DEF start
  <2>4. \A c \in 1 .. Len(items[i]) : Flat(items)[start[i] + c] = items[i][c]
    BY <1>1, <1>2, <2>1, FlatStays
  <2> QED BY <2>1, <2>3, <2>4
<1>7. Flat(items) \in Seq(S)
  BY <1>1, <1>2, <1>3
<1> HIDE DEF start
<1>8. Starts(start, items)
  BY <1>1, <1>4, <1>5, <1>6 DEF Starts
<1> QED BY <1>7, <1>8

\* So each starts where, or before, the whole ends.
LEMMA StartsGrow ==
  ASSUME NEW S, NEW items, ListOf(items, S), NEW start, Starts(start, items),
         NEW i \in 1 .. Len(items) + 1
  PROVE  start[i] <= Len(Flat(items))
<1>1. PICK N : N = Len(items) /\ N \in Nat
  BY DEF ListOf
<1> DEFINE T == {k \in 0 .. N : start[N + 1 - k] <= start[N + 1]}
<1>2. \A j \in 1 .. N + 1 : start[j] \in Nat
  BY <1>1 DEF Starts
<1>3. \A j \in 1 .. N : start[j] <= start[j + 1]
  <2> TAKE j \in 1 .. N
  <2>1. PICK item : item = items[j] /\ item \in Seq(S)
    BY <1>1 DEF ListOf
  <2>2. Len(item) \in Nat
    BY <2>1
  <2>3. start[j + 1] = start[j] + Len(item)
    BY <1>1, <2>1 DEF Starts
  <2>4. start[j] \in Nat
    BY <1>1, <1>2
  <2> QED BY <2>2, <2>3, <2>4
<1>4. 0 \in T
  BY <1>1, <1>2
<1>5. ASSUME NEW k \in 0 .. N - 1, k \in T PROVE k + 1 \in T
  <2>1. PICK j \in 1 .. N : j = N - k /\ j = N + 1 - (k + 1) /\ j + 1 = N + 1 - k
    BY <1>1
  <2>2. start[j] <= start[j + 1] /\ start[j + 1] <= start[N + 1]
    BY <1>3, <1>5, <2>1
  <2>3. start[j] \in Nat /\ start[j + 1] \in Nat /\ start[N + 1] \in Nat
    BY <1>1, <1>2
  <2> QED BY <1>1, <2>1, <2>2, <2>3
<1>6. \A k \in 0 .. N : k \in T
  <2> HIDE DEF T
  <2> QED BY <1>1, <1>4, <1>5, Induction
<1>7. PICK k \in 0 .. N : i = N + 1 - k
  <2>1. N + 1 - i \in 0 .. N /\ i = N + 1 - (N + 1 - i)
    BY <1>1
  <2> QED BY <2>1
<1> QED BY <1>1, <1>6, <1>7 DEF Starts

\* As long as what comes before an item is where it starts.
LEMMA FlatPrefix ==
  ASSUME NEW S, NEW items, ListOf(items, S), NEW start, Starts(start, items),
         NEW part, ListOf(part, S), NEW n \in 0 .. Len(items), Len(part) = n,
         \A i \in 1 .. n : part[i] = items[i]
  PROVE  Len(Flat(part)) = start[n + 1]
<1>1. PICK begin : Starts(begin, part)
  BY FlatLayout
<1>2. PICK N \in Nat : N = Len(items)
  BY DEF ListOf
<1> DEFINE T == {k \in 0 .. n : begin[k + 1] = start[k + 1]}
<1>3. 0 \in T
  BY <1>1, <1>2 DEF Starts
<1>4. ASSUME NEW k \in 0 .. n - 1, k \in T PROVE k + 1 \in T
  <2>1. PICK j \in 1 .. n : j = k + 1
    BY <1>2
  <2>2. j \in 1 .. Len(part) /\ j \in 1 .. Len(items)
    BY <1>2
  <2>3. begin[j + 1] = begin[j] + Len(part[j]) /\ start[j + 1] = start[j] + Len(items[j])
    BY <1>1, <2>2 DEF Starts
  <2>4. begin[j] = start[j] /\ part[j] = items[j]
    BY <1>4, <2>1
  <2> QED BY <2>1, <2>3, <2>4
<1>5. n \in Nat /\ n \in 0 .. n
  BY <1>2
<1>6. n \in T
  <2> HIDE DEF T
  <2> QED BY <1>3, <1>4, <1>5, Induction
<1> QED BY <1>1, <1>6 DEF Starts
-----------------------------------------------------------------------------
(* Parts of a sequence *)

\* What comes first stays first when something is appended.
LEMMA PrefixTypes ==
  ASSUME NEW S, NEW s \in Seq(S), NEW k \in 0 .. Len(s)
  PROVE  /\ SubSeq(s, 1, k) \in Seq(S) /\ Len(SubSeq(s, 1, k)) = k
         /\ \A i \in 1 .. k : SubSeq(s, 1, k)[i] = s[i]
         /\ k = Len(s) => SubSeq(s, 1, k) = s
OBVIOUS

LEMMA PrefixStays ==
  ASSUME NEW S, NEW s \in Seq(S), NEW e \in S, NEW k \in 0 .. Len(s)
  PROVE  SubSeq(Append(s, e), 1, k) = SubSeq(s, 1, k)
<1>1. Append(s, e) \in Seq(S) /\ Len(Append(s, e)) = Len(s) + 1
      /\ \A i \in 1 .. Len(s) : Append(s, e)[i] = s[i]
  OBVIOUS
<1>2. PICK t \in Seq(S) : t = Append(s, e) /\ k \in 0 .. Len(t)
  <2>1. Len(s) \in Nat
    OBVIOUS
  <2>2. k \in 0 .. Len(Append(s, e))
    BY <1>1, <2>1
  <2> QED BY <1>1, <2>2
<1>3. /\ SubSeq(t, 1, k) \in Seq(S) /\ Len(SubSeq(t, 1, k)) = k
      /\ \A i \in 1 .. k : SubSeq(t, 1, k)[i] = t[i]
  BY <1>2, PrefixTypes
<1>4. /\ SubSeq(s, 1, k) \in Seq(S) /\ Len(SubSeq(s, 1, k)) = k
      /\ \A i \in 1 .. k : SubSeq(s, 1, k)[i] = s[i]
  BY PrefixTypes
<1>5. \A i \in 1 .. k : t[i] = s[i]
  BY <1>1, <1>2
<1> QED BY <1>2, <1>3, <1>4, <1>5

LEMMA SuffixTypes ==
  ASSUME NEW S, NEW s \in Seq(S), NEW a \in Nat, NEW m \in Nat, m = Len(s), 1 <= a, a <= m
  PROVE  /\ SubSeq(s, a, m) \in Seq(S)
         /\ Len(SubSeq(s, a, m)) = m - a + 1
         /\ \A c \in 1 .. m - a + 1 : SubSeq(s, a, m)[c] = s[a + c - 1]
OBVIOUS
=============================================================================
