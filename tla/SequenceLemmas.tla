-------------------------- MODULE SequenceLemmas ---------------------------
(***************************************************************************)
(* Facts that several components' proofs rest on.  Sequences: InsertAt and *)
(* RemoveAt element by element, how many positions satisfy a condition     *)
(* that holds up to some place, what a concatenation holds.  Numbers:      *)
(* multiples, the least of a set.  Recursive functions: those that go      *)
(* through memory place by place have the value their equation says.       *)
(***************************************************************************)
EXTENDS Integers, SequencesExt, SequenceTheorems, FiniteSetTheorems, WellFoundedInduction, TLAPS

\* A function whose domain counts from 1 is a sequence.
LEMMA FunctionIsSeq ==
    ASSUME NEW S, NEW n \in Nat, NEW f \in [1..n -> S]
    PROVE  f \in Seq(S) /\ Len(f) = n
<1>1. f \in Seq(S)
  BY SeqDef
<1>2. Len(f) \in Nat /\ DOMAIN f = 1..Len(f)
  BY <1>1, LenProperties
<1>3. QED
  BY <1>1, <1>2

\* Positions that leave no gap are as many as the last of them says.
LEMMA PrefixCount ==
    ASSUME NEW n \in Nat, NEW S \in SUBSET (1..n), \A i \in S : 1..i \subseteq S
    PROVE  Cardinality(S) \in 0..n /\ S = 1..Cardinality(S)
<1> DEFINE k == Cardinality(S)
<1>1. IsFiniteSet(1..n) /\ Cardinality(1..n) = n
  BY FS_Interval
<1>2. IsFiniteSet(S) /\ k <= n
  <2>1. IsFiniteSet(S) /\ Cardinality(S) <= Cardinality(1..n)
    BY <1>1, FS_Subset, Zenon
  <2>2. QED BY <1>1, <2>1
<1>3. k \in Nat
  BY <1>2, FS_CardinalityType
<1>4. ASSUME NEW i \in S PROVE i <= k
  <2>1. IsFiniteSet(1..i) /\ Cardinality(1..i) = i
    BY FS_Interval
  <2>2. QED BY <1>2, <2>1, FS_Subset
<1> HIDE DEF k
<1>5. S \in SUBSET (1..k)
  BY <1>3, <1>4
<1>6. IsFiniteSet(1..k) /\ Cardinality(1..k) = k
  BY <1>3, FS_Interval
<1>7. S = 1..k
  BY <1>5, <1>6, FS_Subset DEF k
<1>8. QED
  BY <1>2, <1>3, <1>7 DEF k

\* The part of a sequence between two of its positions.
LEMMA PartElements ==
    ASSUME NEW S, NEW q \in Seq(S),
           NEW m \in 1..(Len(q) + 1), NEW n \in 0..Len(q), m <= n + 1
    PROVE  /\ SubSeq(q, m, n) \in Seq(S)
           /\ Len(SubSeq(q, m, n)) = n - m + 1
           /\ \A i \in 1..(n - m + 1) : SubSeq(q, m, n)[i] = q[m + i - 1]
<1>1. Len(q) \in Nat
  BY LenProperties
<1>2. m \in Int /\ n \in Int /\ m..n \subseteq 1..Len(q)
  BY <1>1
<1>3. \A i \in m..n : q[i] \in S
  BY <1>2, ElementOfSeq
<1>4. /\ SubSeq(q, m, n) \in Seq(S)
      /\ Len(SubSeq(q, m, n)) = IF m <= n THEN n - m + 1 ELSE 0
      /\ \A i \in 1..(n - m + 1) : SubSeq(q, m, n)[i] = q[m + i - 1]
  BY <1>2, <1>3, SubSeqProperties
<1>5. Len(SubSeq(q, m, n)) = n - m + 1
  BY <1>1, <1>4
<1>6. QED
  BY <1>4, <1>5

\* What stands where once x has been inserted at position k.
LEMMA InsertAtElements ==
    ASSUME NEW S, NEW q \in Seq(S), NEW k \in 1..(Len(q) + 1), NEW x \in S
    PROVE  /\ InsertAt(q, k, x) \in Seq(S)
           /\ Len(InsertAt(q, k, x)) = Len(q) + 1
           /\ \A i \in 1..(Len(q) + 1) :
                InsertAt(q, k, x)[i] =
                    IF i < k THEN q[i] ELSE IF i = k THEN x ELSE q[i - 1]
<1> DEFINE a == SubSeq(q, 1, k - 1)
           b == SubSeq(q, k, Len(q))
           c == a \o <<x>>
<1>1. Len(q) \in Nat
  BY LenProperties
<1>2. a \in Seq(S) /\ Len(a) = k - 1 /\ \A i \in 1..(k - 1) : a[i] = q[i]
  <2>1. 1 \in 1..(Len(q) + 1) /\ k - 1 \in 0..Len(q) /\ 1 <= (k - 1) + 1
    BY <1>1
  <2>2. /\ a \in Seq(S) /\ Len(a) = (k - 1) - 1 + 1
        /\ \A i \in 1..((k - 1) - 1 + 1) : a[i] = q[1 + i - 1]
    BY <2>1, PartElements
  <2> HIDE DEF a
  <2>3. QED BY <1>1, <2>2
<1>3. /\ b \in Seq(S) /\ Len(b) = Len(q) - k + 1
      /\ \A i \in 1..(Len(q) - k + 1) : b[i] = q[k + i - 1]
  <2>1. Len(q) \in 0..Len(q) /\ k <= Len(q) + 1
    BY <1>1
  <2>2. QED BY <2>1, PartElements
<1> HIDE DEF a, b
<1>4. /\ c \in Seq(S) /\ Len(c) = k
      /\ \A i \in 1..k : c[i] = IF i < k THEN q[i] ELSE x
  <2>1. <<x>> \in Seq(S) /\ Len(<<x>>) = 1 /\ <<x>>[1] = x
    OBVIOUS
  <2>2. /\ c \in Seq(S) /\ Len(c) = Len(a) + Len(<<x>>)
        /\ \A i \in 1..(Len(a) + Len(<<x>>)) :
              c[i] = IF i <= Len(a) THEN a[i] ELSE <<x>>[i - Len(a)]
    BY <1>2, <2>1, ConcatProperties
  <2> HIDE DEF c
  <2>3. QED BY <1>1, <1>2, <2>1, <2>2
<1> HIDE DEF c
<1>5. InsertAt(q, k, x) = c \o b
  BY DEF InsertAt, a, b, c
<1>6. /\ c \o b \in Seq(S) /\ Len(c \o b) = Len(c) + Len(b)
      /\ \A i \in 1..(Len(c) + Len(b)) :
            (c \o b)[i] = IF i <= Len(c) THEN c[i] ELSE b[i - Len(c)]
  BY <1>3, <1>4, ConcatProperties
<1>7. Len(c) + Len(b) = Len(q) + 1
  BY <1>1, <1>3, <1>4
<1> DEFINE d == c \o b
<1> HIDE DEF d
<1>8. /\ d \in Seq(S) /\ Len(d) = Len(q) + 1
      /\ \A i \in 1..(Len(q) + 1) : d[i] = IF i <= k THEN c[i] ELSE b[i - k]
  BY <1>4, <1>6, <1>7 DEF d
<1>9. ASSUME NEW i \in 1..(Len(q) + 1)
      PROVE  d[i] = IF i < k THEN q[i] ELSE IF i = k THEN x ELSE q[i - 1]
  <2>1. CASE i <= k
    BY <1>1, <1>4, <1>8, <2>1
  <2>2. CASE i > k
    <3>1. i - k \in 1..(Len(q) - k + 1) /\ k + (i - k) - 1 = i - 1
      BY <1>1, <2>2
    <3>2. b[i - k] = q[i - 1] BY <1>3, <3>1
    <3>3. QED BY <1>1, <1>8, <2>2, <3>2
  <2>3. QED BY <1>1, <2>1, <2>2
<1>10. QED
  BY <1>5, <1>8, <1>9 DEF d

\* What stands where once the element at position k has been removed.
LEMMA RemoveAtElements ==
    ASSUME NEW S, NEW q \in Seq(S), NEW k \in 1..Len(q)
    PROVE  /\ RemoveAt(q, k) \in Seq(S)
           /\ Len(RemoveAt(q, k)) = Len(q) - 1
           /\ \A i \in 1..(Len(q) - 1) :
                RemoveAt(q, k)[i] = IF i < k THEN q[i] ELSE q[i + 1]
<1> DEFINE a == SubSeq(q, 1, k - 1)
           b == SubSeq(q, k + 1, Len(q))
<1>1. Len(q) \in Nat
  BY LenProperties
<1>2. a \in Seq(S) /\ Len(a) = k - 1 /\ \A i \in 1..(k - 1) : a[i] = q[i]
  <2>1. 1 \in 1..(Len(q) + 1) /\ k - 1 \in 0..Len(q) /\ 1 <= (k - 1) + 1
    BY <1>1
  <2>2. /\ a \in Seq(S) /\ Len(a) = (k - 1) - 1 + 1
        /\ \A i \in 1..((k - 1) - 1 + 1) : a[i] = q[1 + i - 1]
    BY <2>1, PartElements
  <2> HIDE DEF a
  <2>3. QED BY <1>1, <2>2
<1>3. /\ b \in Seq(S) /\ Len(b) = Len(q) - k
      /\ \A i \in 1..(Len(q) - k) : b[i] = q[k + i]
  <2>1. k + 1 \in 1..(Len(q) + 1) /\ Len(q) \in 0..Len(q) /\ k + 1 <= Len(q) + 1
    BY <1>1
  <2>2. /\ b \in Seq(S) /\ Len(b) = Len(q) - (k + 1) + 1
        /\ \A i \in 1..(Len(q) - (k + 1) + 1) : b[i] = q[(k + 1) + i - 1]
    BY <2>1, PartElements
  <2> HIDE DEF b
  <2>3. QED BY <1>1, <2>2
<1> HIDE DEF a, b
<1> DEFINE d == a \o b
<1>4. RemoveAt(q, k) = d
  BY DEF RemoveAt, a, b
<1>5. /\ d \in Seq(S) /\ Len(d) = Len(a) + Len(b)
      /\ \A i \in 1..(Len(a) + Len(b)) :
            d[i] = IF i <= Len(a) THEN a[i] ELSE b[i - Len(a)]
  BY <1>2, <1>3, ConcatProperties
<1> HIDE DEF d
<1>6. Len(a) + Len(b) = Len(q) - 1
  BY <1>1, <1>2, <1>3
<1>7. ASSUME NEW i \in 1..(Len(q) - 1)
      PROVE  d[i] = IF i < k THEN q[i] ELSE q[i + 1]
  <2>1. CASE i < k
    BY <1>1, <1>2, <1>5, <1>6, <2>1
  <2>2. CASE i >= k
    <3>1. i - Len(a) \in 1..(Len(q) - k) /\ k + (i - Len(a)) = i + 1
      BY <1>1, <1>2, <2>2
    <3>2. b[i - Len(a)] = q[i + 1] BY <1>3, <3>1
    <3>3. QED BY <1>1, <1>2, <1>5, <1>6, <2>2, <3>2
  <2>3. QED BY <1>1, <2>1, <2>2
<1>8. QED
  BY <1>4, <1>5, <1>6, <1>7

\* Pushing an element, and popping the last one.
LEMMA PushElements ==
    ASSUME NEW S, NEW q \in Seq(S), NEW x \in S
    PROVE  /\ SubSeq(q, 1, Len(q)) \o <<x>> = Append(q, x)
           /\ Append(q, x) \in Seq(S) /\ Len(Append(q, x)) = Len(q) + 1
           /\ \A i \in 1..(Len(q) + 1) : Append(q, x)[i] = IF i <= Len(q) THEN q[i] ELSE x
<1>1. SubSeq(q, 1, Len(q)) = q
  BY SubSeqFull
<1>2. Append(q, x) = q \o <<x>>
  BY AppendIsConcat
<1>3. Len(q) \in Nat
  BY LenProperties
<1> DEFINE a == Append(q, x)
<1>4. /\ a \in Seq(S) /\ Len(a) = Len(q) + 1
      /\ \A i \in 1..Len(q) : a[i] = q[i]
      /\ a[Len(q) + 1] = x
  BY AppendProperties
<1> HIDE DEF a
<1>5. \A i \in 1..(Len(q) + 1) : a[i] = IF i <= Len(q) THEN q[i] ELSE x
  BY <1>3, <1>4
<1>6. QED
  BY <1>1, <1>2, <1>4, <1>5 DEF a

LEMMA PopElements ==
    ASSUME NEW S, NEW q \in Seq(S), Len(q) >= 1
    PROVE  /\ SubSeq(q, 1, Len(q) - 1) \in Seq(S)
           /\ Len(SubSeq(q, 1, Len(q) - 1)) = Len(q) - 1
           /\ \A i \in 1..(Len(q) - 1) : SubSeq(q, 1, Len(q) - 1)[i] = q[i]
<1> DEFINE n == Len(q) - 1
           r == SubSeq(q, 1, n)
<1>1. Len(q) \in Nat
  BY LenProperties
<1>2. 1 \in 1..(Len(q) + 1) /\ n \in 0..Len(q) /\ 1 <= n + 1
  BY <1>1
<1> HIDE DEF n
<1>3. /\ r \in Seq(S) /\ Len(r) = n - 1 + 1
      /\ \A i \in 1..(n - 1 + 1) : r[i] = q[1 + i - 1]
  BY <1>2, PartElements
<1> HIDE DEF r
<1>4. r \in Seq(S) /\ Len(r) = n /\ \A i \in 1..n : r[i] = q[i]
  BY <1>2, <1>3
<1>5. QED
  BY <1>4 DEF n, r

\* The last element of a sequence and what is before it.
LEMMA LastAndFront ==
    ASSUME NEW S, NEW q \in Seq(S), NEW x \in S
    PROVE  /\ q \o <<x>> \in Seq(S) /\ Len(q \o <<x>>) = Len(q) + 1 /\ q \o <<x>> # <<>>
           /\ Last(q \o <<x>>) = x /\ Front(q \o <<x>>) = q
<1> DEFINE a == q \o <<x>>
<1>1. Append(q, x) = a /\ Len(q) \in Nat
  BY AppendIsConcat, LenProperties
<1> HIDE DEF a
<1>2. /\ a \in Seq(S) /\ Len(a) = Len(q) + 1
      /\ \A i \in 1..(Len(q) + 1) : a[i] = IF i <= Len(q) THEN q[i] ELSE x
  BY <1>1, PushElements
<1>3. a # <<>>
  BY <1>1, <1>2, EmptySeq
<1>4. Last(a) = x
  BY <1>1, <1>2 DEF Last
<1>5. Front(a) = q
  <2> DEFINE r == SubSeq(a, 1, Len(a) - 1)
  <2>1. Front(a) = r
    BY DEF Front
  <2>2. Len(a) >= 1 /\ Len(a) - 1 = Len(q)
    BY <1>1, <1>2
  <2>3. r \in Seq(S) /\ Len(r) = Len(a) - 1 /\ \A i \in 1..(Len(a) - 1) : r[i] = a[i]
    BY <1>2, <2>2, PopElements
  <2> HIDE DEF r
  <2>4. Len(r) = Len(q) /\ \A i \in 1..Len(q) : r[i] = q[i]
    BY <1>1, <1>2, <2>2, <2>3
  <2>5. r = q
    BY <2>3, <2>4, SeqEqual
  <2>6. QED BY <2>1, <2>5
<1>6. QED
  BY <1>2, <1>3, <1>4, <1>5 DEF a

\* A sequence that goes on one element longer than another.
LEMMA OneLonger ==
    ASSUME NEW S, NEW p \in Seq(S), NEW q \in Seq(S), Len(q) = Len(p) + 1,
           \A i \in 1..Len(p) : q[i] = p[i]
    PROVE  q = p \o <<q[Len(q)]>>
<1>1. Len(p) \in Nat /\ Len(q) \in 1..Len(q)
  BY LenProperties
<1> DEFINE x == q[Len(q)]
           a == Append(p, x)
<1>2. x \in S
  BY <1>1, ElementOfSeq
<1> HIDE DEF x
<1>3. /\ a \in Seq(S) /\ Len(a) = Len(p) + 1
      /\ \A i \in 1..(Len(p) + 1) : a[i] = IF i <= Len(p) THEN p[i] ELSE x
  BY <1>2, PushElements
<1>4. a = p \o <<x>>
  BY <1>2, AppendIsConcat
<1> HIDE DEF a
<1>5. \A i \in 1..Len(q) : q[i] = a[i]
  BY <1>1, <1>3 DEF x
<1>6. q = a
  BY <1>3, <1>5, SeqEqual
<1>7. QED
  BY <1>4, <1>6 DEF x

LEMMA OneAfterOne ==
    ASSUME NEW S, NEW a \in S, NEW b \in S
    PROVE  <<a>> \o <<b>> = <<a, b>>
<1> DEFINE p == <<a>>
           q == <<a, b>>
<1>1. /\ p \in Seq(S) /\ q \in Seq(S) /\ Len(p) = 1 /\ Len(q) = 2
      /\ \A i \in 1..1 : q[i] = p[i]
      /\ q[2] = b
  OBVIOUS
<1> HIDE DEF p, q
<1>2. q = p \o <<q[Len(q)]>>
  <2>1. Len(q) = Len(p) + 1 /\ \A i \in 1..Len(p) : q[i] = p[i]
    BY <1>1
  <2>2. QED BY <1>1, <2>1, OneLonger
<1>3. QED
  BY <1>1, <1>2 DEF p, q

LEMMA OneElement ==
    ASSUME NEW S, NEW q \in Seq(S), Len(q) = 1
    PROVE  q = <<q[1]>> /\ q[1] \in S
<1>1. q[1] \in S
  BY ElementOfSeq
<1> DEFINE x == q[1]
<1> HIDE DEF x
<1>2. x \in S
  BY <1>1 DEF x
<1>3. <<x>> \in Seq(S) /\ Len(<<x>>) = 1 /\ <<x>>[1] = x
  BY <1>2
<1>4. \A i \in 1..Len(q) : q[i] = <<x>>[i]
  BY <1>3 DEF x
<1>5. q = <<x>>
  BY <1>3, <1>4, SeqEqual
<1>6. QED
  BY <1>1, <1>5 DEF x
\* Among numbers there is a least one: what takes the place of induction here.
LEMMA LeastNumber ==
    ASSUME NEW T \in SUBSET Nat, T # {}
    PROVE  \E x \in T : \A y \in T : x <= y
<1> DEFINE R == OpToRel(<, Nat)
<1>1. IsWellFoundedOn(R, Nat)
  BY NatLessThanWellFounded
<1>2. \A x, y \in Nat : x < y => <<x, y>> \in R
  BY DEF OpToRel
<1> HIDE DEF R
<1>3. PICK x \in T : \A y \in T : ~ (<<y, x>> \in R)
  BY <1>1, WFMin
<1>4. \A y \in T : ~ (y < x)
  BY <1>2, <1>3
<1>5. QED
  BY <1>4

\* Sequences joined end to end, none of them empty, are a sequence that is not
\* empty.
LEMMA FlattenSeqProperties ==
    ASSUME NEW S, NEW q \in Seq(Seq(S)), q # <<>>,
           \A i \in 1..Len(q) : q[i] # <<>>
    PROVE  FlattenSeq(q) \in Seq(S) /\ FlattenSeq(q) # <<>>
<1> DEFINE Joins(g, n) == g = [i \in 1..n |-> IF i = 1 THEN q[i] ELSE g[i - 1] \o q[i]]
           N == Len(q)
<1>1. N \in Nat \ {0}
  <2>1. N \in Nat /\ (N = 0 => q = <<>>)
    BY LenProperties, EmptySeq
  <2>2. QED BY <2>1
<1>2. FlattenSeq(q) = (CHOOSE g : Joins(g, N))[N]
  <2>1. FlattenSeq(q) = IF Len(q) = 0 THEN q ELSE (CHOOSE g : g = [i \in 1..Len(q) |-> IF i = 1 THEN q[i] ELSE g[i-1] \o q[i]])[Len(q)]
    BY DEF FlattenSeq
  <2>2. QED BY <1>1, <2>1
<1>3. \A i \in 1..N : q[i] \in Seq(S)
  BY ElementOfSeq
<1> HIDE DEF Joins, N
<1>4. \A n \in Nat : \E g : Joins(g, n)
  <2> DEFINE T == {n \in Nat : ~ \E g : Joins(g, n)}
  <2>1. SUFFICES ASSUME T # {} PROVE FALSE
    OBVIOUS
  <2>2. PICK n \in T : \A m \in T : n <= m
    BY <2>1, LeastNumber
  <2>3. CASE n = 0
    <3>1. Joins([i \in 1..0 |-> q[i]], 0)
      BY DEF Joins
    <3>2. QED BY <2>3, <3>1
  <2>4. CASE n # 0
    <3>1. n \in Nat /\ n - 1 \in Nat /\ ~ (n <= n - 1)
      BY <2>4
    <3>2. n - 1 \notin T
      BY <2>2, <3>1
    <3>3. PICK g : Joins(g, n - 1)
      BY <3>1, <3>2
    <3> DEFINE h == [i \in 1..n |-> IF i = 1 THEN q[i] ELSE g[i - 1] \o q[i]]
    <3>4. \A i \in 1..n : i # 1 => i - 1 \in 1..(n - 1)
      BY <3>1
    <3>5. \A i \in 1..(n - 1) : i \in 1..n /\ h[i] = g[i]
      <4>1. \A i \in 1..(n - 1) : g[i] = IF i = 1 THEN q[i] ELSE g[i - 1] \o q[i]
        BY <3>3, Zenon DEF Joins
      <4>2. \A i \in 1..n : h[i] = IF i = 1 THEN q[i] ELSE g[i - 1] \o q[i]
        BY Zenon
      <4>3. \A i \in 1..(n - 1) : i \in 1..n
        BY <3>1
      <4>4. QED BY <4>1, <4>2, <4>3, Zenon
    <3>6. \A i \in 1..n : i # 1 => h[i - 1] = g[i - 1]
      BY <3>4, <3>5
    <3>7. h = [i \in 1..n |-> IF i = 1 THEN q[i] ELSE h[i - 1] \o q[i]]
      BY <3>6, Zenon
    <3> HIDE DEF h
    <3>8. Joins(h, n)
      BY <3>7 DEF Joins
    <3>9. QED BY <3>8
  <2>5. QED BY <2>3, <2>4
<1>5. PICK f : Joins(f, N) /\ FlattenSeq(q) = f[N]
  BY <1>1, <1>2, <1>4
<1>6. /\ 1 <= N => f[1] = q[1]
      /\ \A i \in 1..N : i # 1 => f[i] = f[i - 1] \o q[i]
  <2>1. \A i \in 1..N : f[i] = IF i = 1 THEN q[i] ELSE f[i - 1] \o q[i]
    BY <1>5, Zenon DEF Joins
  <2>2. 1 <= N => 1 \in 1..N
    BY <1>1
  <2>3. QED BY <2>1, <2>2, Zenon
<1>7. \A n \in 1..N : f[n] \in Seq(S) /\ f[n] # <<>>
  <2> DEFINE T == {n \in 1..N : ~ (f[n] \in Seq(S) /\ f[n] # <<>>)}
  <2>1. SUFFICES ASSUME T # {} PROVE FALSE
    OBVIOUS
  <2>2. PICK n \in T : \A m \in T : n <= m
    <3>1. T \in SUBSET Nat
      BY <1>1
    <3>2. QED BY <2>1, <3>1, LeastNumber
  <2>3. n # 1
    <3>1. 1 <= N /\ 1 \in 1..N
      BY <1>1
    <3>2. f[1] \in Seq(S) /\ f[1] # <<>>
      BY <1>3, <1>6, <3>1, Zenon DEF N
    <3>3. QED BY <2>2, <3>2
  <2>4. n \in 1..N /\ n - 1 \in 1..N /\ ~ (n <= n - 1)
    BY <1>1, <2>3
  <2>5. f[n - 1] \in Seq(S) /\ f[n - 1] # <<>>
    BY <2>2, <2>4
  <2>6. q[n] \in Seq(S)
    BY <1>3, <2>4
  <2>7. /\ f[n - 1] \o q[n] \in Seq(S)
        /\ Len(f[n - 1] \o q[n]) = Len(f[n - 1]) + Len(q[n])
    BY <2>5, <2>6, ConcatProperties
  <2>8. Len(f[n - 1]) \in Nat \ {0} /\ Len(q[n]) \in Nat
    BY <2>5, <2>6, LenProperties, EmptySeq
  <2> DEFINE k == Len(f[n - 1] \o q[n])
             a == Len(f[n - 1])
             b == Len(q[n])
  <2>9. k # 0
    <3>1. k = a + b /\ a \in Nat \ {0} /\ b \in Nat
      BY <2>7, <2>8
    <3> HIDE DEF k, a, b
    <3>2. QED BY <3>1
  <2>10. f[n - 1] \o q[n] # <<>>
    BY <2>9, EmptySeq
  <2>11. QED BY <1>6, <2>3, <2>4, <2>7, <2>10
<1>8. QED
  BY <1>1, <1>5, <1>7

\* Taking the first element, and pushing one.
LEMMA HeadTail ==
    ASSUME NEW S, NEW q \in Seq(S), q # <<>>, IsInjective(q)
    PROVE  /\ Head(q) \in S /\ Tail(q) \in Seq(S) /\ IsInjective(Tail(q))
           /\ Head(q) \in Range(q) /\ Head(q) \notin Range(Tail(q))
           /\ Range(q) = {Head(q)} \cup Range(Tail(q))
<1>1. Len(q) \in Nat /\ Len(q) >= 1 /\ DOMAIN q = 1..Len(q)
  BY EmptySeq, LenProperties
<1>2. /\ Head(q) = q[1] /\ Tail(q) \in Seq(S) /\ Len(Tail(q)) = Len(q) - 1
      /\ \A i \in 1..(Len(q) - 1) : Tail(q)[i] = q[i + 1]
  BY <1>1, HeadTailProperties
<1>3. DOMAIN Tail(q) = 1..(Len(q) - 1)
  BY <1>2, LenProperties
<1>4. IsInjective(Tail(q))
  <2> SUFFICES ASSUME NEW i \in 1..(Len(q) - 1), NEW j \in 1..(Len(q) - 1), Tail(q)[i] = Tail(q)[j]
               PROVE  i = j
    BY <1>3 DEF IsInjective
  <2>1. i + 1 \in 1..Len(q) /\ j + 1 \in 1..Len(q) /\ q[i + 1] = q[j + 1]
    BY <1>1, <1>2
  <2>2. i + 1 = j + 1
    BY <1>1, <2>1 DEF IsInjective
  <2>3. QED BY <2>2
<1>5. Head(q) \notin Range(Tail(q))
  <2> SUFFICES ASSUME NEW i \in 1..(Len(q) - 1), Tail(q)[i] = q[1] PROVE FALSE
    BY <1>2, <1>3 DEF Range
  <2>1. i + 1 \in 1..Len(q) /\ 1 \in 1..Len(q) /\ q[i + 1] = q[1]
    BY <1>1, <1>2
  <2>2. i + 1 = 1
    BY <1>1, <2>1 DEF IsInjective
  <2>3. QED BY <2>2
<1>6. Range(q) = {Head(q)} \cup Range(Tail(q))
  <2>1. \A i \in 1..Len(q) : i = 1 \/ (i - 1 \in 1..(Len(q) - 1) /\ Tail(q)[i - 1] = q[i])
    BY <1>1, <1>2
  <2>2. \A i \in 1..(Len(q) - 1) : i + 1 \in 1..Len(q) /\ Tail(q)[i] = q[i + 1]
    BY <1>1, <1>2
  <2>3. 1 \in 1..Len(q)
    BY <1>1
  <2>4. \A y : y \in Range(q) <=> \E i \in 1..Len(q) : q[i] = y
    BY <1>1 DEF Range
  <2>5. \A y : y \in Range(Tail(q)) <=> \E i \in 1..(Len(q) - 1) : Tail(q)[i] = y
    BY <1>3 DEF Range
  <2>6. \A y \in Range(q) : y = Head(q) \/ y \in Range(Tail(q))
    BY <1>2, <2>1, <2>4, <2>5
  <2>7. \A y \in Range(Tail(q)) : y \in Range(q)
    BY <2>2, <2>4, <2>5
  <2>8. Head(q) \in Range(q)
    BY <1>2, <2>3, <2>4
  <2>9. QED BY <2>6, <2>7, <2>8
<1>7. QED
  BY <1>1, <1>2, <1>4, <1>5, <1>6, ElementOfSeq

LEMMA PushFront ==
    ASSUME NEW S, NEW q \in Seq(S), NEW x \in S
    PROVE  /\ <<x>> \o q \in Seq(S) /\ Range(<<x>> \o q) = {x} \cup Range(q)
           /\ IsInjective(q) /\ x \notin Range(q) => IsInjective(<<x>> \o q)
<1> DEFINE r == <<x>> \o q
<1>1. Len(q) \in Nat /\ DOMAIN q = 1..Len(q)
  BY LenProperties
<1>2. <<x>> \in Seq(S) /\ Len(<<x>>) = 1 /\ <<x>>[1] = x
  OBVIOUS
<1>3. /\ r \in Seq(S) /\ Len(r) = Len(q) + 1
      /\ \A i \in 1..(Len(q) + 1) : r[i] = IF i <= 1 THEN <<x>>[i] ELSE q[i - 1]
  BY <1>1, <1>2, ConcatProperties
<1> HIDE DEF r
<1>4. r[1] = x /\ \A i \in 1..Len(q) : r[i + 1] = q[i] /\ i + 1 \in 1..(Len(q) + 1)
  <2>1. r[1] = x
    BY <1>1, <1>2, <1>3
  <2>2. ASSUME NEW i \in 1..Len(q) PROVE r[i + 1] = q[i] /\ i + 1 \in 1..(Len(q) + 1)
    <3>1. i + 1 \in 1..(Len(q) + 1) /\ ~(i + 1 <= 1) /\ i + 1 - 1 = i
      BY <1>1
    <3>2. QED BY <1>3, <3>1
  <2>3. QED BY <2>1, <2>2
<1>5. /\ DOMAIN r = 1..(Len(q) + 1) /\ 1 \in 1..(Len(q) + 1)
      /\ \A i \in 1..(Len(q) + 1) : i = 1 \/ (i - 1 \in 1..Len(q) /\ r[i] = q[i - 1])
  <2>1. DOMAIN r = 1..(Len(q) + 1) /\ 1 \in 1..(Len(q) + 1)
    BY <1>1, <1>3, LenProperties
  <2>2. ASSUME NEW i \in 1..(Len(q) + 1), i # 1 PROVE i - 1 \in 1..Len(q) /\ r[i] = q[i - 1]
    <3>1. i - 1 \in 1..Len(q) /\ ~(i <= 1)
      BY <1>1, <2>2
    <3>2. QED BY <1>3, <3>1
  <2>3. QED BY <2>1, <2>2
<1>6. Range(r) = {x} \cup Range(q)
  <2>1. \A y : y \in Range(r) <=> \E i \in 1..(Len(q) + 1) : r[i] = y
    BY <1>5 DEF Range
  <2>2. \A y : y \in Range(q) <=> \E i \in 1..Len(q) : q[i] = y
    BY <1>1 DEF Range
  <2>3. \A y \in Range(r) : y = x \/ y \in Range(q)
    BY <1>4, <1>5, <2>1, <2>2
  <2>4. \A y \in Range(q) : y \in Range(r)
    BY <1>4, <2>1, <2>2
  <2>5. x \in Range(r)
    BY <1>4, <1>5, <2>1
  <2>6. QED BY <2>3, <2>4, <2>5
<1>7. ASSUME IsInjective(q), x \notin Range(q) PROVE IsInjective(r)
  <2>1. \A i \in 1..Len(q) : q[i] # x
    BY <1>1, <1>7 DEF Range
  <2>2. ASSUME NEW i \in 1..(Len(q) + 1), NEW j \in 1..(Len(q) + 1), r[i] = r[j]
        PROVE  i = j
    <3>1. CASE i = 1
      BY <1>4, <1>5, <2>1, <2>2, <3>1
    <3>2. CASE j = 1
      BY <1>4, <1>5, <2>1, <2>2, <3>2
    <3>3. CASE i # 1 /\ j # 1
      <4>1. i - 1 \in 1..Len(q) /\ j - 1 \in 1..Len(q) /\ q[i - 1] = q[j - 1]
        BY <1>5, <2>2, <3>3
      <4>2. i - 1 = j - 1
        BY <1>1, <1>7, <4>1 DEF IsInjective
      <4>3. QED BY <4>2
    <3>4. QED BY <3>1, <3>2, <3>3
  <2>3. QED BY <1>5, <2>2 DEF IsInjective
<1>8. QED
  BY <1>3, <1>6, <1>7 DEF r

\* Taking one element out of a list.
LEMMA TakeOut ==
    ASSUME NEW S, NEW q \in Seq(S), IsInjective(q), NEW k \in 1..Len(q)
    PROVE  /\ RemoveAt(q, k) \in Seq(S) /\ IsInjective(RemoveAt(q, k))
           /\ Range(RemoveAt(q, k)) = Range(q) \ {q[k]}
<1> DEFINE r == RemoveAt(q, k)
<1>1. Len(q) \in Nat /\ DOMAIN q = 1..Len(q)
  BY LenProperties
<1>2. /\ r \in Seq(S) /\ Len(r) = Len(q) - 1
      /\ \A i \in 1..(Len(q) - 1) : r[i] = IF i < k THEN q[i] ELSE q[i + 1]
  BY RemoveAtElements
<1> HIDE DEF r
<1>3. DOMAIN r = 1..(Len(q) - 1)
  BY <1>2, LenProperties
<1> DEFINE from(i) == IF i < k THEN i ELSE i + 1
<1>4. \A i \in 1..(Len(q) - 1) : from(i) \in 1..Len(q) /\ from(i) # k /\ r[i] = q[from(i)]
  BY <1>1, <1>2
<1>5. \A i, j \in 1..(Len(q) - 1) : from(i) = from(j) => i = j
  BY <1>1
<1>6. \A j \in 1..Len(q) : j # k => \E i \in 1..(Len(q) - 1) : from(i) = j
  <2> SUFFICES ASSUME NEW j \in 1..Len(q), j # k PROVE \E i \in 1..(Len(q) - 1) : from(i) = j
    OBVIOUS
  <2>1. CASE j < k
    BY <1>1, <2>1
  <2>2. CASE j > k
    <3>1. j - 1 \in 1..(Len(q) - 1) /\ from(j - 1) = j
      BY <1>1, <2>2
    <3>2. QED BY <3>1
  <2>3. QED BY <1>1, <2>1, <2>2
<1> HIDE DEF from
<1>7. IsInjective(r)
  BY <1>1, <1>3, <1>4, <1>5 DEF IsInjective
<1>8. Range(r) = Range(q) \ {q[k]}
  <2>1. \A y : y \in Range(r) <=> \E i \in 1..(Len(q) - 1) : r[i] = y
    BY <1>3 DEF Range
  <2>2. \A y : y \in Range(q) <=> \E i \in 1..Len(q) : q[i] = y
    BY <1>1 DEF Range
  <2>3. ASSUME NEW y \in Range(r) PROVE y \in Range(q) /\ y # q[k]
    BY <1>1, <1>4, <2>1, <2>2, <2>3 DEF IsInjective
  <2>4. ASSUME NEW y \in Range(q), y # q[k] PROVE y \in Range(r)
    <3>1. PICK j \in 1..Len(q) : q[j] = y
      BY <2>2
    <3>2. PICK i \in 1..(Len(q) - 1) : from(i) = j
      BY <1>6, <2>4, <3>1
    <3>3. r[i] = y
      BY <1>4, <3>1, <3>2
    <3>4. QED BY <2>1, <3>3
  <2>5. QED BY <2>3, <2>4
<1>9. QED
  BY <1>2, <1>7, <1>8 DEF r

-----------------------------------------------------------------------------
(* Numbers                                                                 *)

\* A factor that is not 0 keeps the order.
LEMMA Multiply ==
    ASSUME NEW n \in Nat \ {0}, NEW x \in Int, NEW y \in Int
    PROVE  /\ x <= y <=> x * n <= y * n
           /\ x < y <=> x * n < y * n
           /\ x * n \in Int /\ (x + y) * n = x * n + y * n /\ (x + 1) * n = x * n + n
           /\ (x - y) * n = x * n - y * n
OBVIOUS

\* What division tells of multiples.
LEMMA Divide ==
    ASSUME NEW n \in Nat \ {0}, NEW a \in Int, NEW q \in Int
    PROVE  /\ a \div n \in Int
           /\ q <= a \div n <=> q * n <= a
           /\ q > a \div n <=> q * n > a
<1>1. a \div n \in Int /\ a % n \in 0..(n - 1) /\ a = n * (a \div n) + (a % n)
  OBVIOUS
<1> DEFINE d == a \div n
           r == a % n
<1>2. d \in Int /\ r \in 0..(n - 1) /\ a = d * n + r
  BY <1>1
<1> HIDE DEF d, r
<1>3. q <= d => q * n <= d * n
  BY <1>2, Multiply
<1>4. q > d => q * n >= d * n + n
  <2>1. q > d => q >= d + 1
    BY <1>2
  <2>2. d + 1 \in Int /\ (d + 1) * n = d * n + n
    BY <1>2, Multiply
  <2>3. q >= d + 1 => q * n >= (d + 1) * n
    BY <2>2, Multiply
  <2>4. QED BY <2>1, <2>2, <2>3
<1>5. d * n \in Int /\ q * n \in Int
  BY <1>2, Multiply
<1>6. q <= d <=> q * n <= a
  BY <1>2, <1>3, <1>4, <1>5
<1>7. QED BY <1>2, <1>5, <1>6 DEF d

\* Induction over a range, with the places where the claim holds as a set.
LEMMA Upward ==
    ASSUME NEW m \in Int, NEW n \in Int, NEW P, m \in P,
           \A i \in m..(n - 1) : i \in P => i + 1 \in P
    PROVE  \A i \in m..n : i \in P
<1> DEFINE T == {i \in Nat : m + i <= n /\ m + i \notin P}
<1> SUFFICES ASSUME NEW i \in m..n, i \notin P PROVE FALSE
  OBVIOUS
<1>1. i - m \in Nat /\ m + (i - m) = i /\ i <= n
  OBVIOUS
<1>2. T # {}
  BY <1>1
<1>3. T \in SUBSET Nat
  OBVIOUS
<1> HIDE DEF T
<1>4. PICK k \in T : \A y \in T : k <= y
  BY <1>2, <1>3, LeastNumber
<1>5. k \in Nat /\ m + k <= n /\ m + k \notin P
  BY <1>4 DEF T
<1>6. k # 0
  BY <1>5
<1>7. k - 1 \in Nat /\ m + (k - 1) \in m..(n - 1) /\ m + (k - 1) + 1 = m + k /\ ~(k <= k - 1)
  BY <1>5, <1>6
<1>8. m + (k - 1) \notin P
  BY <1>5, <1>7
<1>9. k - 1 \in T
  BY <1>7, <1>8 DEF T
<1>10. QED
  BY <1>4, <1>7, <1>9

\* The same from above.
LEMMA Downward ==
    ASSUME NEW m \in Int, NEW n \in Int, NEW P, n \in P,
           \A i \in m..(n - 1) : i + 1 \in P => i \in P
    PROVE  \A i \in m..n : i \in P
<1> DEFINE Q == {j \in Int : n - j \in P}
<1>1. 0 \in Q
  OBVIOUS
<1>2. \A j \in 0..((n - m) - 1) : j \in Q => j + 1 \in Q
  <2> SUFFICES ASSUME NEW j \in 0..((n - m) - 1), n - j \in P PROVE n - (j + 1) \in P
    OBVIOUS
  <2>1. n - (j + 1) \in m..(n - 1) /\ (n - (j + 1)) + 1 = n - j
    OBVIOUS
  <2>2. QED BY <2>1
<1>3. \A j \in 0..(n - m) : j \in Q
  <2> HIDE DEF Q
  <2>1. QED BY <1>1, <1>2, Upward
<1>4. SUFFICES ASSUME NEW i \in m..n PROVE i \in P
  OBVIOUS
<1>5. n - i \in 0..(n - m) /\ n - (n - i) = i
  OBVIOUS
<1>6. QED
  BY <1>3, <1>5

-----------------------------------------------------------------------------
(* Recursive functions over places.  A fold goes from each place to one of
   a higher rank and stops at the latest at rank N; a scan is a fold that
   only looks for something.                                               *)

Rises(D, rank, N, stop, next) ==
    /\ N \in Nat /\ stop \in SUBSET D /\ rank \in [D -> Nat] /\ next \in [D -> D]
    /\ \A x \in D : rank[x] >= N => x \in stop
    /\ \A x \in D : x \notin stop => rank[next[x]] > rank[x]

IsFoldOver(f, D, stop, val, next, cons) ==
    f = [x \in D |-> IF x \in stop THEN val[x] ELSE cons[x][f[next[x]]]]

HasFoldOver(S, D, stop, val, next, cons) ==
    \E f \in [D -> S] : IsFoldOver(f, D, stop, val, next, cons)

\* A fold over any places whose ranks grow, and are bounded, has a value at each.
LEMMA FoldOverExists ==
    ASSUME NEW D, NEW rank, NEW N, NEW stop, NEW next, Rises(D, rank, N, stop, next),
           NEW S, NEW val \in [D -> S], NEW cons \in [D -> [S -> S]]
    PROVE  HasFoldOver(S, D, stop, val, next, cons)
<1> DEFINE Step(g, x) == IF x \in stop THEN val[x] ELSE cons[x][g[next[x]]]
           From(m) == {x \in D : m <= rank[x]}
           Good(m) == \E g \in [From(m) -> S] : \A x \in From(m) : g[x] = Step(g, x)
           P == {m \in Nat : Good(m)}
<1>0. /\ N \in Nat /\ stop \in SUBSET D /\ rank \in [D -> Nat] /\ next \in [D -> D]
      /\ \A x \in D : rank[x] >= N => x \in stop
      /\ \A x \in D : x \notin stop => rank[next[x]] > rank[x]
  BY DEF Rises
<1>1. N \in P
  <2> DEFINE g == [x \in From(N) |-> val[x]]
  <2>1. \A x \in From(N) : x \in D /\ x \in stop
    BY <1>0
  <2>2. g \in [From(N) -> S]
    BY <2>1
  <2>3. \A x \in From(N) : g[x] = Step(g, x)
    BY <2>1
  <2> HIDE DEF g, Step
  <2>4. QED BY <1>0, <2>2, <2>3
<1>2. ASSUME NEW m \in 0..(N - 1), m + 1 \in P PROVE m \in P
  <2>1. PICK g \in [From(m + 1) -> S] : \A x \in From(m + 1) : g[x] = Step(g, x)
    BY <1>2
  <2> DEFINE h == [x \in From(m) |-> IF x \in From(m + 1) THEN g[x] ELSE Step(g, x)]
  <2>2. m \in Nat /\ \A x \in From(m) : x \in D /\ rank[x] \in Nat
    BY <1>0
  <2>3. \A x \in From(m + 1) : x \in From(m)
    BY <1>0
  <2>4. \A x \in From(m) : x \notin stop => next[x] \in From(m + 1)
    <3> SUFFICES ASSUME NEW x \in From(m), x \notin stop PROVE next[x] \in From(m + 1)
      OBVIOUS
    <3>1. x \in D /\ m <= rank[x] /\ rank[x] \in Nat /\ next[x] \in D
          /\ rank[next[x]] \in Nat /\ rank[next[x]] > rank[x]
      BY <1>0
    <3>2. QED BY <1>0, <3>1
  <2> HIDE DEF From
  <2>5. \A x \in From(m) : Step(g, x) \in S
    <3> SUFFICES ASSUME NEW x \in From(m) PROVE Step(g, x) \in S
      OBVIOUS
    <3>1. x \notin stop => g[next[x]] \in S
      BY <2>4
    <3>2. QED BY <2>2, <3>1
  <2>6. h \in [From(m) -> S]
    <3> HIDE DEF Step
    <3>1. QED BY <2>5
  <2>7. \A x \in From(m) : h[x] = Step(g, x)
    <3> HIDE DEF Step
    <3>1. QED BY <2>1
  <2>8. \A x \in From(m + 1) : h[x] = g[x]
    BY <2>3
  <2> HIDE DEF h
  <2>10. \A x \in From(m) : h[x] = Step(h, x)
    <3>1. \A x \in From(m) : x \notin stop => h[next[x]] = g[next[x]]
      BY <2>4, <2>8
    <3>2. QED BY <2>7, <3>1
  <2> HIDE DEF Step
  <2>11. QED BY <2>2, <2>6, <2>10
<1>3. 0 \in P
  <2> HIDE DEF P
  <2>3. 0 \in Int /\ N \in Int /\ \A i \in 0..(N - 1) : i + 1 \in P => i \in P
    BY <1>0, <1>2
  <2>1. \A i \in 0..N : i \in P
    BY <1>1, <2>3, Downward
  <2>2. QED BY <1>0, <2>1
<1>4. PICK g \in [From(0) -> S] : \A x \in From(0) : g[x] = Step(g, x)
  BY <1>3
<1>5. From(0) = D
  BY <1>0
<1>6. g \in [D -> S] /\ \A x \in D : g[x] = Step(g, x)
  <2> HIDE DEF From, Step
  <2>1. QED BY <1>4, <1>5
<1>7. g = [x \in D |-> Step(g, x)]
  <2> HIDE DEF Step
  <2>1. QED BY <1>6
<1>8. QED
  BY <1>6, <1>7 DEF IsFoldOver, HasFoldOver

GoesForward(N, stop, next) ==
    /\ N \in Nat /\ stop \in SUBSET Nat /\ next \in [Nat -> Nat]
    /\ \A i \in Nat : i >= N => i \in stop
    /\ \A i \in Nat : i \notin stop => next[i] > i

IsFold(f, stop, val, next, cons) ==
    f = [i \in Nat |-> IF i \in stop THEN val[i] ELSE cons[i][f[next[i]]]]

HasFold(S, stop, val, next, cons) == \E f \in [Nat -> S] : IsFold(f, stop, val, next, cons)

\* So has one over numbers.
LEMMA FoldExists ==
    ASSUME NEW N, NEW stop, NEW next, GoesForward(N, stop, next),
           NEW S, NEW val \in [Nat -> S], NEW cons \in [Nat -> [S -> S]]
    PROVE  HasFold(S, stop, val, next, cons)
<1> DEFINE rank == [i \in Nat |-> i]
<1>1. Rises(Nat, rank, N, stop, next)
  BY DEF Rises, GoesForward
<1>2. HasFoldOver(S, Nat, stop, val, next, cons)
  <2> HIDE DEF rank
  <2>1. QED BY <1>1, FoldOverExists
<1>3. QED
  BY <1>2 DEF HasFoldOver, HasFold, IsFoldOver, IsFold

\* A scan that only looks for something.
IsScan(f, stop, val, next) ==
    f = [i \in Nat |-> IF i \in stop THEN val[i] ELSE f[next[i]]]

HasScan(stop, val, next) == \E f : IsScan(f, stop, val, next)

\* So has a scan.
LEMMA ScanExists ==
    ASSUME NEW N, NEW stop, NEW val, NEW next, GoesForward(N, stop, next)
    PROVE  HasScan(stop, val, next)
<1> DEFINE S == {val[i] : i \in Nat}
           v == [i \in Nat |-> val[i]]
           cons == [i \in Nat |-> [x \in S |-> x]]
<1>1. v \in [Nat -> S] /\ cons \in [Nat -> [S -> S]]
  OBVIOUS
<1>2. \A i \in Nat, x \in S : cons[i][x] = x
  OBVIOUS
<1>3. \A i \in Nat : v[i] = val[i]
  OBVIOUS
<1> HIDE DEF S, v, cons
<1>4. PICK f \in [Nat -> S] : IsFold(f, stop, v, next, cons)
  BY <1>1, FoldExists DEF HasFold
<1>5. \A i \in Nat : i \notin stop => next[i] \in Nat
  BY DEF GoesForward
<1>6. \A i \in Nat : i \notin stop => cons[i][f[next[i]]] = f[next[i]]
  BY <1>2, <1>5
<1>7. f = [i \in Nat |-> IF i \in stop THEN val[i] ELSE f[next[i]]]
  BY <1>3, <1>4, <1>6 DEF IsFold
<1>8. QED
  BY <1>7 DEF IsScan, HasScan

\* The value of a scan is that of a place where it stops.
LEMMA ScanStops ==
    ASSUME NEW N, NEW stop, NEW val, NEW next, GoesForward(N, stop, next),
           NEW f, IsScan(f, stop, val, next)
    PROVE  \A i \in Nat : \E j \in stop : f[i] = val[j]
<1> USE DEF GoesForward
<1> DEFINE Bad == {i \in Nat : ~\E j \in stop : f[i] = val[j]}
           D == {N - i : i \in Bad}
<1> SUFFICES ASSUME Bad # {} PROVE FALSE
  OBVIOUS
<1>1. \A i \in Nat : f[i] = IF i \in stop THEN val[i] ELSE f[next[i]]
  <2>1. QED BY Zenon DEF IsScan
<1>2. \A i \in Bad : i \in Nat /\ i \notin stop
  BY <1>1
<1>3. \A i \in Bad : next[i] \in Bad /\ next[i] > i /\ next[i] < N /\ i < N
  <2>1. SUFFICES ASSUME NEW i \in Bad PROVE next[i] \in Bad
    <3>1. \A i \in Bad : i < N
      <4> HIDE DEF Bad
      <4>1. QED BY <1>2
    <3>2. \A i \in Bad : next[i] > i
      <4> HIDE DEF Bad
      <4>1. QED BY <1>2
    <3>3. QED BY <2>1, <3>1, <3>2
  <2>2. i \in Nat /\ next[i] \in Nat /\ f[i] = f[next[i]]
    BY <1>1, <1>2
  <2>3. QED BY <2>2
<1> HIDE DEF Bad
<1>4. D \in SUBSET Nat /\ D # {}
  BY <1>2, <1>3
<1>5. PICK d \in D : \A e \in D : d <= e
  <2> HIDE DEF D
  <2>1. QED BY <1>4, LeastNumber
<1>6. PICK i \in Bad : d = N - i
  BY <1>5
<1>7. N - next[i] \in D /\ N - next[i] < d
  BY <1>2, <1>3, <1>6
<1>8. d <= N - next[i] /\ N - next[i] \in Int /\ d \in Nat
  <2> HIDE DEF D
  <2>1. d <= N - next[i]
    BY <1>5, <1>7
  <2>2. d \in D /\ N - next[i] \in D
    BY <1>5, <1>7
  <2>3. \A x \in D : x \in Nat
    BY <1>4
  <2>4. d \in Nat /\ N - next[i] \in Nat
    BY <2>2, <2>3
  <2>5. QED BY <2>1, <2>4
<1>9. QED BY <1>7, <1>8

\* What a sequence of steps comes to.
IsRun(f, a, step, n) == f = [i \in 1..n + 1 |-> IF i = 1 THEN a ELSE step[i - 1][f[i - 1]]]

\* It comes to something.
LEMMA RunExists ==
    ASSUME NEW n \in Nat, NEW S, NEW a \in S, NEW step \in [1..n -> [S -> S]]
    PROVE  \E f \in [1..n + 1 -> S] : IsRun(f, a, step, n)
<1> DEFINE Step(g, i) == IF i = 1 THEN a ELSE step[i - 1][g[i - 1]]
           Good(m) == \E g \in [1..m -> S] : \A i \in 1..m : g[i] = Step(g, i)
           P == {m \in Nat : Good(m)}
<1>1. 1 \in P
  <2> DEFINE g == [i \in 1..1 |-> a]
  <2>1. g \in [1..1 -> S] /\ \A i \in 1..1 : g[i] = Step(g, i)
    OBVIOUS
  <2> HIDE DEF g, Step
  <2>2. QED BY <2>1
<1>2. ASSUME NEW m \in 1..n, m \in P PROVE m + 1 \in P
  <2>1. PICK g \in [1..m -> S] : \A i \in 1..m : g[i] = Step(g, i)
    BY <1>2
  <2> DEFINE h == [i \in 1..m + 1 |-> IF i = m + 1 THEN step[m][g[m]] ELSE g[i]]
  <2>2. g[m] \in S /\ step[m][g[m]] \in S
    <3>1. m \in 1..m /\ g[m] \in S /\ step[m] \in [S -> S]
      OBVIOUS
    <3>2. QED BY <3>1
  <2>3. \A i \in 1..m + 1 : i # m + 1 => i \in 1..m
    OBVIOUS
  <2>4. h \in [1..m + 1 -> S]
    BY <2>2, <2>3
  <2>5. \A i \in 1..m : i \in 1..m + 1 /\ i # m + 1 /\ h[i] = g[i]
    OBVIOUS
  <2>6. h[m + 1] = step[m][g[m]]
    OBVIOUS
  <2> HIDE DEF h
  <2>7. ASSUME NEW i \in 1..m + 1 PROVE h[i] = Step(h, i)
    <3>1. CASE i = m + 1
      <4>1. i # 1 /\ i - 1 = m /\ m \in 1..m
        BY <3>1
      <4>2. QED BY <2>5, <2>6, <3>1, <4>1
    <3>2. CASE i # m + 1
      <4>1. i \in 1..m /\ (i # 1 => i - 1 \in 1..m)
        BY <3>2
      <4>2. h[i] = g[i] /\ g[i] = Step(g, i) /\ (i # 1 => h[i - 1] = g[i - 1])
        BY <2>1, <2>5, <4>1
      <4>3. QED BY <4>2
    <3>3. QED BY <3>1, <3>2
  <2> HIDE DEF Step
  <2>8. m + 1 \in Nat
    OBVIOUS
  <2>9. QED BY <2>4, <2>7, <2>8
<1>3. n + 1 \in P
  <2> HIDE DEF P
  <2>1. 1 \in Int /\ n + 1 \in Int /\ (n + 1) - 1 = n
    OBVIOUS
  <2>2. \A i \in 1..((n + 1) - 1) : i \in P => i + 1 \in P
    BY <1>2, <2>1
  <2>3. \A i \in 1..n + 1 : i \in P
    BY <1>1, <2>1, <2>2, Upward
  <2>4. QED BY <2>3
<1>4. PICK g \in [1..n + 1 -> S] : \A i \in 1..n + 1 : g[i] = Step(g, i)
  BY <1>3
<1>5. g = [i \in 1..n + 1 |-> Step(g, i)]
  <2> HIDE DEF Step
  <2>1. QED BY <1>4
<1>6. QED
  BY <1>5 DEF IsRun

\* Sums from the left: f[i] is what is in front of the i-th weight.
IsSums(f, w, n) == f = [i \in 1..n + 1 |-> IF i = 1 THEN 0 ELSE f[i - 1] + w[i - 1]]

\* There are such sums.
LEMMA SumsExist ==
    ASSUME NEW n \in Nat, NEW w \in [1..n -> Nat]
    PROVE  \E f \in [1..n + 1 -> Nat] : IsSums(f, w, n)
<1> DEFINE step == [i \in 1..n |-> [x \in Nat |-> x + w[i]]]
<1>1. step \in [1..n -> [Nat -> Nat]] /\ \A i \in 1..n, x \in Nat : step[i][x] = x + w[i]
  OBVIOUS
<1> HIDE DEF step
<1>2. PICK f \in [1..n + 1 -> Nat] : IsRun(f, 0, step, n)
  BY <1>1, RunExists
<1>3. \A i \in 1..n + 1 : i # 1 => i - 1 \in 1..n /\ i - 1 \in 1..n + 1 /\ f[i - 1] \in Nat
  OBVIOUS
<1>4. \A i \in 1..n + 1 : i # 1 => step[i - 1][f[i - 1]] = f[i - 1] + w[i - 1]
  BY <1>1, <1>3
<1>5. f = [i \in 1..n + 1 |-> IF i = 1 THEN 0 ELSE f[i - 1] + w[i - 1]]
  BY <1>2, <1>4 DEF IsRun
<1>6. QED
  BY <1>5 DEF IsSums

-----------------------------------------------------------------------------
(* Members of sequences *)

\* SetToSeq lists as many members as the set has.
LEMMA SetAsSequence ==
    ASSUME NEW S, NEW T \in SUBSET S, IsFiniteSet(T)
    PROVE  SetToSeq(T) \in Seq(S) /\ Len(SetToSeq(T)) = Cardinality(T) /\ Cardinality(T) \in Nat
<1> DEFINE n == Cardinality(T)
           f == SetToSeq(T)
<1>1. n \in Nat /\ ExistsBijection(1..n, T)
  BY FS_CardinalityType
<1>2. \E g \in [1..n -> T] : IsInjective(g)
  BY <1>1 DEF ExistsBijection, Bijection, Injection
<1>3. f \in [1..n -> T]
  BY <1>2 DEF SetToSeq
<1> HIDE DEF f, n
<1>4. f \in [1..n -> S]
  BY <1>3
<1>5. f \in Seq(S) /\ Len(f) = n
  BY <1>1, <1>4, FunctionIsSeq, LenProperties
<1>6. QED
  BY <1>1, <1>5 DEF f, n

Holds(q, e) == \E i \in 1..Len(q) : q[i] = e

\* A sequence of one holds it, a concatenation what its parts hold.
LEMMA OneHolds ==
    ASSUME NEW S, NEW e \in S
    PROVE  <<e>> \in Seq(S) /\ Len(<<e>>) = 1 /\ Holds(<<e>>, e)
<1>1. <<e>> \in Seq(S) /\ Len(<<e>>) = 1 /\ <<e>>[1] = e /\ 1 \in 1..1
  OBVIOUS
<1>2. QED
  BY <1>1 DEF Holds

LEMMA JoinedHolds ==
    ASSUME NEW S, NEW q \in Seq(S), NEW r \in Seq(S)
    PROVE  /\ q \o r \in Seq(S) /\ Len(q \o r) = Len(q) + Len(r)
           /\ \A e : Holds(q, e) \/ Holds(r, e) => Holds(q \o r, e)
<1>1. /\ q \o r \in Seq(S) /\ Len(q \o r) = Len(q) + Len(r)
      /\ \A i \in 1..Len(q) + Len(r) : (q \o r)[i] = IF i <= Len(q) THEN q[i] ELSE r[i - Len(q)]
      /\ Len(q) \in Nat /\ Len(r) \in Nat
  BY ConcatProperties, LenProperties
<1>2. ASSUME NEW i \in 1..Len(q) PROVE i \in 1..Len(q \o r) /\ (q \o r)[i] = q[i]
  <2>1. i \in 1..Len(q) + Len(r) /\ i <= Len(q)
    BY <1>1
  <2>2. QED BY <1>1, <2>1
<1>3. ASSUME NEW i \in 1..Len(r)
      PROVE  Len(q) + i \in 1..Len(q \o r) /\ (q \o r)[Len(q) + i] = r[i]
  <2>1. Len(q) + i \in 1..Len(q) + Len(r) /\ ~(Len(q) + i <= Len(q)) /\ Len(q) + i - Len(q) = i
    BY <1>1
  <2>2. QED BY <1>1, <2>1
<1>4. QED
  BY <1>1, <1>2, <1>3 DEF Holds
=============================================================================
