------------------------ MODULE BuddyAllocatorProofs ------------------------
(***************************************************************************)
(* What holds of the page allocator for every number of pages, largest     *)
(* order and set of reserved pages: every page has one place, and the      *)
(* promise of PageAllocator is kept.                                       *)
(***************************************************************************)
EXTENDS BuddyAllocator, SequenceLemmas

-----------------------------------------------------------------------------
(* Powers of two and aligned blocks *)

LEMMA Powers ==
    /\ \A k \in 0..(MAX_ORDER + 1) : 2^k \in Nat \ {0}
    /\ \A k \in Orders : 2^(k + 1) = 2 * 2^k
<1>1. \A k \in Orders : 2^(k + 1) = 2 * 2^k
  BY PowersAssumption DEF Orders
<1>2. \A k \in 0..(MAX_ORDER + 1) : 2^k \in Nat \ {0}
  <2> DEFINE T == {k \in 0..(MAX_ORDER + 1) : 2^k \notin Nat \ {0}}
  <2>1. SUFFICES ASSUME T # {} PROVE FALSE
    OBVIOUS
  <2>2. T \in SUBSET Nat /\ MAX_ORDER \in Nat
    BY MemoryAssumption
  <2>3. PICK k \in T : \A j \in T : k <= j
    BY <2>1, <2>2, LeastNumber
  <2>4. k # 0
    <3>1. 2^0 = 1 /\ 2^k \notin Nat \ {0}
      BY <2>3, PowersAssumption
    <3> DEFINE e(x) == 2^x
    <3>2. e(0) \in Nat \ {0} /\ e(k) \notin Nat \ {0}
      BY <3>1
    <3> HIDE DEF e
    <3>3. QED BY <3>2
  <2>5. k - 1 \in Orders /\ k - 1 \notin T /\ k - 1 \in 0..(MAX_ORDER + 1) /\ k = (k - 1) + 1
    BY <2>2, <2>3, <2>4 DEF Orders
  <2>6. 2^(k - 1) \in Nat \ {0}
    BY <2>5
  <2>7. 2^k = 2 * 2^(k - 1)
    BY <1>1, <2>5
  <2>8. 2^k \in Nat \ {0}
    BY <2>6, <2>7
  <2>9. QED BY <2>3, <2>8
<1>3. QED
  BY <1>1, <1>2

\* A larger power is a multiple of a smaller one.
LEMMA PowersDivide ==
    ASSUME NEW j \in 0..(MAX_ORDER + 1), NEW k \in 0..(MAX_ORDER + 1), j <= k
    PROVE  /\ \E c \in Nat \ {0} : 2^k = c * 2^j
           /\ j < k => 2^j < 2^k
<1> DEFINE Good(n) == /\ \E c \in Nat \ {0} : 2^n = c * 2^j
                      /\ j < n => 2^j < 2^n
           T == {n \in j..(MAX_ORDER + 1) : ~Good(n)}
<1>1. SUFFICES ASSUME T # {} PROVE FALSE
  <2>1. k \in j..(MAX_ORDER + 1)
    BY MemoryAssumption
  <2>2. QED BY <2>1
<1>2. T \in SUBSET Nat /\ MAX_ORDER \in Nat
  BY MemoryAssumption
<1>3. PICK n \in T : \A m \in T : n <= m
  BY <1>1, <1>2, LeastNumber
<1>4. 2^j \in Nat \ {0}
  BY Powers
<1>5. n # j
  <2>1. 2^j = 1 * 2^j
    BY <1>4
  <2>2. QED BY <1>3, <2>1
<1>6. n - 1 \in Orders /\ n - 1 \in j..(MAX_ORDER + 1) /\ n = (n - 1) + 1 /\ n - 1 \notin T
  <2>1. n - 1 \in Orders /\ n - 1 \in j..(MAX_ORDER + 1) /\ n = (n - 1) + 1 /\ ~(n <= n - 1)
    BY <1>2, <1>3, <1>5 DEF Orders
  <2>2. QED BY <1>3, <2>1
<1>7. PICK c \in Nat \ {0} : 2^(n - 1) = c * 2^j
  BY <1>6
<1>8. 2^n = 2 * 2^(n - 1)
  BY <1>6, Powers
<1> DEFINE a == 2^j
           b == 2^(n - 1)
           d == 2^n
<1>9. a \in Nat \ {0} /\ b = c * a /\ d = 2 * b
  BY <1>4, <1>7, <1>8
<1>10. \/ n - 1 = j
       \/ j < n - 1 /\ a < b
  BY <1>6
<1>11. n - 1 = j => b = a
  OBVIOUS
<1> HIDE DEF a, b, d
<1>12. 2 * c \in Nat \ {0} /\ d = (2 * c) * a
  BY <1>9
<1>13. a < d
  <2>1. a <= b /\ b \in Nat
    BY <1>9, <1>10, <1>11
  <2>2. QED BY <1>9, <2>1
<1>14. Good(n)
  BY <1>12, <1>13 DEF a, d
<1>15. QED
  BY <1>3, <1>14

Multiple(i, n) == \E q \in Nat : i = q * n

LEMMA Division ==
    ASSUME NEW i \in Nat, NEW n \in Nat \ {0}
    PROVE  /\ i \div n \in Nat
           /\ \A q \in Nat : i \div n = q <=> q * n <= i /\ i < q * n + n
           /\ i % n = 0 <=> Multiple(i, n)
<1>1. /\ i \div n \in Nat
      /\ \A q \in Nat : i \div n = q <=> q * n <= i /\ i < q * n + n
  OBVIOUS
<1>2. i % n \in 0..(n - 1) /\ i = (i \div n) * n + (i % n)
  OBVIOUS
<1>3. ASSUME i % n = 0 PROVE Multiple(i, n)
  <2>1. i = (i \div n) * n
    BY <1>1, <1>2, <1>3
  <2>2. QED BY <1>1, <2>1 DEF Multiple
<1>4. ASSUME NEW q \in Nat, i = q * n PROVE i % n = 0
  <2>1. q * n \in Nat /\ i \div n = q
    BY <1>1, <1>4
  <2>2. QED BY <1>2, <1>4, <2>1
<1>5. QED
  BY <1>1, <1>3, <1>4 DEF Multiple

Aligned(i, k) == Multiple(i, 2^k)

LEMMA AlignedSmaller ==
    ASSUME NEW j \in 0..(MAX_ORDER + 1), NEW k \in 0..(MAX_ORDER + 1), j <= k,
           NEW i \in Nat, Aligned(i, k)
    PROVE  Aligned(i, j) /\ Aligned(i + 2^k, j) /\ Aligned(i + 2^j, j)
<1> DEFINE a == 2^j
           b == 2^k
<1>1. a \in Nat \ {0} /\ b \in Nat \ {0}
  BY Powers
<1>2. PICK c \in Nat : b = c * a
  BY PowersDivide
<1>3. PICK q \in Nat : i = q * b
  BY DEF Aligned, Multiple
<1> HIDE DEF a, b
<1>4. q * c \in Nat /\ i = (q * c) * a
  BY <1>1, <1>2, <1>3
<1>5. q * c + c \in Nat /\ i + b = (q * c + c) * a
  BY <1>1, <1>2, <1>4
<1>6. q * c + 1 \in Nat /\ i + a = (q * c + 1) * a
  BY <1>1, <1>4
<1>7. QED
  BY <1>4, <1>5, <1>6 DEF Aligned, Multiple, a, b

LEMMA MultiplesApart ==
    ASSUME NEW n \in Nat \ {0}, NEW i \in Nat, NEW h \in Nat,
           Multiple(i, n), Multiple(h, n), i < h
    PROVE  i + n <= h
<1>1. PICK q \in Nat : i = q * n
  BY DEF Multiple
<1>2. PICK r \in Nat : h = r * n
  BY DEF Multiple
<1>3. q < r
  BY <1>1, <1>2
<1>4. QED
  BY <1>1, <1>2, <1>3

\* Of two aligned blocks that meet, the smaller lies in the larger.
LEMMA BlocksNest ==
    ASSUME NEW j \in 0..(MAX_ORDER + 1), NEW k \in 0..(MAX_ORDER + 1), j <= k,
           NEW h \in Nat, NEW i \in Nat, Aligned(h, j), Aligned(i, k),
           NEW p \in Block(h, j), p \in Block(i, k)
    PROVE  Block(h, j) \subseteq Block(i, k)
<1> DEFINE a == 2^j
           b == 2^k
<1>1. a \in Nat \ {0} /\ b \in Nat \ {0}
  BY Powers
<1>2. Multiple(h, a) /\ Multiple(i, a) /\ Multiple(i + b, a)
  BY AlignedSmaller DEF Aligned
<1>3. p \in Int /\ h <= p /\ p < h + a /\ i <= p /\ p < i + b
  BY <1>1 DEF Block
<1> HIDE DEF a, b
<1>4. ~ (h < i)
  BY <1>1, <1>2, <1>3, MultiplesApart
<1>5. h < i + b
  BY <1>1, <1>3
<1>6. h + a <= i + b
  BY <1>1, <1>2, <1>5, MultiplesApart
<1>7. \A x \in h..(h + a - 1) : x \in i..(i + b - 1)
  BY <1>1, <1>4, <1>6
<1>8. QED
  BY <1>7 DEF Block, a, b

LEMMA BlockFacts ==
    ASSUME NEW i \in Nat, NEW k \in 0..(MAX_ORDER + 1)
    PROVE  i \in Block(i, k) /\ Block(i, k) \subseteq Nat /\ i + 2^k - 1 \in Block(i, k)
<1>1. 2^k \in Nat \ {0}
  BY Powers
<1>2. QED
  BY <1>1 DEF Block

LEMMA BaseFacts ==
    ASSUME NEW i \in Nat, NEW k \in 0..(MAX_ORDER + 1)
    PROVE  /\ Base(i, k) \in Nat /\ Aligned(Base(i, k), k) /\ i \in Block(Base(i, k), k)
           /\ \A s \in Nat : Aligned(s, k) /\ i \in Block(s, k) => s = Base(i, k)
<1> DEFINE n == 2^k
           d == i \div n
<1>1. n \in Nat \ {0}
  BY Powers
<1> HIDE DEF n
<1>2. d \in Nat /\ d * n \in Nat /\ d * n <= i /\ i < d * n + n
  BY <1>1, Division
<1>3. ASSUME NEW s \in Nat, NEW q \in Nat, s = q * n, i \in s..(s + n - 1)
      PROVE  s = d * n
  <2>1. q * n <= i /\ i < q * n + n
    BY <1>1, <1>3
  <2>2. d = q
    BY <1>1, <2>1, Division
  <2>3. QED BY <1>3, <2>2
<1> HIDE DEF d
<1>4. i \in (d * n)..(d * n + n - 1)
  BY <1>1, <1>2
<1>5. Base(i, k) = d * n
  BY DEF Base, d, n
<1>6. QED
  BY <1>2, <1>3, <1>4, <1>5 DEF Aligned, Multiple, Block, n

\* A block and its buddy are the halves of an aligned block.
LEMMA BuddyFacts ==
    ASSUME NEW k \in Orders, NEW i \in Nat, Aligned(i, k)
    PROVE  /\ BuddyOf(i, k) \in Nat /\ Aligned(BuddyOf(i, k), k) /\ BuddyOf(i, k) # i
           /\ BuddyOf(BuddyOf(i, k), k) = i
           /\ \E s \in {i, BuddyOf(i, k)} :
                /\ Aligned(s, k + 1) /\ {i, BuddyOf(i, k)} = {s, s + 2^k}
                /\ Block(s, k + 1) = Block(i, k) \cup Block(BuddyOf(i, k), k)
<1> DEFINE a == 2^k
           b == 2^(k + 1)
<1>1. a \in Nat \ {0} /\ b = 2 * a
  BY Powers, MemoryAssumption DEF Orders
<1>2. PICK q \in Nat : i = q * a
  BY DEF Aligned, Multiple
<1> HIDE DEF a, b
<1>3. ASSUME NEW r \in Nat, NEW x, x = r * a
      PROVE  x \in Nat /\ x \div a = r /\ (x + a) \div a = r + 1
  <2>1. x \in Nat /\ r * a <= x /\ x < r * a + a
    BY <1>1, <1>3
  <2>2. x + a \in Nat /\ r + 1 \in Nat /\ (r + 1) * a <= x + a /\ x + a < (r + 1) * a + a
    BY <1>1, <1>3
  <2>3. QED BY <1>1, <2>1, <2>2, Division
<1>4. \A x \in Nat : BuddyOf(x, k) = IF (x \div a) % 2 = 0 THEN x + a ELSE x - a
  BY DEF BuddyOf, a
<1>5. CASE q % 2 = 0
  <2>1. PICK h \in Nat : q = 2 * h
    BY <1>5
  <2>2. BuddyOf(i, k) = i + a
    BY <1>2, <1>3, <1>4, <1>5
  <2>3. (q + 1) % 2 # 0 /\ q + 1 \in Nat
    BY <2>1
  <2>4. i + a \in Nat /\ i + a = (q + 1) * a /\ i + a # i /\ (i + a) - a = i
    BY <1>1, <1>2
  <2>5. BuddyOf(i + a, k) = i
    BY <1>2, <1>3, <1>4, <2>3, <2>4
  <2>6. i = h * b
    BY <1>1, <1>2, <2>1
  <2>7. i..(i + b - 1) = (i..(i + a - 1)) \cup ((i + a)..(i + a + a - 1))
    BY <1>1, <2>4
  <2>8. QED
    BY <2>1, <2>2, <2>3, <2>4, <2>5, <2>6, <2>7 DEF Aligned, Multiple, Block, a, b
<1>6. CASE q % 2 # 0
  <2>1. PICK h \in Nat : q = 2 * h + 1
    BY <1>6
  <2> DEFINE s == i - a
  <2>2. BuddyOf(i, k) = s
    BY <1>2, <1>3, <1>4, <1>6
  <2>3. (2 * h) % 2 = 0 /\ 2 * h \in Nat
    BY <2>1
  <2>4. s = (2 * h) * a /\ s \in Nat /\ s # i /\ s + a = i /\ s = h * b
    BY <1>1, <1>2, <2>1
  <2> HIDE DEF s
  <2>5. BuddyOf(s, k) = i
    BY <1>3, <1>4, <2>3, <2>4
  <2>6. s..(s + b - 1) = (i..(i + a - 1)) \cup (s..(s + a - 1))
    BY <1>1, <2>4
  <2>7. QED
    BY <2>2, <2>3, <2>4, <2>5, <2>6 DEF Aligned, Multiple, Block, a, b
<1>7. QED
  BY <1>5, <1>6

LEMMA BaseGrows ==
    ASSUME NEW i \in Nat, NEW k \in Orders
    PROVE  Block(Base(i, k + 1), k + 1) =
              Block(Base(i, k), k) \cup Block(BuddyOf(Base(i, k), k), k)
<1> DEFINE s == Base(i, k)
<1>1. /\ s \in Nat /\ Aligned(s, k) /\ i \in Block(s, k)
      /\ k \in 0..(MAX_ORDER + 1) /\ k + 1 \in 0..(MAX_ORDER + 1)
  BY MemoryAssumption, BaseFacts DEF Orders
<1> HIDE DEF s
<1>2. PICK t \in {s, BuddyOf(s, k)} :
         /\ t \in Nat /\ Aligned(t, k + 1)
         /\ Block(t, k + 1) = Block(s, k) \cup Block(BuddyOf(s, k), k)
  BY <1>1, BuddyFacts
<1>3. t = Base(i, k + 1)
  BY <1>1, <1>2, BaseFacts
<1>4. QED
  BY <1>2, <1>3 DEF s

LEMMA BaseOfAligned ==
    ASSUME NEW i \in Nat, NEW k \in Orders, Aligned(i, k)
    PROVE  Base(i, k) = i
<1>1. k \in 0..(MAX_ORDER + 1)
  BY MemoryAssumption DEF Orders
<1>2. QED
  BY <1>1, BlockFacts, BaseFacts

\* What merging up to order m makes of a block: itself and the buddies it met.
Met(i, j) == BuddyOf(Base(i, j), j)

LEMMA MergedBlock ==
    ASSUME NEW i \in Nat, NEW k \in Orders, Aligned(i, k), NEW m \in k..MAX_ORDER
    PROVE  Block(Base(i, m), m) = Block(i, k) \cup UNION {Block(Met(i, j), j) : j \in k..(m - 1)}
<1> DEFINE Good(n) == Block(Base(i, n), n) =
                        Block(i, k) \cup UNION {Block(Met(i, j), j) : j \in k..(n - 1)}
           T == {n \in k..MAX_ORDER : ~Good(n)}
<1>1. SUFFICES ASSUME T # {} PROVE FALSE
  OBVIOUS
<1>2. T \in SUBSET Nat /\ MAX_ORDER \in Nat /\ k \in Nat
  BY MemoryAssumption DEF Orders
<1>3. PICK n \in T : \A x \in T : n <= x
  BY <1>1, <1>2, LeastNumber
<1>4. n # k
  <2>1. k..(k - 1) = {} /\ Base(i, k) = i
    BY <1>2, BaseOfAligned
  <2>2. Good(k)
    BY <2>1
  <2>3. QED BY <1>3, <2>2
<1>5. n - 1 \in Orders /\ n - 1 \in k..MAX_ORDER /\ n = (n - 1) + 1 /\ n - 1 \notin T /\ ~ (n <= n - 1)
  BY <1>2, <1>3, <1>4 DEF Orders
<1>6. Good(n - 1)
  BY <1>5
<1>7. Block(Base(i, n), n) = Block(Base(i, n - 1), n - 1) \cup Block(Met(i, n - 1), n - 1)
  BY <1>5, BaseGrows DEF Met
<1>8. k..(n - 1) = (k..((n - 1) - 1)) \cup {n - 1}
  BY <1>2, <1>5
<1>9. Good(n)
  BY <1>6, <1>7, <1>8
<1>10. QED
  BY <1>3, <1>9

\* What splitting down to order t makes of a block: its first part and an upper
\* half of each order in between.
LEMMA SplitBlock ==
    ASSUME NEW i \in Nat, NEW t \in Orders, NEW k \in t..MAX_ORDER
    PROVE  Block(i, k) = Block(i, t) \cup UNION {Block(i + 2^j, j) : j \in t..(k - 1)}
<1> DEFINE Good(n) == Block(i, n) = Block(i, t) \cup UNION {Block(i + 2^j, j) : j \in t..(n - 1)}
           T == {n \in t..MAX_ORDER : ~Good(n)}
<1>1. SUFFICES ASSUME T # {} PROVE FALSE
  OBVIOUS
<1>2. T \in SUBSET Nat /\ MAX_ORDER \in Nat /\ t \in Nat
  BY MemoryAssumption DEF Orders
<1>3. PICK n \in T : \A x \in T : n <= x
  BY <1>1, <1>2, LeastNumber
<1>4. n # t
  <2>1. t..(t - 1) = {}
    BY <1>2
  <2>2. Good(t)
    BY <2>1
  <2>3. QED BY <1>3, <2>2
<1>5. n - 1 \in Orders /\ n - 1 \in t..MAX_ORDER /\ n = (n - 1) + 1 /\ n - 1 \notin T /\ ~ (n <= n - 1)
  BY <1>2, <1>3, <1>4 DEF Orders
<1>6. Good(n - 1)
  BY <1>5
<1>7. Block(i, n) = Block(i, n - 1) \cup Block(i + 2^(n - 1), n - 1)
  <2> DEFINE a == 2^(n - 1)
             b == 2^n
  <2>1. a \in Nat \ {0} /\ b = 2 * a
    BY <1>5, Powers, MemoryAssumption DEF Orders
  <2> HIDE DEF a, b
  <2>2. i..(i + b - 1) = (i..(i + a - 1)) \cup ((i + a)..(i + a + a - 1))
    BY <2>1
  <2>3. QED BY <2>2 DEF Block, a, b
<1>8. t..(n - 1) = (t..((n - 1) - 1)) \cup {n - 1}
  BY <1>2, <1>5
<1>9. Good(n)
  BY <1>6, <1>7, <1>8
<1>10. QED
  BY <1>3, <1>9

-----------------------------------------------------------------------------
(* Tags *)

LEMMA TagFacts ==
    ASSUME NEW i \in Nat, NEW k \in Orders
    PROVE  /\ ALLOC_TAG(i, k) \in Nat /\ ALLOC_TAG(i, k) \notin Orders \cup {FRAME_FREE_PART}
           /\ GET_ALLOC_ORDER(ALLOC_TAG(i, k)) = k
           /\ \A h \in Nat, j \in Orders : ALLOC_TAG(h, j) = ALLOC_TAG(i, k) => h = i /\ j = k
<1> DEFINE n == 2^8
           T == 2^30
<1>1. /\ n \in Nat \ {0} /\ T \in Nat /\ T % n = 0 /\ MAX_ORDER \in Nat /\ MAX_ORDER < n
      /\ MAX_ORDER < T /\ Orders = 0..MAX_ORDER
  BY MemoryAssumption, PowersAssumption DEF Orders
<1>2. /\ \A h, j : ALLOC_TAG(h, j) = T + h * n + j
      /\ \A x : GET_ALLOC_ORDER(x) = x % n
  BY DEF ALLOC_TAG, GET_ALLOC_ORDER
<1> HIDE DEF n, T
<1>3. PICK q \in Nat : T = q * n
  BY <1>1, Division DEF Multiple
<1>4. ASSUME NEW h \in Nat, NEW j \in Orders
      PROVE  /\ h * n \in Nat /\ T + h * n + j \in Nat /\ T + h * n + j > MAX_ORDER
             /\ (T + h * n + j) % n = j
  <2>1. h * n \in Nat /\ j \in Nat /\ j < n
    BY <1>1
  <2>2. T + h * n + j \in Nat /\ T + h * n + j > MAX_ORDER
    BY <1>1, <2>1
  <2> DEFINE x == T + h * n + j
             c == q + h
  <2>3. c \in Nat /\ x = c * n + j /\ c * n \in Nat
    BY <1>1, <1>3, <2>1
  <2> HIDE DEF x, c
  <2>4. x \in Nat /\ x \div n = c
    <3>1. x \in Nat /\ c * n <= x /\ x < c * n + n
      BY <1>1, <2>1, <2>3
    <3>2. QED BY <1>1, <2>3, <3>1, Division
  <2>5. x = (x \div n) * n + (x % n) /\ x % n \in Nat
    BY <1>1, <2>4
  <2>6. x % n = j
    BY <1>1, <2>1, <2>3, <2>4, <2>5
  <2>7. QED BY <2>1, <2>2, <2>6 DEF x
<1>5. ASSUME NEW h \in Nat, NEW j \in Orders, T + h * n + j = T + i * n + k
      PROVE  h = i /\ j = k
  <2>1. j = k
    BY <1>4, <1>5
  <2>2. h * n = i * n
    BY <1>1, <1>4, <1>5, <2>1
  <2>3. h = i
    BY <1>1, <2>2
  <2>4. QED BY <2>1, <2>3
<1>6. ALLOC_TAG(i, k) \notin Orders \cup {FRAME_FREE_PART}
  BY <1>1, <1>2, <1>4 DEF FRAME_FREE_PART
<1>7. QED
  BY <1>2, <1>4, <1>5, <1>6

-----------------------------------------------------------------------------
(* The invariant *)

\* A list holds the blocks that frame_array says are free, each once.
ListsOK ==
    \A k \in Orders : /\ IsInjective(free_list[k])
                      /\ Range(free_list[k]) = {i \in Pages : frame_array[i] = k}

\* A free block is aligned and in memory, and only its first page has its order.
HeadOK(fa, i) ==
    /\ Aligned(i, fa[i]) /\ Block(i, fa[i]) \subseteq Pages
    /\ \A p \in Block(i, fa[i]) \ {i} : fa[p] = FRAME_FREE_PART
HeadsOK == \A i \in Pages : frame_array[i] \in Orders => HeadOK(frame_array, i)

\* What is marked as part of a free block is one.
PartsOK ==
    \A p \in Pages : frame_array[p] = FRAME_FREE_PART =>
        \E i \in Pages : frame_array[i] \in Orders /\ p \in Block(i, frame_array[i])

\* No two buddies are free: they would have been merged.
BuddiesOK ==
    \A i \in Pages : frame_array[i] \in Orders /\ frame_array[i] < MAX_ORDER =>
        LET b == BuddyOf(i, frame_array[i]) IN b \in Pages => frame_array[b] # frame_array[i]

\* A held block is aligned, in memory and tagged, and its references counted.
HeldOK ==
    \A b \in held : /\ Aligned(b.start, b.order) /\ Block(b.start, b.order) \subseteq Pages \ Reserved
                    /\ \A p \in Block(b.start, b.order) : frame_array[p] = ALLOC_TAG(b.start, b.order)
                    /\ ref_count[b.start] = b.refs

\* Any other page is in one of these.
TagsOK ==
    \A p \in Pages : \/ frame_array[p] \in Orders \cup {FRAME_FREE_PART}
                     \/ p \in Reserved
                     \/ \E b \in held : p \in Block(b.start, b.order)
ReservedOK == \A i \in Reserved : frame_array[i] = ALLOC_TAG(i, 0)

IInv ==
    /\ TypeOK /\ ListsOK /\ HeadsOK /\ PartsOK /\ BuddiesOK /\ HeldOK /\ TagsOK /\ ReservedOK

LEMMA PageFacts ==
    /\ Pages \subseteq Nat /\ Reserved \subseteq Pages
    /\ Orders \subseteq 0..(MAX_ORDER + 1) /\ Orders \subseteq Nat /\ 0 \in Orders /\ MAX_ORDER \in Nat
    /\ FRAME_FREE_PART \notin Orders
  BY MemoryAssumption DEF Pages, Orders, FRAME_FREE_PART

\* Of two blocks that meet, the first page of one lies in the other.
LEMMA StartsMeet ==
    ASSUME NEW i \in Nat, NEW k \in Orders, NEW h \in Nat, NEW j \in Orders,
           NEW p \in Block(i, k), p \in Block(h, j)
    PROVE  h \in Block(i, k) \/ i \in Block(h, j)
<1> DEFINE a == 2^k
           b == 2^j
<1>1. a \in Nat /\ b \in Nat
  BY Powers, PageFacts
<1> HIDE DEF a, b
<1>2. p \in i..(i + a - 1) /\ p \in h..(h + b - 1)
  BY DEF Block, a, b
<1>3. h \in i..(i + a - 1) \/ i \in h..(h + b - 1)
  BY <1>1, <1>2
<1>4. QED
  BY <1>3 DEF Block, a, b

LEMMA HeadsApart ==
    ASSUME HeadsOK, NEW i \in Pages, NEW h \in Pages,
           frame_array[i] \in Orders, frame_array[h] \in Orders, i # h
    PROVE  Block(i, frame_array[i]) \cap Block(h, frame_array[h]) = {}
<1> SUFFICES ASSUME NEW p \in Block(i, frame_array[i]), p \in Block(h, frame_array[h])
             PROVE  FALSE
  OBVIOUS
<1>1. h \in Block(i, frame_array[i]) \/ i \in Block(h, frame_array[h])
  BY StartsMeet, PageFacts
<1>2. QED
  BY <1>1, PageFacts DEF HeadsOK, HeadOK

LEMMA BlockOfHeld ==
    ASSUME TypeOK, NEW b \in held
    PROVE  /\ b = [start |-> b.start, order |-> b.order, refs |-> b.refs]
           /\ b.start \in Pages /\ b.start \in Nat /\ b.order \in Orders
           /\ b.refs \in 1..MaxRefs /\ b.start \in Block(b.start, b.order)
<1>1. b \in [start : Pages, order : Orders, refs : 1..MaxRefs]
  BY DEF TypeOK
<1>2. /\ b = [start |-> b.start, order |-> b.order, refs |-> b.refs]
      /\ b.start \in Pages /\ b.order \in Orders /\ b.refs \in 1..MaxRefs
  BY <1>1
<1>3. QED
  BY <1>2, PageFacts, BlockFacts

LEMMA HeldApart ==
    ASSUME TypeOK, HeldOK, NEW b \in held, NEW c \in held,
           NEW p \in Block(b.start, b.order), p \in Block(c.start, c.order)
    PROVE  b = c
<1>1. ALLOC_TAG(b.start, b.order) = ALLOC_TAG(c.start, c.order)
  BY DEF HeldOK
<1>2. b.start = c.start /\ b.order = c.order
  BY <1>1, BlockOfHeld, TagFacts
<1>3. b.refs = c.refs
  BY <1>2 DEF HeldOK
<1>4. QED
  BY <1>2, <1>3, BlockOfHeld

\* What is free is neither reserved nor held.
LEMMA FreeIsNotTaken ==
    ASSUME TypeOK, HeldOK, ReservedOK, NEW p \in Pages,
           frame_array[p] \in Orders \cup {FRAME_FREE_PART}
    PROVE  p \notin Reserved /\ \A b \in held : p \notin Block(b.start, b.order)
<1>1. p \notin Reserved
  BY TagFacts, PageFacts DEF ReservedOK
<1>2. ASSUME NEW b \in held, p \in Block(b.start, b.order) PROVE FALSE
  <2>1. frame_array[p] = ALLOC_TAG(b.start, b.order)
    BY <1>2 DEF HeldOK
  <2>2. QED BY <2>1, BlockOfHeld, TagFacts
<1>3. QED
  BY <1>1, <1>2

LEMMA OnePlace == IInv => EveryPageHasOnePlace
<1> SUFFICES ASSUME IInv PROVE EveryPageHasOnePlace
  OBVIOUS
<1> DEFINE R == {[start |-> i, order |-> 0, kind |-> "reserved"] : i \in Reserved}
           H == {[start |-> b.start, order |-> b.order, kind |-> "held"] : b \in held}
           F == {[start |-> b.start, order |-> b.order, kind |-> "free"] : b \in FreeBlocks}
<1>1. /\ TypeOK /\ HeldOK /\ HeadsOK /\ PartsOK /\ TagsOK /\ ReservedOK
  BY DEF IInv
<1>2. FreeBlocks = {b \in [start : Pages, order : Orders] : frame_array[b.start] = b.order}
  BY DEF FreeBlocks, IInv, ListsOK
<1>3. ASSUME NEW c \in R, NEW i \in Block(c.start, c.order)
      PROVE  c = [start |-> i, order |-> 0, kind |-> "reserved"] /\ i \in Reserved
  <2>1. PICK r \in Reserved : c = [start |-> r, order |-> 0, kind |-> "reserved"]
    BY <1>3
  <2>2. i \in r..(r + 1 - 1) /\ r \in Nat
    BY <1>3, <2>1, PageFacts, PowersAssumption DEF Block
  <2>3. i = r
    BY <2>2
  <2>4. QED BY <2>1, <2>3
<1>4. ASSUME NEW c \in H, NEW i \in Pages, i \in Block(c.start, c.order)
      PROVE  /\ \E b \in held : c = [start |-> b.start, order |-> b.order, kind |-> "held"]
                                /\ i \in Block(b.start, b.order)
             /\ i \notin Reserved
  BY <1>1, <1>4 DEF HeldOK
<1>5. ASSUME NEW c \in F, NEW i \in Pages, i \in Block(c.start, c.order)
      PROVE  /\ c.start \in Pages /\ c.order \in Orders /\ frame_array[c.start] = c.order
             /\ c = [start |-> c.start, order |-> c.order, kind |-> "free"]
             /\ frame_array[i] \in Orders \cup {FRAME_FREE_PART}
  <2>1. PICK b \in FreeBlocks : c = [start |-> b.start, order |-> b.order, kind |-> "free"]
    BY <1>5
  <2>2. b.start \in Pages /\ b.order \in Orders /\ frame_array[b.start] = b.order
    BY <1>2
  <2>3. HeadOK(frame_array, b.start)
    BY <1>1, <2>2 DEF HeadsOK
  <2>4. frame_array[i] \in Orders \cup {FRAME_FREE_PART}
    BY <1>5, <2>1, <2>2, <2>3 DEF HeadOK
  <2>5. QED BY <2>1, <2>2, <2>4
<1>6. ASSUME NEW i \in Pages PROVE \E b \in R \cup H \cup F : i \in Block(b.start, b.order)
  <2>1. CASE i \in Reserved
    <3> DEFINE x == [start |-> i, order |-> 0, kind |-> "reserved"]
    <3>1. x \in R /\ x.start = i /\ x.order = 0
      BY <2>1
    <3>2. i \in Block(i, 0)
      BY BlockFacts, PageFacts
    <3> HIDE DEF x, R, H, F
    <3>3. QED BY <3>1, <3>2
  <2>2. ASSUME NEW b \in held, i \in Block(b.start, b.order)
        PROVE  \E c \in R \cup H \cup F : i \in Block(c.start, c.order)
    <3> DEFINE x == [start |-> b.start, order |-> b.order, kind |-> "held"]
    <3>1. x \in H /\ x.start = b.start /\ x.order = b.order
      OBVIOUS
    <3> HIDE DEF x, R, H, F
    <3>2. QED BY <2>2, <3>1
  <2>3. CASE frame_array[i] \in Orders \cup {FRAME_FREE_PART}
    <3>1. PICK h \in Pages : frame_array[h] \in Orders /\ i \in Block(h, frame_array[h])
      BY <1>1, <2>3, BlockFacts, PageFacts DEF PartsOK
    <3>2. [start |-> h, order |-> frame_array[h]] \in FreeBlocks
      BY <1>2, <3>1
    <3> DEFINE x == [start |-> h, order |-> frame_array[h], kind |-> "free"]
               y == [start |-> h, order |-> frame_array[h]]
    <3>3. y \in FreeBlocks /\ y.start = h /\ y.order = frame_array[h]
      BY <3>2
    <3>4. x = [start |-> y.start, order |-> y.order, kind |-> "free"]
      BY <3>3
    <3>5. x \in F /\ x.start = h /\ x.order = frame_array[h]
      BY <3>3, <3>4
    <3> HIDE DEF x, y, R, H, F
    <3>6. QED BY <3>1, <3>5
  <2>4. QED BY <1>1, <2>1, <2>2, <2>3 DEF TagsOK
<1>7. ASSUME NEW i \in Pages, NEW b \in R \cup H \cup F, NEW c \in R \cup H \cup F,
             i \in Block(b.start, b.order), i \in Block(c.start, c.order)
      PROVE  c = b
  <2>1. ASSUME NEW x \in R, NEW y \in R \cup H \cup F, i \in Block(x.start, x.order), i \in Block(y.start, y.order)
        PROVE  x = y
    <3>1. i \in Reserved
      BY <1>3, <2>1
    <3>2. y \notin H
      BY <1>4, <2>1, <3>1
    <3>3. y \notin F
      BY <1>1, <1>5, <2>1, <3>1, FreeIsNotTaken
    <3>4. QED BY <1>3, <2>1, <3>2, <3>3
  <2>2. ASSUME NEW x \in H, NEW y \in H \cup F, i \in Block(x.start, x.order), i \in Block(y.start, y.order)
        PROVE  x = y
    <3>1. PICK d \in held : /\ x = [start |-> d.start, order |-> d.order, kind |-> "held"]
                            /\ i \in Block(d.start, d.order)
      BY <1>4, <2>2
    <3>2. y \notin F
      BY <1>1, <1>5, <2>2, <3>1, FreeIsNotTaken
    <3>3. PICK e \in held : /\ y = [start |-> e.start, order |-> e.order, kind |-> "held"]
                            /\ i \in Block(e.start, e.order)
      BY <1>4, <2>2, <3>2
    <3>4. d = e
      BY <1>1, <3>1, <3>3, HeldApart
    <3>5. QED BY <3>1, <3>3, <3>4
  <2>3. ASSUME NEW x \in F, NEW y \in F, i \in Block(x.start, x.order), i \in Block(y.start, y.order)
        PROVE  x = y
    <3>1. x.start = y.start
      BY <1>1, <1>5, <2>3, HeadsApart
    <3>2. QED BY <1>5, <2>3, <3>1
  <2>4. QED BY <1>7, <2>1, <2>2, <2>3
<1> HIDE DEF R, H, F
<1>8. /\ TypeOK
      /\ \A i \in Pages : \E b \in R \cup H \cup F :
            /\ i \in Block(b.start, b.order)
            /\ \A c \in R \cup H \cup F : i \in Block(c.start, c.order) => c = b
  BY <1>1, <1>6, <1>7
<1>9. QED
  BY <1>8 DEF EveryPageHasOnePlace, R, H, F

-----------------------------------------------------------------------------
(* Steps *)

LEMMA OrderOfRequest ==
    ASSUME NEW n \in 1..(2^MAX_ORDER + 1)
    PROVE  /\ pages_to_order(n) \in 0..(MAX_ORDER + 1)
           /\ 2^pages_to_order(n) >= n
           /\ \A j \in 0..(pages_to_order(n) - 1) : 2^j < n
<1> DEFINE T == {k \in 0..(MAX_ORDER + 1) : 2^k >= n}
           Fit(k) == 2^k >= n /\ \A j \in 0..(k - 1) : 2^j < n
<1>1. MAX_ORDER \in Nat /\ MAX_ORDER \in Orders /\ MAX_ORDER + 1 \in 0..(MAX_ORDER + 1)
  BY MemoryAssumption DEF Orders
<1>2. \A k \in 0..(MAX_ORDER + 1) : 2^k \in Nat \ {0}
  BY Powers
<1>3. 2^(MAX_ORDER + 1) >= n
  <2>1. 2^MAX_ORDER \in Nat \ {0} /\ 2^(MAX_ORDER + 1) = 2 * 2^MAX_ORDER
    BY <1>1, Powers
  <2>2. QED BY <2>1
<1>4. T # {} /\ T \in SUBSET Nat
  BY <1>1, <1>3
<1>5. PICK k \in T : \A j \in T : k <= j
  BY <1>4, LeastNumber
<1>6. Fit(k)
  <2>1. \A j \in 0..(k - 1) : j \in 0..(MAX_ORDER + 1) /\ ~ (k <= j)
    BY <1>1, <1>5
  <2>2. \A j \in 0..(k - 1) : ~ (2^j >= n)
    BY <1>5, <2>1
  <2>3. QED BY <1>2, <1>5, <2>1, <2>2
<1> HIDE DEF T
<1>7. \E x \in 0..(MAX_ORDER + 1) : Fit(x)
  BY <1>5, <1>6 DEF T
<1>8. pages_to_order(n) = CHOOSE x \in 0..(MAX_ORDER + 1) : Fit(x)
  BY DEF pages_to_order
<1>9. pages_to_order(n) \in 0..(MAX_ORDER + 1) /\ Fit(pages_to_order(n))
  BY <1>7, <1>8
<1>10. QED
  BY <1>9

\* The block i of order k is taken and split down to order t.
Split(n, t, k, i) ==
    /\ t <= k /\ t = pages_to_order(n) /\ free_list[k] # <<>> /\ i = Head(free_list[k])
    /\ free_list' = [j \in Orders |->
            IF j = k THEN Tail(free_list[j])
            ELSE IF t <= j /\ j < k THEN block_push(free_list[j], i + 2^j)
            ELSE free_list[j]]
    /\ \A p \in Block(i, t) : frame_array'[p] = ALLOC_TAG(i, t)
    /\ \A j \in t..(k - 1) : frame_array'[i + 2^j] = j
    /\ \A p \in Block(i, k) \ Block(i, t) :
          (\A j \in t..(k - 1) : p # i + 2^j) => frame_array'[p] = FRAME_FREE_PART
    /\ \A p \in Pages \ Block(i, k) : frame_array'[p] = frame_array[p]
    /\ ref_count' = [p \in Pages |-> IF p \in Block(i, t) THEN 1 ELSE ref_count[p]]
    /\ held' = held \cup {[start |-> i, order |-> t, refs |-> 1]}
    /\ ret' = [pages |-> n, start |-> i]

\* The upper halves lie in the block, apart from what is handed out.
LEMMA Halves ==
    ASSUME NEW i \in Nat, NEW t \in Orders, NEW k \in t..MAX_ORDER, Aligned(i, k)
    PROVE  /\ Block(i, t) \subseteq Block(i, k)
           /\ \A j \in t..(k - 1) :
                /\ j \in Orders /\ i + 2^j \in Nat /\ Aligned(i + 2^j, j)
                /\ Block(i + 2^j, j) \subseteq Block(i, k)
                /\ Block(i + 2^j, j) \cap Block(i, t) = {}
                /\ i + 2^j \in Block(i + 2^j, j)
                /\ \A l \in t..(k - 1) : l # j => i + 2^l \notin Block(i + 2^j, j)
<1>1. k \in Orders /\ t \in Nat /\ \A j \in t..(k - 1) : j \in Orders /\ j < k /\ j + 1 \in Nat
  BY PageFacts DEF Orders
<1>2. Block(i, k) = Block(i, t) \cup UNION {Block(i + 2^j, j) : j \in t..(k - 1)}
  BY SplitBlock
<1>3. ASSUME NEW j \in t..(k - 1)
      PROVE  /\ j \in Orders /\ i + 2^j \in Nat /\ Aligned(i + 2^j, j)
             /\ Block(i + 2^j, j) \subseteq Block(i, k)
             /\ Block(i + 2^j, j) \cap Block(i, t) = {}
             /\ i + 2^j \in Block(i + 2^j, j)
             /\ \A l \in t..(k - 1) : l # j => i + 2^l \notin Block(i + 2^j, j)
  <2> DEFINE a == 2^j
             b == 2^t
  <2>1. /\ j \in Orders /\ j \in 0..(MAX_ORDER + 1) /\ k \in 0..(MAX_ORDER + 1)
        /\ t \in 0..(MAX_ORDER + 1) /\ j <= k /\ t <= j
    BY <1>1, PageFacts
  <2>2. a \in Nat \ {0} /\ b \in Nat \ {0} /\ b <= a
    BY <2>1, Powers, PowersDivide
  <2>3. Aligned(i + 2^j, j)
    BY <2>1, AlignedSmaller
  <2>4. i + 2^j \in Nat
    BY <2>2
  <2>5. i + 2^j \in Block(i + 2^j, j)
    BY <2>1, <2>4, BlockFacts
  <2>6. ASSUME NEW p \in Block(i + 2^j, j), p \in Block(i, t) PROVE FALSE
    <3>1. p \in (i + a)..(i + a + a - 1) /\ p \in i..(i + b - 1)
      BY <2>6 DEF Block
    <3> HIDE DEF a, b
    <3>2. QED BY <2>2, <3>1
  <2>7. ASSUME NEW l \in t..(k - 1), l # j, i + 2^l \in Block(i + 2^j, j) PROVE FALSE
    <3> DEFINE c == 2^l
    <3>1. i + c \in (i + a)..(i + a + a - 1)
      BY <2>7 DEF Block
    <3>2. l \in Orders /\ l \in 0..(MAX_ORDER + 1) /\ c \in Nat \ {0}
      BY <1>1, PageFacts, Powers
    <3>3. CASE l < j
      <4>1. c < a
        BY <2>1, <3>2, <3>3, PowersDivide
      <4> HIDE DEF a, c
      <4>2. QED BY <2>2, <3>1, <3>2, <4>1
    <3>4. CASE j < l
      <4>1. j + 1 \in 0..(MAX_ORDER + 1) /\ j + 1 <= l /\ 2^(j + 1) = 2 * a
        BY <2>1, <3>2, <3>4, Powers, PageFacts
      <4>2. j + 1 = l \/ j + 1 < l
        BY <2>1, <3>2, <4>1, PageFacts
      <4>3. 2 * a <= c
        <5>1. CASE j + 1 = l
          BY <2>2, <4>1, <5>1
        <5>2. CASE j + 1 < l
          <6>1. 2^(j + 1) < c
            BY <3>2, <4>1, <5>2, PowersDivide
          <6>2. QED BY <2>2, <3>2, <4>1, <6>1
        <5>3. QED BY <4>2, <5>1, <5>2
      <4> HIDE DEF a, c
      <4>4. QED BY <2>2, <3>1, <3>2, <4>3
    <3>5. QED BY <2>1, <2>7, <3>2, <3>3, <3>4, PageFacts
  <2>8. Block(i + 2^j, j) \subseteq Block(i, k)
    BY <1>2
  <2>9. QED BY <2>1, <2>3, <2>4, <2>5, <2>6, <2>7, <2>8
<1>4. QED
  BY <1>2, <1>3

LEMMA AllocSplits ==
    ASSUME IInv, NEW n \in 1..(2^MAX_ORDER + 1), buddy_alloc(n)
    PROVE  \/ /\ \A k \in Orders : pages_to_order(n) <= k => free_list[k] = <<>>
              /\ ret' = Null(n) /\ UNCHANGED <<frame_array, ref_count, free_list, held>>
           \/ /\ pages_to_order(n) \in Orders
              /\ \E k \in pages_to_order(n)..MAX_ORDER :
                   /\ Split(n, pages_to_order(n), k, Head(free_list[k]))
                   /\ frame_array' \in [Pages -> Int]
<1> DEFINE t == pages_to_order(n)
           lists == {k \in t..MAX_ORDER : free_list[k] # <<>>}
<1>1. t \in 0..(MAX_ORDER + 1) /\ MAX_ORDER \in Nat /\ TypeOK
  BY OrderOfRequest, PageFacts DEF IInv
<1>2. CASE lists = {}
  <2>1. ret' = Null(n) /\ UNCHANGED <<frame_array, ref_count, free_list, held>>
    BY <1>2 DEF buddy_alloc
  <2>2. \A k \in Orders : t <= k => k \in t..MAX_ORDER
    BY <1>1 DEF Orders
  <2>3. QED BY <1>2, <2>1, <2>2
<1>3. CASE lists # {}
  <2> DEFINE i(k) == Head(free_list[k])
             upper(k, j) == i(k) + 2^j
  <2>1. PICK k \in lists :
          /\ free_list' = [j \in Orders |->
                IF j = k THEN Tail(free_list[j])
                ELSE IF t <= j /\ j < k THEN block_push(free_list[j], upper(k, j))
                ELSE free_list[j]]
          /\ frame_array' = [p \in Pages |->
                IF p \in Block(i(k), t) THEN ALLOC_TAG(i(k), t)
                ELSE IF \E j \in t..(k - 1) : p = upper(k, j)
                     THEN CHOOSE j \in t..(k - 1) : p = upper(k, j)
                ELSE IF p \in Block(i(k), k) THEN FRAME_FREE_PART
                ELSE frame_array[p]]
          /\ ref_count' = [p \in Pages |-> IF p \in Block(i(k), t) THEN 1 ELSE ref_count[p]]
          /\ held' = held \cup {[start |-> i(k), order |-> t, refs |-> 1]}
          /\ ret' = [pages |-> n, start |-> i(k)]
    BY <1>3, Zenon DEF buddy_alloc
  <2>2. t \in Orders /\ k \in t..MAX_ORDER /\ k \in Orders /\ t <= k /\ free_list[k] # <<>>
    BY <1>1, <2>1 DEF Orders
  <2> DEFINE h == i(k)
  <2>3. h \in Pages /\ frame_array[h] = k
    <3>1. IsInjective(free_list[k]) /\ Range(free_list[k]) = {x \in Pages : frame_array[x] = k}
      BY <2>2 DEF IInv, ListsOK
    <3>2. free_list[k] \in Seq(Pages)
      BY <1>1, <2>2 DEF TypeOK
    <3>3. QED BY <2>2, <3>1, <3>2, HeadTail
  <2>4. h \in Nat /\ Aligned(h, k) /\ Block(h, k) \subseteq Pages
    BY <2>2, <2>3, PageFacts DEF IInv, HeadsOK, HeadOK
  <2> HIDE DEF h, t
  <2>5. /\ Block(h, t) \subseteq Block(h, k)
        /\ \A j \in t..(k - 1) :
              /\ j \in Orders /\ Block(h + 2^j, j) \subseteq Block(h, k)
              /\ h + 2^j \notin Block(h, t) /\ h + 2^j \in Block(h + 2^j, j)
              /\ \A l \in t..(k - 1) : l # j => h + 2^l \notin Block(h + 2^j, j)
    BY <2>2, <2>4, Halves
  <2> USE DEF h
  <2> HIDE DEF lists
  <2>6. ASSUME NEW j \in t..(k - 1)
        PROVE  frame_array'[h + 2^j] = j /\ h + 2^j \in Pages
    <3> DEFINE C == CHOOSE l \in t..(k - 1) : h + 2^j = upper(k, l)
    <3>1. h + 2^j \in Pages /\ h + 2^j \notin Block(h, t)
      BY <2>4, <2>5
    <3>2. \A l \in t..(k - 1) : h + 2^j = upper(k, l) => l = j
      BY <2>5
    <3>3. C \in t..(k - 1) /\ h + 2^j = upper(k, C)
      OBVIOUS
    <3>4. C = j
      BY <3>2, <3>3
    <3>5. frame_array'[h + 2^j] = C
      BY <2>1, <3>1
    <3>6. QED BY <3>1, <3>4, <3>5
  <2>7. \A p \in Block(h, t) : frame_array'[p] = ALLOC_TAG(h, t)
    BY <2>1, <2>4, <2>5
  <2>8. \A p \in Block(h, k) \ Block(h, t) :
          (\A j \in t..(k - 1) : p # h + 2^j) => frame_array'[p] = FRAME_FREE_PART
    BY <2>1, <2>4
  <2>9. \A p \in Pages \ Block(h, k) : frame_array'[p] = frame_array[p]
    BY <2>1, <2>5
  <2>10. Split(n, t, k, h)
    BY <2>1, <2>2, <2>6, <2>7, <2>8, <2>9 DEF Split, t
  <2>11. frame_array' \in [Pages -> Int]
    <3>1. ASSUME NEW p \in Pages PROVE frame_array'[p] \in Int
      <4>1. CASE p \in Pages \ Block(h, k)
        BY <1>1, <2>9, <4>1 DEF TypeOK
      <4>2. CASE p \in Block(h, t)
        <5> HIDE DEF h
        <5>1. ALLOC_TAG(h, t) \in Nat
          BY <2>2, <2>4, TagFacts
        <5>2. QED BY <2>7, <4>2, <5>1
      <4>3. ASSUME NEW j \in t..(k - 1), p = h + 2^j PROVE frame_array'[p] \in Int
        BY <2>5, <2>6, <4>3, PageFacts
      <4>4. CASE p \in Block(h, k) \ Block(h, t) /\ \A j \in t..(k - 1) : p # h + 2^j
        BY <2>8, <4>4 DEF FRAME_FREE_PART
      <4>5. QED BY <4>1, <4>2, <4>3, <4>4
    <3>2. QED BY <2>1, <3>1
  <2>12. QED BY <2>2, <2>10, <2>11 DEF t
<1>4. QED
  BY <1>2, <1>3

LEMMA SplitKeeps ==
    ASSUME IInv, NEW n \in Nat, NEW t \in Orders, NEW k \in t..MAX_ORDER, NEW i,
           Split(n, t, k, i), frame_array' \in [Pages -> Int]
    PROVE  IInv' /\ i \in Pages /\ frame_array[i] = k
<1> DEFINE new == [start |-> i, order |-> t, refs |-> 1]
           H == t..(k - 1)
<1>1. /\ TypeOK /\ ListsOK /\ HeadsOK /\ PartsOK /\ BuddiesOK /\ HeldOK /\ TagsOK /\ ReservedOK
      /\ frame_array \in [Pages -> Int] /\ ref_count \in [Pages -> Nat]
      /\ free_list \in [Orders -> Seq(Pages)]
      /\ k \in Orders /\ t \in Nat /\ k \in Nat /\ Pages \subseteq Nat
  BY PageFacts DEF IInv, TypeOK, Orders
<1>2. /\ i \in Pages /\ frame_array[i] = k /\ IsInjective(Tail(free_list[k]))
      /\ Tail(free_list[k]) \in Seq(Pages)
      /\ Range(Tail(free_list[k])) = {p \in Pages : frame_array[p] = k} \ {i}
  <2>1. IsInjective(free_list[k]) /\ Range(free_list[k]) = {x \in Pages : frame_array[x] = k}
    BY <1>1 DEF ListsOK
  <2>2. free_list[k] \in Seq(Pages) /\ free_list[k] # <<>> /\ i = Head(free_list[k])
    BY <1>1 DEF Split
  <2>3. QED BY <2>1, <2>2, HeadTail
<1>3. /\ i \in Nat /\ Aligned(i, k) /\ Block(i, k) \subseteq Pages
      /\ \A p \in Block(i, k) \ {i} : frame_array[p] = FRAME_FREE_PART
  BY <1>1, <1>2 DEF HeadsOK, HeadOK
<1>4. /\ Block(i, t) \subseteq Block(i, k) /\ i \in Block(i, t) /\ i \in Block(i, k)
      /\ Aligned(i, t)
  <2>1. Block(i, t) \subseteq Block(i, k)
    BY <1>3, Halves
  <2>2. t \in 0..(MAX_ORDER + 1) /\ k \in 0..(MAX_ORDER + 1) /\ t <= k
    BY <1>1, PageFacts
  <2>3. i \in Block(i, t) /\ i \in Block(i, k)
    BY <1>3, <2>2, BlockFacts
  <2>4. Aligned(i, t)
    BY <1>3, <2>2, AlignedSmaller
  <2>5. QED BY <2>1, <2>3, <2>4
<1>5. ASSUME NEW j \in H
      PROVE  /\ j \in Orders /\ i + 2^j \in Pages /\ Aligned(i + 2^j, j)
             /\ Block(i + 2^j, j) \subseteq Block(i, k)
             /\ i + 2^j \in Block(i, k) /\ i + 2^j # i
             /\ Block(i + 2^j, j) \cap Block(i, t) = {}
             /\ \A l \in H : l # j => i + 2^l \notin Block(i + 2^j, j)
             /\ \A l \in H : i + 2^l = i + 2^j => l = j
             /\ frame_array'[i + 2^j] = j /\ j < k /\ j # k
  <2>1. /\ j \in Orders /\ Aligned(i + 2^j, j)
        /\ Block(i + 2^j, j) \subseteq Block(i, k)
        /\ Block(i + 2^j, j) \cap Block(i, t) = {}
        /\ i + 2^j \in Block(i + 2^j, j)
        /\ \A l \in H : l # j => i + 2^l \notin Block(i + 2^j, j)
    BY <1>3, Halves
  <2>2. frame_array'[i + 2^j] = j
    BY DEF Split
  <2>3. j < k /\ j # k
    BY <1>1
  <2>4. QED BY <1>3, <1>4, <2>1, <2>2, <2>3
<1>6. ASSUME NEW p \in Block(i, k)
      PROVE  /\ frame_array[p] \in Orders \cup {FRAME_FREE_PART}
             /\ frame_array[p] \in Orders => p = i
             /\ \/ p \in Block(i, t) /\ frame_array'[p] = ALLOC_TAG(i, t)
                   /\ frame_array'[p] \notin Orders \cup {FRAME_FREE_PART}
                \/ p \notin Block(i, t) /\ \E j \in H : p = i + 2^j /\ frame_array'[p] = j
                \/ /\ p \notin Block(i, t) /\ frame_array'[p] = FRAME_FREE_PART
                   /\ \A j \in H : p # i + 2^j
  <2>1. frame_array[p] \in Orders \cup {FRAME_FREE_PART} /\ (frame_array[p] \in Orders => p = i)
    BY <1>1, <1>2, <1>3, PageFacts
  <2>2. CASE p \in Block(i, t)
    BY <1>3, <2>1, <2>2, TagFacts DEF Split
  <2>3. CASE p \notin Block(i, t) /\ \E j \in H : p = i + 2^j
    BY <1>5, <2>1, <2>3
  <2>4. CASE p \notin Block(i, t) /\ \A j \in H : p # i + 2^j
    BY <2>1, <2>4 DEF Split
  <2>5. QED BY <2>2, <2>3, <2>4
<1>7. \A p \in Pages \ Block(i, k) : frame_array'[p] = frame_array[p]
  BY DEF Split
<1>8. \A p \in Pages \ Block(i, k) : frame_array[p] \in Orders =>
          Block(p, frame_array[p]) \cap Block(i, k) = {}
  BY <1>1, <1>2, <1>4, HeadsApart
\* Who heads a free block now.
<1>9. \A p \in Pages : frame_array'[p] \in Orders <=>
          \/ p \in Pages \ Block(i, k) /\ frame_array[p] \in Orders
          \/ \E j \in H : p = i + 2^j
  BY <1>5, <1>6, <1>7, PageFacts
<1>10. TypeOK'
  <2>1. free_list' \in [Orders -> Seq(Pages)]
    <3>1. ASSUME NEW j \in Orders PROVE free_list'[j] \in Seq(Pages)
      <4>1. CASE j = k
        BY <1>1, <1>2, <4>1 DEF Split
      <4>2. CASE j # k /\ t <= j /\ j < k
        <5>1. j \in H
          BY <1>1, <4>2 DEF Orders
        <5>2. <<i + 2^j>> \o free_list[j] \in Seq(Pages)
          BY <1>1, <1>5, <5>1, PushFront
        <5>3. QED BY <4>2, <5>2 DEF Split, block_push
      <4>3. CASE j # k /\ ~ (t <= j /\ j < k)
        BY <1>1, <4>3 DEF Split
      <4>4. QED BY <4>1, <4>2, <4>3
    <3>2. free_list' = [j \in Orders |-> free_list'[j]]
      BY DEF Split
    <3>3. QED BY <3>1, <3>2
  <2>2. ref_count' \in [Pages -> Nat]
    BY <1>1 DEF Split
  <2>3. new \in [start : Pages, order : Orders, refs : 1..MaxRefs]
    BY <1>2, MemoryAssumption
  <2>4. held' \subseteq [start : Pages, order : Orders, refs : 1..MaxRefs]
    BY <1>1, <2>3 DEF Split, TypeOK
  <2>5. ret' \in [pages : Nat, start : Pages \cup {-1}]
    BY <1>2 DEF Split
  <2>6. QED BY <2>1, <2>2, <2>4, <2>5 DEF TypeOK
<1>11. ListsOK'
  <2> SUFFICES ASSUME NEW j \in Orders
               PROVE  /\ IsInjective(free_list'[j])
                      /\ Range(free_list'[j]) = {p \in Pages : frame_array'[p] = j}
    BY DEF ListsOK
  <2>1. /\ IsInjective(free_list[j]) /\ free_list[j] \in Seq(Pages)
        /\ Range(free_list[j]) = {p \in Pages : frame_array[p] = j}
    BY <1>1 DEF ListsOK
  <2>2. CASE j = k
    <3>1. free_list'[j] = Tail(free_list[k])
      BY <2>2 DEF Split
    <3>2. ASSUME NEW p \in Pages PROVE frame_array'[p] = k <=> frame_array[p] = k /\ p # i
      <4>1. CASE p \in Block(i, k)
        BY <1>1, <1>5, <1>6, <4>1, PageFacts
      <4>2. CASE p \notin Block(i, k)
        BY <1>4, <1>7, <4>2
      <4>3. QED BY <4>1, <4>2
    <3>3. QED BY <1>2, <2>2, <3>1, <3>2
  <2>3. CASE j # k /\ t <= j /\ j < k
    <3>1. j \in H
      BY <1>1, <2>3 DEF Orders
    <3>2. free_list'[j] = <<i + 2^j>> \o free_list[j]
      BY <2>3 DEF Split, block_push
    <3>3. i + 2^j \notin Range(free_list[j])
      BY <1>3, <1>5, <2>1, <3>1, PageFacts
    <3>4. /\ IsInjective(free_list'[j])
          /\ Range(free_list'[j]) = {i + 2^j} \cup Range(free_list[j])
      BY <1>5, <2>1, <3>1, <3>2, <3>3, PushFront
    <3>5. ASSUME NEW p \in Pages
          PROVE  frame_array'[p] = j <=> p = i + 2^j \/ frame_array[p] = j
      <4>1. CASE p \in Block(i, k)
        <5>1. frame_array[p] # j
          BY <1>2, <1>6, <2>3, <4>1
        <5>2. frame_array'[p] = j => p = i + 2^j
          BY <1>5, <1>6, <3>1, <4>1, PageFacts
        <5>3. QED BY <1>5, <3>1, <5>1, <5>2
      <4>2. CASE p \notin Block(i, k)
        BY <1>5, <1>7, <3>1, <4>2
      <4>3. QED BY <4>1, <4>2
    <3>6. QED BY <1>5, <2>1, <3>1, <3>4, <3>5
  <2>4. CASE j # k /\ ~ (t <= j /\ j < k)
    <3>1. free_list'[j] = free_list[j]
      BY <2>4 DEF Split
    <3>2. j \notin H
      BY <1>1, <2>4
    <3>3. ASSUME NEW p \in Pages PROVE frame_array'[p] = j <=> frame_array[p] = j
      <4>1. CASE p \in Block(i, k)
        <5>1. frame_array[p] # j
          BY <1>2, <1>6, <2>4, <4>1
        <5>2. frame_array'[p] # j
          BY <1>6, <3>2, <4>1, PageFacts
        <5>3. QED BY <5>1, <5>2
      <4>2. CASE p \notin Block(i, k)
        BY <1>7, <4>2
      <4>3. QED BY <4>1, <4>2
    <3>4. QED BY <2>1, <3>1, <3>3
  <2>5. QED BY <2>2, <2>3, <2>4
<1>12. HeadsOK'
  <2> SUFFICES ASSUME NEW h \in Pages, frame_array'[h] \in Orders
               PROVE  HeadOK(frame_array', h)
    BY DEF HeadsOK
  <2>1. CASE h \in Pages \ Block(i, k) /\ frame_array[h] \in Orders
    <3>1. HeadOK(frame_array, h) /\ frame_array'[h] = frame_array[h]
      BY <1>1, <1>7, <2>1 DEF HeadsOK
    <3>2. \A p \in Block(h, frame_array[h]) : p \in Pages \ Block(i, k)
      BY <1>8, <2>1, <3>1 DEF HeadOK
    <3>3. QED BY <1>7, <3>1, <3>2 DEF HeadOK
  <2>2. ASSUME NEW j \in H, h = i + 2^j PROVE HeadOK(frame_array', h)
    <3>1. frame_array'[h] = j /\ Aligned(h, j) /\ Block(h, j) \subseteq Pages
      BY <1>3, <1>5, <2>2
    <3>2. ASSUME NEW p \in Block(h, j) \ {h} PROVE frame_array'[p] = FRAME_FREE_PART
      <4>1. p \in Block(i, k) /\ p \notin Block(i, t) /\ \A l \in H : p # i + 2^l
        BY <1>5, <2>2, <3>2
      <4>2. QED BY <1>6, <4>1
    <3>3. QED BY <3>1, <3>2 DEF HeadOK
  <2>3. QED BY <1>9, <2>1, <2>2
<1>13. PartsOK'
  <2> SUFFICES ASSUME NEW p \in Pages, frame_array'[p] = FRAME_FREE_PART
               PROVE  \E h \in Pages : frame_array'[h] \in Orders /\ p \in Block(h, frame_array'[h])
    BY DEF PartsOK
  <2>1. CASE p \in Block(i, k)
    <3>1. p \notin Block(i, t)
      BY <1>6, <2>1, PageFacts
    <3>2. Block(i, k) = Block(i, t) \cup UNION {Block(i + 2^j, j) : j \in H}
      BY <1>3, SplitBlock
    <3>3. PICK j \in H : p \in Block(i + 2^j, j)
      BY <2>1, <3>1, <3>2
    <3>4. QED BY <1>5, <3>3
  <2>2. CASE p \notin Block(i, k)
    <3>1. frame_array[p] = FRAME_FREE_PART
      BY <1>7, <2>2
    <3>2. PICK h \in Pages : frame_array[h] \in Orders /\ p \in Block(h, frame_array[h])
      BY <1>1, <3>1 DEF PartsOK
    <3>3. h \notin Block(i, k)
      BY <1>2, <1>6, <2>2, <3>2
    <3>4. QED BY <1>7, <3>2, <3>3
  <2>3. QED BY <2>1, <2>2
<1>14. BuddiesOK'
  <2> SUFFICES ASSUME NEW h \in Pages, frame_array'[h] \in Orders, frame_array'[h] < MAX_ORDER,
                      BuddyOf(h, frame_array'[h]) \in Pages,
                      frame_array'[BuddyOf(h, frame_array'[h])] = frame_array'[h]
               PROVE  FALSE
    BY DEF BuddiesOK
  <2> DEFINE j == frame_array'[h]
             b == BuddyOf(h, j)
  <2>0. HeadOK(frame_array', h)
    BY <1>12 DEF HeadsOK
  <2>1. Aligned(h, j) /\ h \in Nat /\ BuddyOf(b, j) = h /\ b # h /\ b \in Pages /\ frame_array'[b] = j
    BY <1>1, <2>0, BuddyFacts DEF HeadOK
  \* An upper half's buddy is not free: it begins like the block itself.
  <2>2. ASSUME NEW x \in Pages, frame_array'[x] = j, j \in H, x = i + 2^j, BuddyOf(x, j) \in Pages
        PROVE  frame_array'[BuddyOf(x, j)] # j
    <3>1. j + 1 \in 0..(MAX_ORDER + 1) /\ k \in 0..(MAX_ORDER + 1) /\ j + 1 <= k /\ j \in 0..(MAX_ORDER + 1)
      <4>1. j \in Nat /\ j < k /\ k \in Nat /\ k <= MAX_ORDER /\ MAX_ORDER \in Nat
        BY <1>1, <2>2, PageFacts DEF Orders
      <4> HIDE DEF j
      <4>2. QED BY <4>1
    <3>2. Aligned(i, j + 1) /\ Aligned(i, j)
      BY <1>3, <3>1, AlignedSmaller
    <3>3. PICK s \in {i, BuddyOf(i, j)} :
            /\ Aligned(s, j + 1) /\ {i, BuddyOf(i, j)} = {s, s + 2^j}
            /\ Block(s, j + 1) = Block(i, j) \cup Block(BuddyOf(i, j), j)
      BY <1>3, <3>2, BuddyFacts
    <3>4. s \in Nat /\ i \in Block(i, j) /\ BuddyOf(BuddyOf(i, j), j) = i /\ BuddyOf(i, j) # i
      <4>1. i \in Nat /\ j \in Orders /\ Aligned(i, j)
        BY <1>3, <3>2
      <4>2. BuddyOf(i, j) \in Nat /\ BuddyOf(BuddyOf(i, j), j) = i /\ BuddyOf(i, j) # i
        BY <4>1, BuddyFacts
      <4>3. i \in Block(i, j)
        BY <3>1, <4>1, BlockFacts
      <4>4. s \in {i, BuddyOf(i, j)}
        BY <3>3
      <4>5. QED BY <4>1, <4>2, <4>3, <4>4
    <3>5. i \in Block(s, j + 1) /\ i \in Block(i, j + 1)
      BY <1>3, <3>1, <3>3, <3>4, BlockFacts
    <3>6. s = i
      BY <1>3, <3>1, <3>2, <3>3, <3>4, <3>5, BaseFacts
    <3>7. BuddyOf(i, j) = i + 2^j
      <4>1. BuddyOf(i, j) \in {s, s + 2^j}
        BY <3>3
      <4>2. QED BY <3>4, <3>6, <4>1
    <3>8. BuddyOf(x, j) = i
      BY <2>2, <3>4, <3>7
    <3>9. frame_array'[i] \notin Orders
      BY <1>4, <1>6
    <3>10. QED BY <3>8, <3>9
  <2>3. CASE \E l \in H : h = i + 2^l
    <3>1. j \in H /\ h = i + 2^j
      BY <1>5, <2>3
    <3>2. QED BY <2>1, <2>2, <3>1
  <2>4. CASE \E l \in H : b = i + 2^l
    <3>1. j \in H /\ b = i + 2^j
      BY <1>5, <2>1, <2>4
    <3>2. QED BY <2>1, <2>2, <3>1
  <2>5. CASE (\A l \in H : h # i + 2^l) /\ (\A l \in H : b # i + 2^l)
    <3>1. /\ h \in Pages \ Block(i, k) /\ b \in Pages \ Block(i, k)
      BY <1>9, <2>1, <2>5
    <3>2. frame_array[h] = j /\ frame_array[b] = j
      BY <1>7, <2>1, <3>1
    <3>3. QED BY <1>1, <2>1, <3>2 DEF BuddiesOK
  <2>6. QED BY <2>3, <2>4, <2>5
<1>15. \A b \in held : /\ Block(b.start, b.order) \cap Block(i, k) = {}
                       /\ b.start \notin Block(i, k) /\ b.start \in Pages
  BY <1>1, <1>3, <1>6, FreeIsNotTaken, BlockOfHeld
<1>16. HeldOK'
  <2> SUFFICES ASSUME NEW b \in held'
               PROVE  /\ Aligned(b.start, b.order)
                      /\ Block(b.start, b.order) \subseteq Pages \ Reserved
                      /\ \A p \in Block(b.start, b.order) : frame_array'[p] = ALLOC_TAG(b.start, b.order)
                      /\ ref_count'[b.start] = b.refs
    BY DEF HeldOK
  <2>1. ref_count' = [p \in Pages |-> IF p \in Block(i, t) THEN 1 ELSE ref_count[p]]
    BY DEF Split
  <2>2. CASE b \in held
    <3>1. /\ Aligned(b.start, b.order) /\ Block(b.start, b.order) \subseteq Pages \ Reserved
          /\ \A p \in Block(b.start, b.order) : frame_array[p] = ALLOC_TAG(b.start, b.order)
          /\ ref_count[b.start] = b.refs
      BY <1>1, <2>2 DEF HeldOK
    <3>2. \A p \in Block(b.start, b.order) : p \in Pages \ Block(i, k)
      BY <1>15, <2>2, <3>1
    <3>3. QED BY <1>4, <1>7, <1>15, <2>1, <2>2, <3>1, <3>2
  <2>3. CASE b = new
    <3>1. Block(i, t) \subseteq Pages \ Reserved
      BY <1>1, <1>3, <1>4, <1>6, FreeIsNotTaken
    <3>2. \A p \in Block(i, t) : frame_array'[p] = ALLOC_TAG(i, t)
      BY DEF Split
    <3>3. ref_count'[i] = 1
      BY <1>2, <1>4, <2>1
    <3>4. b.start = i /\ b.order = t /\ b.refs = 1
      BY <2>3
    <3>5. QED BY <1>4, <3>1, <3>2, <3>3, <3>4
  <2>4. QED BY <2>2, <2>3 DEF Split
<1>17. TagsOK'
  <2> SUFFICES ASSUME NEW p \in Pages
               PROVE  \/ frame_array'[p] \in Orders \cup {FRAME_FREE_PART}
                      \/ p \in Reserved
                      \/ \E b \in held' : p \in Block(b.start, b.order)
    BY DEF TagsOK
  <2>1. new \in held' /\ held \subseteq held' /\ new.start = i /\ new.order = t
    BY DEF Split
  <2>2. CASE p \in Block(i, k)
    BY <1>5, <1>6, <2>1, <2>2
  <2>3. CASE p \notin Block(i, k)
    BY <1>1, <1>7, <2>1, <2>3 DEF TagsOK
  <2>4. QED BY <2>2, <2>3
<1>18. ReservedOK'
  BY <1>1, <1>6, <1>7, PageFacts, FreeIsNotTaken DEF ReservedOK
<1>19. QED
  BY <1>2, <1>10, <1>11, <1>12, <1>13, <1>14, <1>16, <1>17, <1>18 DEF IInv

\* One reference more or less to a block that stays held.
LEMMA CountKeeps ==
    ASSUME IInv, NEW b \in held, NEW r \in 1..MaxRefs,
           ref_count' = [ref_count EXCEPT ![b.start] = r],
           held' = (held \ {b}) \cup {[b EXCEPT !.refs = r]},
           ret' = Void, UNCHANGED <<frame_array, free_list>>
    PROVE  IInv'
<1> DEFINE c == [b EXCEPT !.refs = r]
<1>1. /\ TypeOK /\ HeldOK /\ TagsOK
      /\ ref_count \in [Pages -> Nat]
  BY DEF IInv, TypeOK
<1>2. /\ b \in [start : Pages, order : Orders, refs : 1..MaxRefs]
      /\ b.start \in Pages /\ b.order \in Orders /\ b.start \in Block(b.start, b.order)
  BY <1>1, BlockOfHeld DEF TypeOK
<1>3. c.start = b.start /\ c.order = b.order /\ c.refs = r
  BY <1>2
<1>4. c \in [start : Pages, order : Orders, refs : 1..MaxRefs]
  BY <1>2
<1> HIDE DEF c
<1>5. held' = (held \ {b}) \cup {c}
  BY DEF c
<1>6. ref_count' \in [Pages -> Nat] /\ ref_count'[b.start] = r
      /\ \A p \in Pages : p # b.start => ref_count'[p] = ref_count[p]
  BY <1>1, <1>2
<1>7. TypeOK'
  <2>1. held' \subseteq [start : Pages, order : Orders, refs : 1..MaxRefs]
    BY <1>1, <1>4, <1>5 DEF TypeOK
  <2>2. Void \in [pages : Nat, start : Pages \cup {-1}]
    BY DEF Void
  <2>3. QED BY <1>1, <1>6, <2>1, <2>2 DEF TypeOK
<1>8. HeldOK'
  <2> SUFFICES ASSUME NEW d \in held'
               PROVE  /\ Aligned(d.start, d.order)
                      /\ Block(d.start, d.order) \subseteq Pages \ Reserved
                      /\ \A p \in Block(d.start, d.order) : frame_array'[p] = ALLOC_TAG(d.start, d.order)
                      /\ ref_count'[d.start] = d.refs
    BY DEF HeldOK
  <2>1. CASE d = c
    BY <1>1, <1>3, <1>6, <2>1 DEF HeldOK
  <2>2. CASE d \in held /\ d # b
    <3>1. d.start \in Pages /\ d.start \in Block(d.start, d.order)
      BY <1>1, <2>2, BlockOfHeld
    <3>2. d.start # b.start
      BY <1>1, <1>2, <2>2, <3>1, HeldApart
    <3>3. QED BY <1>1, <1>6, <2>2, <3>1, <3>2 DEF HeldOK
  <2>3. QED BY <1>5, <2>1, <2>2
<1>9. TagsOK'
  <2> SUFFICES ASSUME NEW p \in Pages, NEW d \in held, p \in Block(d.start, d.order)
               PROVE  \E e \in held' : p \in Block(e.start, e.order)
    BY <1>1 DEF TagsOK
  <2>1. CASE d = b
    BY <1>3, <1>5, <2>1
  <2>2. CASE d # b
    BY <1>5, <2>2
  <2>3. QED BY <2>1, <2>2
<1>10. QED
  BY <1>7, <1>8, <1>9 DEF IInv, ListsOK, HeadsOK, PartsOK, BuddiesOK, ReservedOK

LEMMA MetFacts ==
    ASSUME NEW i \in Nat, NEW j \in Orders
    PROVE  /\ Met(i, j) \in Nat /\ Aligned(Met(i, j), j)
           /\ Met(i, j) \in Block(Met(i, j), j)
<1>1. j \in 0..(MAX_ORDER + 1)
  BY PageFacts
<1>2. Base(i, j) \in Nat /\ Aligned(Base(i, j), j)
  BY <1>1, BaseFacts
<1>3. Met(i, j) \in Nat /\ Aligned(Met(i, j), j)
  BY <1>2, BuddyFacts DEF Met
<1>4. QED
  BY <1>1, <1>3, BlockFacts

\* Merging stops at some order: up to there every buddy is a free block.
LEMMA MergedFacts ==
    ASSUME NEW fa, NEW i \in Nat, NEW k \in Orders
    PROVE  LET m == Merged(fa, i, k)
           IN  /\ m \in k..MAX_ORDER
               /\ \A j \in k..(m - 1) : Met(i, j) < total_pages /\ fa[Met(i, j)] = j
               /\ m < MAX_ORDER => Met(i, m) >= total_pages \/ fa[Met(i, m)] # m
<1> DEFINE Goes(j) == Met(i, j) < total_pages /\ fa[Met(i, j)] = j
           Ends(m) == m < MAX_ORDER => Met(i, m) >= total_pages \/ fa[Met(i, m)] # m
           T == {m \in k..MAX_ORDER : m < MAX_ORDER => ~Goes(m)}
           Good(m) == (\A j \in k..(m - 1) : Goes(j)) /\ Ends(m)
<1>1. MAX_ORDER \in Nat /\ k \in 0..MAX_ORDER /\ total_pages \in Nat
  BY MemoryAssumption DEF Orders
<1>2. MAX_ORDER \in T /\ T \in SUBSET Nat
  BY <1>1
<1>3. PICK m \in T : \A j \in T : m <= j
  BY <1>2, LeastNumber
<1>4. \A j \in k..(m - 1) : Goes(j)
  <2> SUFFICES ASSUME NEW j \in k..(m - 1) PROVE Goes(j)
    OBVIOUS
  <2>1. j \in k..MAX_ORDER /\ j < MAX_ORDER /\ ~(m <= j)
    BY <1>1, <1>3
  <2>2. j \notin T
    BY <1>3, <2>1
  <2>3. QED BY <2>1, <2>2
<1>5. Ends(m)
  <2> SUFFICES ASSUME m < MAX_ORDER PROVE Met(i, m) >= total_pages \/ fa[Met(i, m)] # m
    OBVIOUS
  <2>1. m \in Orders /\ ~Goes(m)
    BY <1>1, <1>3 DEF Orders
  <2>2. Met(i, m) \in Nat
    BY <2>1, MetFacts
  <2>3. ~(Met(i, m) < total_pages) => Met(i, m) >= total_pages
    BY <1>1, <2>2
  <2>4. QED BY <2>1, <2>3
<1> HIDE DEF T
<1>6. \E x \in k..MAX_ORDER : Good(x)
  BY <1>3, <1>4, <1>5 DEF T
<1>7. Merged(fa, i, k) = CHOOSE x \in k..MAX_ORDER : Good(x)
  BY DEF Merged, Met
<1> HIDE DEF Good
<1>8. Merged(fa, i, k) \in k..MAX_ORDER /\ Good(Merged(fa, i, k))
  BY <1>6, <1>7
<1>9. QED
  BY <1>8 DEF Good

\* The last reference: the block goes back and is merged up to order m.
LEMMA LastFreeKeeps ==
    ASSUME IInv, NEW b \in held, b.refs = 1, buddy_free(b)
    PROVE  IInv' /\ held' = held \ {b}
<1> DEFINE i == b.start
           k == b.order
           marked == [p \in Pages |-> IF p \in Block(i, k) THEN FRAME_FREE_PART ELSE frame_array[p]]
           m == Merged(marked, i, k)
           s == Base(i, m)
           J == k..(m - 1)
           B == Block(s, m)
<1>1. /\ TypeOK /\ ListsOK /\ HeadsOK /\ PartsOK /\ BuddiesOK /\ HeldOK /\ TagsOK /\ ReservedOK
      /\ frame_array \in [Pages -> Int] /\ ref_count \in [Pages -> Nat]
      /\ free_list \in [Orders -> Seq(Pages)] /\ Pages \subseteq Nat
  BY PageFacts DEF IInv, TypeOK
<1>2. /\ i \in Pages /\ i \in Nat /\ k \in Orders /\ i \in Block(i, k)
  BY <1>1, BlockOfHeld
<1>3. /\ Aligned(i, k) /\ Block(i, k) \subseteq Pages \ Reserved
      /\ \A p \in Block(i, k) : frame_array[p] = ALLOC_TAG(i, k)
      /\ ref_count[i] = 1
  BY <1>1 DEF HeldOK
<1>4. GET_ALLOC_ORDER(frame_array[i]) = k
  BY <1>2, <1>3, TagFacts
<1>5. /\ m \in k..MAX_ORDER
      /\ \A j \in J : Met(i, j) < total_pages /\ marked[Met(i, j)] = j
      /\ m < MAX_ORDER => Met(i, m) >= total_pages \/ marked[Met(i, m)] # m
  <2> HIDE DEF marked, i, k
  <2>1. QED BY <1>2, MergedFacts
<1>6. /\ ref_count' = [ref_count EXCEPT ![i] = @ - 1]
      /\ frame_array' = [p \in Pages |-> IF p = s THEN m
                                         ELSE IF p \in B THEN FRAME_FREE_PART
                                         ELSE frame_array[p]]
      /\ free_list' = [j \in Orders |-> IF k <= j /\ j < m THEN block_pop(free_list[j], Met(i, j))
                                        ELSE IF j = m THEN block_push(free_list[j], s)
                                        ELSE free_list[j]]
      /\ held' = held \ {b} /\ ret' = Void
  <2>1. ref_count[i] - 1 <= 0
    BY <1>3
  <2>2. held' = (held \ {b}) \cup {}
    BY DEF buddy_free
  <2>3. QED BY <1>4, <2>1, <2>2 DEF buddy_free, Met
<1> HIDE DEF m
<1>7. /\ m \in Orders /\ m \in Nat /\ k \in Nat /\ k <= m /\ m <= MAX_ORDER
      /\ \A j \in J : j \in Orders /\ j < m /\ k <= j
      /\ m \in 0..(MAX_ORDER + 1)
  <2> HIDE DEF k
  <2>1. QED BY <1>2, <1>5, PageFacts DEF Orders
<1> HIDE DEF i, k
<1>8. s \in Nat /\ Aligned(s, m) /\ i \in B
  BY <1>2, <1>7, BaseFacts
<1>9. B = Block(i, k) \cup UNION {Block(Met(i, j), j) : j \in J}
  BY <1>2, <1>3, <1>5, MergedBlock
<1>10. ASSUME NEW j \in J
       PROVE  /\ Met(i, j) \in Pages /\ frame_array[Met(i, j)] = j /\ Met(i, j) \in B
              /\ Block(Met(i, j), j) \subseteq Pages
              /\ Block(Met(i, j), j) \subseteq B
              /\ \A p \in Block(Met(i, j), j) : p # Met(i, j) => frame_array[p] = FRAME_FREE_PART
  <2>1. j \in Orders /\ Met(i, j) \in Nat /\ Met(i, j) \in Block(Met(i, j), j)
    BY <1>2, <1>7, MetFacts
  <2>2. Met(i, j) \in Pages
    <3>1. Met(i, j) < total_pages
      BY <1>5
    <3>2. \A x \in Nat : x < total_pages => x \in Pages
      BY MemoryAssumption DEF Pages
    <3>3. QED BY <2>1, <3>1, <3>2
  <2>3. frame_array[Met(i, j)] = j
    BY <1>5, <2>1, <2>2, PageFacts
  <2>4. HeadOK(frame_array, Met(i, j))
    BY <1>1, <2>1, <2>2, <2>3 DEF HeadsOK
  <2>5. QED BY <1>9, <2>1, <2>2, <2>3, <2>4 DEF HeadOK
<1>11. B \subseteq Pages /\ s \in B /\ s \in Pages
  <2>1. s \in B
    BY <1>7, <1>8, BlockFacts
  <2>2. QED BY <1>3, <1>9, <1>10, <2>1
\* What the merged block was made of.
<1>12. ASSUME NEW p \in B
       PROVE  \/ p \in Block(i, k) /\ frame_array[p] = ALLOC_TAG(i, k)
              \/ \E j \in J : p = Met(i, j) /\ frame_array[p] = j
              \/ frame_array[p] = FRAME_FREE_PART
  <2>1. CASE p \in Block(i, k)
    BY <1>3, <2>1
  <2>2. CASE \E j \in J : p \in Block(Met(i, j), j)
    BY <1>10, <2>2
  <2>3. QED BY <1>9, <2>1, <2>2
<1>13. ALLOC_TAG(i, k) \notin Orders \cup {FRAME_FREE_PART}
  BY <1>2, TagFacts
<1>14. \A p \in B : frame_array[p] \in Orders =>
          \E j \in J : p = Met(i, j) /\ frame_array[p] = j
  BY <1>12, <1>13, PageFacts
<1> HIDE DEF s, B
<1>15. /\ \A p \in Pages \ B : frame_array'[p] = frame_array[p]
       /\ frame_array'[s] = m
       /\ \A p \in B : p # s => frame_array'[p] = FRAME_FREE_PART
       /\ frame_array' \in [Pages -> Int]
  <2>1. m \in Int /\ FRAME_FREE_PART \in Int
    BY <1>7 DEF FRAME_FREE_PART
  <2>2. QED BY <1>1, <1>6, <1>11, <2>1
<1>16. ASSUME NEW h \in Pages \ B, frame_array[h] \in Orders
       PROVE  Block(h, frame_array[h]) \cap B = {}
  <2> SUFFICES ASSUME NEW p \in B, p \in Block(h, frame_array[h]) PROVE FALSE
    OBVIOUS
  <2>1. frame_array[p] = FRAME_FREE_PART
    BY <1>1, <1>16 DEF HeadsOK, HeadOK
  <2>2. p \notin Block(i, k)
    BY <1>3, <1>13, <2>1
  <2>3. PICK j \in J : p \in Block(Met(i, j), j)
    BY <1>9, <2>2
  <2>4. Met(i, j) \in Pages /\ Met(i, j) # h /\ frame_array[Met(i, j)] = j /\ j \in Orders
    BY <1>7, <1>10, <1>16
  <2>5. Block(Met(i, j), j) \cap Block(h, frame_array[h]) = {}
    BY <1>1, <1>16, <2>4, HeadsApart
  <2>6. QED BY <2>3, <2>5
<1>17. \A p \in Pages : frame_array'[p] \in Orders <=>
          p = s \/ (p \in Pages \ B /\ frame_array[p] \in Orders)
  BY <1>7, <1>11, <1>15, PageFacts
<1>18. ListsOK' /\ free_list' \in [Orders -> Seq(Pages)]
  <2>1. ASSUME NEW j \in Orders
        PROVE  /\ free_list'[j] \in Seq(Pages)
               /\ IsInjective(free_list'[j])
               /\ Range(free_list'[j]) = {p \in Pages : frame_array'[p] = j}
    <3>1. /\ IsInjective(free_list[j]) /\ free_list[j] \in Seq(Pages)
          /\ Range(free_list[j]) = {p \in Pages : frame_array[p] = j}
      BY <1>1, <2>1 DEF ListsOK
    <3>2. CASE k <= j /\ j < m
      <4>1. j \in J
        BY <1>7, <3>2 DEF Orders
      <4> DEFINE q == free_list[j]
                 x == Met(i, j)
                 n == CHOOSE n \in DOMAIN q : q[n] = x
      <4>2. x \in Range(q) /\ x \in Pages /\ x \in B /\ frame_array[x] = j
        BY <1>10, <3>1, <4>1
      <4>3. n \in DOMAIN q /\ q[n] = x
        BY <4>2 DEF Range
      <4>4. DOMAIN q = 1..Len(q)
        BY <3>1, LenProperties
      <4>5. free_list'[j] = RemoveAt(q, n)
        BY <1>6, <2>1, <3>2 DEF block_pop
      <4> HIDE DEF n, q, x
      <4>6. /\ RemoveAt(q, n) \in Seq(Pages) /\ IsInjective(RemoveAt(q, n))
            /\ Range(RemoveAt(q, n)) = Range(q) \ {x}
        <5>1. q \in Seq(Pages) /\ IsInjective(q) /\ n \in 1..Len(q)
          BY <3>1, <4>3, <4>4 DEF q
        <5>2. QED BY <4>3, <5>1, TakeOut
      <4>7. ASSUME NEW p \in Pages
            PROVE  frame_array'[p] = j <=> frame_array[p] = j /\ p # x
        <5>1. CASE p \in B
          <6>1. frame_array[p] = j => p = x
            BY <1>14, <2>1, <5>1 DEF x
          <6>2. frame_array'[p] # j
            BY <1>7, <1>15, <2>1, <3>2, <5>1, PageFacts
          <6>3. QED BY <6>1, <6>2
        <5>2. CASE p \notin B
          BY <1>15, <4>2, <5>2
        <5>3. QED BY <5>1, <5>2
      <4>8. Range(q) = {p \in Pages : frame_array[p] = j}
        BY <3>1 DEF q
      <4>9. QED BY <4>5, <4>6, <4>7, <4>8
    <3>3. CASE j = m
      <4>1. ~(j < m) /\ free_list'[j] = <<s>> \o free_list[j]
        BY <1>6, <1>7, <2>1, <3>3 DEF block_push
      <4>2. \A p \in B : frame_array[p] # j
        <5> SUFFICES ASSUME NEW p \in B, frame_array[p] = j PROVE FALSE
          OBVIOUS
        <5>1. PICK l \in J : frame_array[p] = l
          BY <1>14, <2>1
        <5>2. l < m
          BY <1>7
        <5>3. QED BY <1>7, <3>3, <5>1, <5>2
      <4>3. s \notin Range(free_list[j])
        BY <1>11, <3>1, <4>2
      <4>4. /\ free_list'[j] \in Seq(Pages) /\ IsInjective(free_list'[j])
            /\ Range(free_list'[j]) = {s} \cup Range(free_list[j])
        BY <1>11, <3>1, <4>1, <4>3, PushFront
      <4>5. ASSUME NEW p \in Pages
            PROVE  frame_array'[p] = j <=> p = s \/ frame_array[p] = j
        <5>1. CASE p \in B
          BY <1>15, <2>1, <3>3, <4>2, <5>1, PageFacts
        <5>2. CASE p \notin B
          BY <1>11, <1>15, <5>2
        <5>3. QED BY <5>1, <5>2
      <4>6. QED BY <1>11, <3>1, <4>4, <4>5
    <3>4. CASE ~(k <= j /\ j < m) /\ j # m
      <4>1. free_list'[j] = free_list[j]
        BY <1>6, <2>1, <3>4
      <4>2. ASSUME NEW p \in Pages PROVE frame_array'[p] = j <=> frame_array[p] = j
        <5>1. CASE p \in B
          <6>1. frame_array[p] # j
            <7> SUFFICES ASSUME frame_array[p] = j PROVE FALSE
              OBVIOUS
            <7>1. PICK l \in J : frame_array[p] = l
              BY <1>14, <2>1, <5>1
            <7>2. QED BY <1>7, <3>4, <7>1
          <6>2. frame_array'[p] # j
            BY <1>15, <2>1, <3>4, <5>1, PageFacts
          <6>3. QED BY <6>1, <6>2
        <5>2. CASE p \notin B
          BY <1>15, <5>2
        <5>3. QED BY <5>1, <5>2
      <4>3. QED BY <3>1, <4>1, <4>2
    <3>5. QED BY <3>2, <3>3, <3>4
  <2>2. free_list' = [j \in Orders |-> free_list'[j]]
    BY <1>6
  <2>3. QED BY <2>1, <2>2 DEF ListsOK
<1>19. HeadsOK'
  <2> SUFFICES ASSUME NEW h \in Pages, frame_array'[h] \in Orders
               PROVE  HeadOK(frame_array', h)
    BY DEF HeadsOK
  <2>1. CASE h = s
    <3>1. frame_array'[h] = m /\ Aligned(h, m) /\ Block(h, m) = B
      BY <1>8, <1>15, <2>1 DEF B
    <3>2. QED BY <1>11, <1>15, <2>1, <3>1 DEF HeadOK
  <2>2. CASE h \in Pages \ B /\ frame_array[h] \in Orders
    <3>1. HeadOK(frame_array, h) /\ frame_array'[h] = frame_array[h]
      BY <1>1, <1>15, <2>2 DEF HeadsOK
    <3>2. \A p \in Block(h, frame_array[h]) : p \in Pages \ B
      BY <1>16, <2>2, <3>1 DEF HeadOK
    <3>3. QED BY <1>15, <3>1, <3>2 DEF HeadOK
  <2>3. QED BY <1>17, <2>1, <2>2
<1>20. PartsOK'
  <2> SUFFICES ASSUME NEW p \in Pages, frame_array'[p] = FRAME_FREE_PART
               PROVE  \E h \in Pages : frame_array'[h] \in Orders /\ p \in Block(h, frame_array'[h])
    BY DEF PartsOK
  <2>1. CASE p \in B
    BY <1>7, <1>11, <1>15, <2>1 DEF B
  <2>2. CASE p \notin B
    <3>1. frame_array[p] = FRAME_FREE_PART
      BY <1>15, <2>2
    <3>2. PICK h \in Pages : frame_array[h] \in Orders /\ p \in Block(h, frame_array[h])
      BY <1>1, <3>1 DEF PartsOK
    <3>3. h \notin B
      BY <1>10, <1>14, <2>2, <3>2
    <3>4. QED BY <1>15, <3>2, <3>3
  <2>3. QED BY <2>1, <2>2
<1>21. BuddiesOK'
  <2> SUFFICES ASSUME NEW h \in Pages, frame_array'[h] \in Orders, frame_array'[h] < MAX_ORDER,
                      BuddyOf(h, frame_array'[h]) \in Pages,
                      frame_array'[BuddyOf(h, frame_array'[h])] = frame_array'[h]
               PROVE  FALSE
    BY DEF BuddiesOK
  <2> DEFINE j == frame_array'[h]
             c == BuddyOf(h, j)
  <2>0. HeadOK(frame_array', h)
    BY <1>19 DEF HeadsOK
  <2>1. /\ Aligned(h, j) /\ h \in Nat /\ BuddyOf(c, j) = h /\ c # h /\ c \in Pages
        /\ frame_array'[c] = j /\ j \in Orders
    BY <1>1, <2>0, BuddyFacts DEF HeadOK
  <2> HIDE DEF j, c
  <2>2. m < MAX_ORDER => Met(i, m) \notin Pages \/ Met(i, m) \in B \/ frame_array[Met(i, m)] # m
    <3>1. CASE m < MAX_ORDER /\ Met(i, m) >= total_pages
      BY <3>1, MemoryAssumption DEF Pages
    <3>2. CASE m < MAX_ORDER /\ marked[Met(i, m)] # m /\ Met(i, m) \in Pages /\ Met(i, m) \notin B
      BY <1>9, <3>2
    <3>3. QED BY <1>5, <3>1, <3>2
  <2>3. Met(i, m) = BuddyOf(s, m)
    BY DEF Met, s
  <2>4. CASE h = s
    <3>1. j = m /\ c = Met(i, m) /\ m < MAX_ORDER
      BY <1>15, <2>3, <2>4 DEF j, c
    <3>2. c \notin B /\ frame_array[c] = m
      BY <1>15, <1>17, <2>1, <2>4, <3>1
    <3>3. QED BY <2>1, <2>2, <3>1, <3>2
  <2>5. CASE c = s
    <3>1. j = m /\ h = Met(i, m) /\ m < MAX_ORDER
      BY <1>15, <2>1, <2>3, <2>5 DEF j
    <3>2. h \notin B /\ frame_array[h] = m
      BY <1>15, <1>17, <2>1, <2>5, <3>1 DEF j
    <3>3. QED BY <2>2, <3>1, <3>2
  <2>6. CASE h # s /\ c # s
    <3>1. /\ h \in Pages \ B /\ frame_array[h] = j /\ c \in Pages \ B /\ frame_array[c] = j
      BY <1>15, <1>17, <2>1, <2>6 DEF j
    <3>2. j < MAX_ORDER /\ c = BuddyOf(h, j)
      BY DEF j, c
    <3>3. QED BY <1>1, <2>1, <3>1, <3>2 DEF BuddiesOK
  <2>7. QED BY <2>4, <2>5, <2>6
<1>22. \A d \in held : d # b => Block(d.start, d.order) \cap B = {}
  <2> SUFFICES ASSUME NEW d \in held, d # b, NEW p \in B, p \in Block(d.start, d.order)
               PROVE  FALSE
    OBVIOUS
  <2>1. p \notin Block(i, k)
    BY <1>1, HeldApart DEF i, k
  <2>2. frame_array[p] \in Orders \cup {FRAME_FREE_PART}
    BY <1>7, <1>12, <2>1
  <2>3. QED BY <1>1, <1>11, <2>2, FreeIsNotTaken
<1>23. TypeOK'
  <2>1. ref_count' \in [Pages -> Nat]
    BY <1>1, <1>2, <1>3, <1>6
  <2>2. held' \subseteq [start : Pages, order : Orders, refs : 1..MaxRefs]
    BY <1>1, <1>6 DEF TypeOK
  <2>3. ret' \in [pages : Nat, start : Pages \cup {-1}]
    BY <1>6 DEF Void
  <2>4. QED BY <1>15, <1>18, <2>1, <2>2, <2>3 DEF TypeOK
<1>24. HeldOK'
  <2> SUFFICES ASSUME NEW d \in held, d # b
               PROVE  /\ Aligned(d.start, d.order)
                      /\ Block(d.start, d.order) \subseteq Pages \ Reserved
                      /\ \A p \in Block(d.start, d.order) : frame_array'[p] = ALLOC_TAG(d.start, d.order)
                      /\ ref_count'[d.start] = d.refs
    BY <1>6 DEF HeldOK
  <2>1. /\ Aligned(d.start, d.order) /\ Block(d.start, d.order) \subseteq Pages \ Reserved
        /\ \A p \in Block(d.start, d.order) : frame_array[p] = ALLOC_TAG(d.start, d.order)
        /\ ref_count[d.start] = d.refs
    BY <1>1 DEF HeldOK
  <2>2. \A p \in Block(d.start, d.order) : p \in Pages \ B
    BY <1>22, <2>1
  <2>3. d.start \in Pages /\ d.start \in Block(d.start, d.order) /\ d.start # i
    BY <1>1, <1>8, <1>22, BlockOfHeld DEF B
  <2>4. ref_count'[d.start] = ref_count[d.start]
    BY <1>1, <1>6, <2>3
  <2>5. QED BY <1>15, <2>1, <2>2, <2>4
<1>25. TagsOK'
  <2> SUFFICES ASSUME NEW p \in Pages
               PROVE  \/ frame_array'[p] \in Orders \cup {FRAME_FREE_PART}
                      \/ p \in Reserved
                      \/ \E d \in held' : p \in Block(d.start, d.order)
    BY DEF TagsOK
  <2>1. CASE p \in B
    BY <1>7, <1>15, <2>1
  <2>2. CASE p \notin B
    <3>1. p \notin Block(b.start, b.order)
      BY <1>9, <2>2 DEF i, k
    <3>2. QED BY <1>1, <1>6, <1>15, <2>2, <3>1 DEF TagsOK
  <2>3. QED BY <2>1, <2>2
<1>26. ReservedOK'
  <2> SUFFICES ASSUME NEW r \in Reserved PROVE frame_array'[r] = ALLOC_TAG(r, 0)
    BY DEF ReservedOK
  <2>1. r \in Pages /\ frame_array[r] = ALLOC_TAG(r, 0)
    BY <1>1, PageFacts DEF ReservedOK
  <2>2. r \notin B
    <3> SUFFICES ASSUME r \in B PROVE FALSE
      OBVIOUS
    <3>1. frame_array[r] \in Orders \cup {FRAME_FREE_PART}
      BY <1>3, <1>7, <1>12
    <3>2. QED BY <1>1, <2>1, <3>1, FreeIsNotTaken
  <2>3. QED BY <1>15, <2>1, <2>2
<1>27. QED
  BY <1>6, <1>18, <1>19, <1>20, <1>21, <1>23, <1>24, <1>25, <1>26 DEF IInv

\* Every step keeps the invariant.
LEMMA StepKeeps == IInv /\ [Next]_vars => IInv'
<1> SUFFICES ASSUME IInv, [Next]_vars PROVE IInv'
  OBVIOUS
<1>1. TypeOK
  BY DEF IInv
<1>2. ASSUME NEW n \in 1..(2^MAX_ORDER + 1), buddy_alloc(n) PROVE IInv'
  <2>1. n \in Nat
    BY Powers, PageFacts
  <2>2. CASE ret' = Null(n) /\ UNCHANGED <<frame_array, ref_count, free_list, held>>
    <3>1. Null(n) \in [pages : Nat, start : Pages \cup {-1}]
      BY <2>1 DEF Null
    <3>2. QED
      BY <2>2, <3>1 DEF IInv, TypeOK, ListsOK, HeadsOK, PartsOK, BuddiesOK, HeldOK, TagsOK, ReservedOK
  <2>3. ASSUME pages_to_order(n) \in Orders, NEW k \in pages_to_order(n)..MAX_ORDER,
               Split(n, pages_to_order(n), k, Head(free_list[k])), frame_array' \in [Pages -> Int]
        PROVE  IInv'
    BY <2>1, <2>3, SplitKeeps
  <2>4. QED BY <1>2, <2>2, <2>3, AllocSplits
<1>3. ASSUME NEW b \in held, buddy_free(b) PROVE IInv'
  <2>1. b.refs \in 1..MaxRefs /\ ref_count[b.start] = b.refs
    BY <1>1, BlockOfHeld DEF IInv, HeldOK
  <2>2. CASE b.refs = 1
    BY <1>3, <2>2, LastFreeKeeps
  <2>3. CASE b.refs # 1
    <3>1. MaxRefs \in Nat
      BY MemoryAssumption
    <3>2. b.refs - 1 \in 1..MaxRefs /\ ~(ref_count[b.start] - 1 <= 0)
      BY <2>1, <2>3, <3>1
    <3>3. /\ ref_count' = [ref_count EXCEPT ![b.start] = b.refs - 1]
          /\ held' = (held \ {b}) \cup {[b EXCEPT !.refs = b.refs - 1]}
          /\ ret' = Void /\ UNCHANGED <<frame_array, free_list>>
      BY <1>3, <2>1, <2>3, <3>2 DEF buddy_free
    <3>4. QED BY <3>2, <3>3, CountKeeps
  <2>4. QED BY <2>2, <2>3
<1>4. ASSUME NEW b \in held, get_page_ref(b) PROVE IInv'
  <2>1. b.refs \in 1..MaxRefs /\ ref_count[b.start] = b.refs
    BY <1>1, BlockOfHeld DEF IInv, HeldOK
  <2>2. MaxRefs \in Nat /\ b.refs + 1 \in 1..MaxRefs
    BY <1>4, <2>1, MemoryAssumption DEF get_page_ref
  <2>3. /\ ref_count' = [ref_count EXCEPT ![b.start] = b.refs + 1]
        /\ held' = (held \ {b}) \cup {[b EXCEPT !.refs = b.refs + 1]}
        /\ ret' = Void /\ UNCHANGED <<frame_array, free_list>>
    BY <1>4, <2>1 DEF get_page_ref
  <2>4. QED BY <2>2, <2>3, CountKeeps
<1>5. CASE UNCHANGED vars
  BY <1>5 DEF IInv, TypeOK, ListsOK, HeadsOK, PartsOK, BuddiesOK, HeldOK, TagsOK, ReservedOK, vars
<1>6. QED
  BY <1>2, <1>3, <1>4, <1>5 DEF Next

-----------------------------------------------------------------------------
(* The initial state *)

LEMMA LargestFacts ==
    ASSUME NEW i \in Pages \ Reserved
    PROVE  /\ LargestAt(i) \in Orders /\ Aligned(i, LargestAt(i))
           /\ Block(i, LargestAt(i)) \subseteq Pages \ Reserved
           /\ \A j \in Orders : Aligned(i, j) /\ Block(i, j) \subseteq Pages \ Reserved
                                => j <= LargestAt(i)
<1> DEFINE Fits(k) == i % 2^k = 0 /\ Block(i, k) \subseteq Pages \ Reserved
           T == {k \in Orders : Fits(k)}
           Best(k) == Fits(k) /\ \A j \in (k + 1)..MAX_ORDER : ~Fits(j)
<1>1. i \in Nat /\ MAX_ORDER \in Nat /\ Orders = 0..MAX_ORDER
  BY PageFacts DEF Orders
<1>2. \A k \in Orders : i % 2^k = 0 <=> Aligned(i, k)
  <2>1. ASSUME NEW k \in Orders PROVE i % 2^k = 0 <=> Aligned(i, k)
    <3> DEFINE n == 2^k
    <3>1. n \in Nat \ {0}
      BY Powers, PageFacts
    <3> HIDE DEF n
    <3>2. i % n = 0 <=> Multiple(i, n)
      BY <1>1, <3>1, Division
    <3>3. QED BY <3>2 DEF Aligned, n
  <2>2. QED BY <2>1
<1>3. 0 \in T
  <2>1. i % 1 = 0 /\ i..(i + 1 - 1) = {i}
    BY <1>1
  <2>2. i % 2^0 = 0 /\ Block(i, 0) = {i}
    BY <2>1, PowersAssumption DEF Block
  <2>3. QED BY <1>1, <2>2
<1> HIDE DEF Fits
<1>4. PICK k \in T : \A j \in T : j <= k
  <2> DEFINE U == {MAX_ORDER - j : j \in T}
  <2>1. U \in SUBSET Nat /\ U # {}
    BY <1>1, <1>3
  <2>2. PICK u \in U : \A v \in U : u <= v
    BY <2>1, LeastNumber
  <2>3. PICK k \in T : u = MAX_ORDER - k
    BY <2>2
  <2>4. \A j \in T : MAX_ORDER - k <= MAX_ORDER - j
    BY <2>2, <2>3
  <2>5. \A j \in T : j <= k
    BY <1>1, <2>4
  <2>6. QED BY <2>5
<1>5. Best(k)
  BY <1>1, <1>4
<1>6. LargestAt(i) = CHOOSE x \in Orders : Best(x)
  BY DEF LargestAt, Fits
<1>7. LargestAt(i) \in Orders /\ Best(LargestAt(i))
  BY <1>4, <1>5, <1>6
<1>8. ASSUME NEW j \in Orders, Fits(j) PROVE j <= LargestAt(i)
  BY <1>1, <1>7, <1>8
<1>9. QED
  BY <1>2, <1>7, <1>8 DEF Fits

\* buddy_init's walk: the heads found from page i on.
Walk(f) ==
    [i \in Nat |-> IF i >= total_pages THEN {}
                   ELSE IF i \in Reserved THEN f[i + 1]
                   ELSE {i} \cup f[i + 2^LargestAt(i)]]

LEMMA WalkExists == \E f : f = Walk(f)
<1> DEFINE From(m) == {i \in Nat : m <= i}
           next(i) == i + 2^LargestAt(i)
           Step(g, i) == IF i >= total_pages THEN {}
                         ELSE IF i \in Reserved THEN g[i + 1]
                         ELSE {i} \cup g[next(i)]
           Good(m) == \E g : g = [i \in From(m) |-> Step(g, i)]
           T == {m \in Nat : Good(m)}
<1>1. total_pages \in Nat /\ Pages = 0..(total_pages - 1)
  BY MemoryAssumption DEF Pages
<1>2. ASSUME NEW i \in Nat, i < total_pages, i \notin Reserved
      PROVE  next(i) \in Nat /\ next(i) > i
  <2>1. i \in Pages \ Reserved
    BY <1>1, <1>2
  <2>2. 2^LargestAt(i) \in Nat \ {0}
    BY <2>1, LargestFacts, Powers, PageFacts
  <2>3. QED BY <2>2
<1> HIDE DEF next
<1>3. total_pages \in T
  <2> DEFINE g == [i \in From(total_pages) |-> {}]
  <2>1. g = [i \in From(total_pages) |-> Step(g, i)]
    OBVIOUS
  <2>2. QED BY <1>1, <2>1
<1>4. PICK m \in T : \A x \in T : m <= x
  <2>1. T \in SUBSET Nat /\ T # {}
    BY <1>3
  <2> HIDE DEF T
  <2>2. QED BY <2>1, LeastNumber
<1>5. m = 0
  <2> SUFFICES ASSUME m # 0 PROVE FALSE
    OBVIOUS
  <2>1. m - 1 \in Nat /\ m <= total_pages /\ m - 1 < total_pages /\ ~ (m <= m - 1)
    <3> HIDE DEF Good
    <3>1. m \in Nat /\ m <= total_pages
      BY <1>3, <1>4
    <3>2. QED BY <1>1, <3>1
  <2>2. PICK g : g = [i \in From(m) |-> Step(g, i)]
    BY <1>4
  <2> DEFINE h == [i \in From(m - 1) |-> IF i = m - 1 THEN Step(g, i) ELSE g[i]]
  <2>3. \A i \in From(m) : i \in From(m - 1) /\ i # m - 1 /\ h[i] = g[i]
    BY <2>1
  <2>4. \A i \in From(m - 1) : i + 1 \in From(m)
    BY <2>1
  <2>5. \A i \in From(m - 1) : i < total_pages /\ i \notin Reserved => next(i) \in From(m)
    BY <1>2, <2>1
  <2> HIDE DEF h
  <2>6. ASSUME NEW i \in From(m - 1) PROVE Step(h, i) = Step(g, i)
    <3> HIDE DEF From
    <3>1. h[i + 1] = g[i + 1]
      BY <2>3, <2>4
    <3>2. i < total_pages /\ i \notin Reserved => h[next(i)] = g[next(i)]
      BY <2>3, <2>5
    <3>3. i \in Nat
      BY DEF From
    <3>4. ~(i >= total_pages) => i < total_pages
      BY <1>1, <3>3
    <3>5. QED BY <3>1, <3>2, <3>4
  <2>7. \A i \in From(m - 1) : i # m - 1 => i \in From(m)
    BY <2>1
  <2>8. \A i \in From(m - 1) : h[i] = Step(g, i)
    <3> HIDE DEF Step, From
    <3>1. QED BY <2>2, <2>7 DEF h
  <2>9. h = [i \in From(m - 1) |-> h[i]]
    BY DEF h
  <2>10. h = [i \in From(m - 1) |-> Step(h, i)]
    <3> HIDE DEF Step, From
    <3>1. QED BY <2>6, <2>8, <2>9
  <2>11. m - 1 \in T
    BY <2>1, <2>10
  <2>12. QED BY <1>4, <2>1, <2>11
<1>6. PICK g : g = [i \in From(0) |-> Step(g, i)]
  BY <1>4, <1>5
<1>7. From(0) = Nat
  OBVIOUS
<1>8. g = Walk(g)
  <2> HIDE DEF From
  <2>1. g = [i \in Nat |-> Step(g, i)]
    BY <1>6, <1>7
  <2>2. QED BY <2>1 DEF Walk, next
<1>9. QED
  BY <1>8

\* From page i on the walk finds blocks that do not meet and that hold every
\* page that is not reserved.
Tiles(H, i) ==
    /\ H \subseteq Pages \ Reserved /\ \A h \in H : i <= h
    /\ \A p \in Pages \ Reserved : i <= p => \E h \in H : p \in Block(h, LargestAt(h))
    /\ \A h, g \in H : h < g => h + 2^LargestAt(h) <= g

LEMMA WalkTiles ==
    ASSUME NEW f, f = Walk(f)
    PROVE  Tiles(f[0], 0)
<1> DEFINE Bad == {i \in Nat : ~Tiles(f[i], i)}
           D == {total_pages - i : i \in Bad}
<1> SUFFICES ASSUME Bad # {} PROVE FALSE
  OBVIOUS
<1>1. total_pages \in Nat /\ Pages = 0..(total_pages - 1) /\ Reserved \subseteq Pages
  BY MemoryAssumption, PageFacts DEF Pages
<1>2. \A i \in Nat : /\ i >= total_pages => f[i] = {}
                     /\ i < total_pages /\ i \in Reserved => f[i] = f[i + 1]
                     /\ i < total_pages /\ i \notin Reserved => f[i] = {i} \cup f[i + 2^LargestAt(i)]
  <2> SUFFICES ASSUME NEW i \in Nat
               PROVE  /\ i >= total_pages => f[i] = {}
                      /\ i < total_pages /\ i \in Reserved => f[i] = f[i + 1]
                      /\ i < total_pages /\ i \notin Reserved => f[i] = {i} \cup f[i + 2^LargestAt(i)]
    OBVIOUS
  <2>1. f[i] = IF i >= total_pages THEN {}
               ELSE IF i \in Reserved THEN f[i + 1]
               ELSE {i} \cup f[i + 2^LargestAt(i)]
    BY Zenon DEF Walk
  <2>2. i < total_pages => ~(i >= total_pages)
    BY <1>1
  <2>3. QED BY <2>1, <2>2
<1>3. \A i \in Bad : i < total_pages
  <2> SUFFICES ASSUME NEW i \in Nat, i >= total_pages PROVE Tiles(f[i], i)
    BY <1>1
  <2>1. f[i] = {} /\ \A p \in Pages : ~(i <= p)
    BY <1>1, <1>2
  <2>2. QED BY <2>1 DEF Tiles
<1>4. PICK i \in Bad : \A j \in Bad : j <= i
  <2> HIDE DEF Bad
  <2>1. Bad \subseteq Nat
    BY DEF Bad
  <2>2. D \in SUBSET Nat /\ D # {}
    <3>1. \A i \in Bad : total_pages - i \in Nat
      BY <1>1, <1>3, <2>1
    <3>2. QED BY <3>1
  <2>3. PICK d \in D : \A e \in D : d <= e
    BY <2>2, LeastNumber
  <2>4. PICK i \in Bad : d = total_pages - i
    BY <2>3
  <2>5. \A j \in Bad : total_pages - i <= total_pages - j
    BY <2>3, <2>4
  <2>6. \A j \in Bad : j <= i
    BY <1>1, <2>1, <2>5
  <2>7. QED BY <2>6
<1>5. i \in Nat /\ i < total_pages /\ i \in Pages
  BY <1>1, <1>3, <1>4
<1>6. ASSUME NEW j \in Nat, j > i PROVE Tiles(f[j], j)
  <2>1. ~(j <= i)
    BY <1>5, <1>6
  <2>2. QED BY <1>4, <2>1
<1>7. CASE i \in Reserved
  <2>1. f[i] = f[i + 1] /\ Tiles(f[i + 1], i + 1)
    BY <1>2, <1>5, <1>6, <1>7
  <2>2. \A h \in f[i] : i <= h
    BY <1>1, <1>5, <2>1 DEF Tiles
  <2>3. \A p \in Pages \ Reserved : i <= p => i + 1 <= p
    BY <1>1, <1>5, <1>7
  <2>4. Tiles(f[i], i)
    BY <2>1, <2>2, <2>3 DEF Tiles
  <2>5. QED BY <1>4, <2>4
<1>8. CASE i \notin Reserved
  <2> DEFINE n == 2^LargestAt(i)
             F == f[i + n]
  <2>1. n \in Nat \ {0} /\ Block(i, LargestAt(i)) = i..(i + n - 1)
    BY <1>5, <1>8, LargestFacts, Powers, PageFacts DEF Block
  <2>2. f[i] = {i} \cup F
    BY <1>2, <1>5, <1>8
  <2> HIDE DEF n
  <2>3. Tiles(F, i + n)
    BY <1>5, <1>6, <2>1
  <2> HIDE DEF F
  <2>4. F \subseteq Pages \ Reserved /\ \A h \in F : i + n <= h /\ h \in Nat
    BY <1>1, <2>3 DEF Tiles
  <2>5. \A h \in f[i] : i <= h
    <3>1. \A h \in Nat : i + n <= h => i <= h
      BY <1>5, <2>1
    <3>2. i <= i
      BY <1>5
    <3>3. QED BY <2>2, <2>4, <3>1, <3>2
  <2>6. \A h, g \in f[i] : h < g => h + 2^LargestAt(h) <= g
    <3>1. \A h, g \in F : h < g => h + 2^LargestAt(h) <= g
      BY <2>3 DEF Tiles
    <3>2. \A h \in F : ~ (h < i)
      BY <1>5, <2>1, <2>4
    <3>3. \A g \in F : i + 2^LargestAt(i) <= g
      BY <2>4 DEF n
    <3>4. ~ (i < i)
      BY <1>5
    <3>5. QED BY <2>2, <3>1, <3>2, <3>3, <3>4
  <2>7. ASSUME NEW p \in Pages \ Reserved, i <= p
        PROVE  \E h \in f[i] : p \in Block(h, LargestAt(h))
    <3>1. CASE i + n <= p
      BY <2>2, <2>3, <3>1 DEF Tiles
    <3>2. CASE ~(i + n <= p)
      <4>1. p \in i..(i + n - 1)
        BY <1>1, <1>5, <2>1, <2>7, <3>2
      <4>2. QED BY <2>1, <2>2, <4>1
    <3>3. QED BY <3>1, <3>2
  <2>8. Tiles(f[i], i)
    BY <1>5, <1>8, <2>2, <2>4, <2>5, <2>6, <2>7 DEF Tiles
  <2>9. QED BY <1>4, <2>8
<1>9. QED
  BY <1>7, <1>8

LEMMA InitialTiles == Tiles(InitialHeads, 0)
<1> DEFINE f == CHOOSE f : f = Walk(f)
<1>1. f = Walk(f)
  BY WalkExists
<1>2. InitialHeads = f[0]
  BY DEF InitialHeads, Walk
<1> HIDE DEF f
<1>3. QED
  BY <1>1, <1>2, WalkTiles

\* The order in which ascending pages end up in a list is one.
LEMMA PushedFacts ==
    ASSUME NEW S \in SUBSET Pages
    PROVE  Pushed(S) \in Seq(Pages) /\ IsInjective(Pushed(S)) /\ Range(Pushed(S)) = S
<1> DEFINE Desc(q, U) == /\ q \in [1..Cardinality(U) -> U] /\ Range(q) = U
                         /\ \A m, n \in 1..Cardinality(U) : m < n => q[m] > q[n]
           Good(m) == \A U \in SUBSET (0..(m - 1)) : \E q : Desc(q, U)
           T == {m \in Nat : ~Good(m)}
<1>1. total_pages \in Nat /\ Pages = 0..(total_pages - 1)
  BY MemoryAssumption DEF Pages
<1>2. T = {}
  <2> SUFFICES ASSUME T # {} PROVE FALSE
    OBVIOUS
  <2>1. PICK m \in T : \A x \in T : m <= x
    <3> HIDE DEF Good
    <3>1. T \in SUBSET Nat
      OBVIOUS
    <3> HIDE DEF T
    <3>2. QED BY <3>1, LeastNumber
  <2>2. PICK U \in SUBSET (0..(m - 1)) : ~ \E q : Desc(q, U)
    BY <2>1
  <2>3. m \in Nat
    BY <2>1
  <2>4. m # 0
    <3> SUFFICES ASSUME m = 0 PROVE FALSE
      OBVIOUS
    <3>1. 0..(m - 1) = {} /\ 1..0 = {}
      OBVIOUS
    <3>2. U = {}
      BY <2>2, <3>1
    <3>3. Cardinality(U) = 0
      BY <3>2, FS_EmptySet
    <3>4. Desc([n \in 1..0 |-> 0], U)
      BY <3>1, <3>2, <3>3 DEF Range
    <3>5. QED BY <2>2, <3>4
  <2>5. m - 1 \in Nat /\ ~(m <= m - 1)
    BY <2>3, <2>4
  <2>6. Good(m - 1)
    BY <2>1, <2>5
  <2> DEFINE last == m - 1
             V == U \ {last}
             c == Cardinality(V)
  <2>7. V \in SUBSET (0..((m - 1) - 1)) /\ last \in Nat
    BY <2>2, <2>5
  <2>8. PICK q : Desc(q, V)
    BY <2>6, <2>7
  <2>9. last \in U
    <3> SUFFICES ASSUME last \notin U PROVE FALSE
      OBVIOUS
    <3>1. V = U
      OBVIOUS
    <3>2. QED BY <2>2, <2>8, <3>1
  <2>10. IsFiniteSet(U) /\ c \in Nat /\ Cardinality(U) = c + 1
    <3>1. IsFiniteSet(0..(m - 1))
      BY <2>5, FS_Interval
    <3>2. IsFiniteSet(U)
      BY <2>2, <3>1, FS_Subset
    <3>3. IsFiniteSet(V) /\ c = Cardinality(U) - 1
      BY <2>9, <3>2, FS_RemoveElement
    <3>4. c \in Nat /\ Cardinality(U) \in Nat
      BY <3>2, <3>3, FS_CardinalityType
    <3>5. QED BY <3>2, <3>3, <3>4
  <2>11. q \in [1..c -> V] /\ Range(q) = V /\ \A x, n \in 1..c : x < n => q[x] > q[n]
    BY <2>8
  <2> HIDE DEF c, V, Good, T, Desc
  <2> DEFINE r == [n \in 1..(c + 1) |-> IF n = 1 THEN last ELSE q[n - 1]]
  <2>12. \A n \in 1..(c + 1) : n # 1 => n - 1 \in 1..c
    BY <2>10
  <2>13. \A n \in 1..c : n + 1 \in 1..(c + 1) /\ n + 1 # 1 /\ (n + 1) - 1 = n
    BY <2>10
  <2>14. U = V \cup {last} /\ \A v \in V : v \in Int /\ last > v
    BY <2>5, <2>7, <2>9 DEF V
  <2>15. r \in [1..(c + 1) -> U]
    BY <2>11, <2>12, <2>14
  <2>16. Range(r) = U
    <3>1. 1 \in 1..(c + 1) /\ r[1] = last
      BY <2>10
    <3>2. ASSUME NEW v \in V PROVE v \in Range(r)
      <4>1. PICK n \in 1..c : q[n] = v
        BY <2>11 DEF Range
      <4>2. r[n + 1] = v
        BY <2>13, <4>1
      <4>3. QED BY <2>13, <4>2 DEF Range
    <3>3. QED BY <2>14, <2>15, <3>1, <3>2 DEF Range
  <2>17. ASSUME NEW x \in 1..(c + 1), NEW n \in 1..(c + 1), x < n PROVE r[x] > r[n]
    <3>1. n # 1 /\ n - 1 \in 1..c /\ r[n] = q[n - 1]
      BY <2>10, <2>12, <2>17
    <3>2. CASE x = 1
      BY <2>11, <2>14, <3>1, <3>2
    <3>3. CASE x # 1
      <4>1. x - 1 \in 1..c /\ x - 1 < n - 1 /\ r[x] = q[x - 1]
        BY <2>12, <2>17, <3>3
      <4>2. QED BY <2>11, <3>1, <4>1
    <3>4. QED BY <3>2, <3>3
  <2> HIDE DEF r
  <2>18. Desc(r, U)
    BY <2>10, <2>15, <2>16, <2>17 DEF Desc
  <2>19. QED BY <2>2, <2>18
<1>3. \E q : Desc(q, S)
  BY <1>1, <1>2
<1> DEFINE P == Pushed(S)
<1>4. Desc(P, S)
  <2>1. \E q \in [1..Cardinality(S) -> S] : Desc(q, S)
    BY <1>3
  <2>2. P = CHOOSE q \in [1..Cardinality(S) -> S] :
               Range(q) = S /\ \A m, n \in 1..Cardinality(S) : m < n => q[m] > q[n]
    BY DEF Pushed
  <2>3. QED BY <2>1, <2>2
<1>5. Cardinality(S) \in Nat
  <2>1. IsFiniteSet(0..(total_pages - 1))
    BY <1>1, FS_Interval
  <2>2. QED BY <1>1, <2>1, FS_Subset, FS_CardinalityType
<1> HIDE DEF P
<1>6. P \in Seq(Pages)
  <2>1. P \in [1..Cardinality(S) -> Pages]
    BY <1>4
  <2>2. QED BY <1>5, <2>1, FunctionIsSeq
<1>7. IsInjective(P)
  <2>0. SUFFICES ASSUME NEW m \in 1..Cardinality(S), NEW n \in 1..Cardinality(S), P[m] = P[n]
                 PROVE  m = n
    BY <1>4 DEF IsInjective
  <2>1. P[m] \in Int /\ P[n] \in Int /\ ~(P[m] > P[n]) /\ ~(P[n] > P[m])
    <3>1. P[m] \in Pages /\ P[n] \in Pages
      BY <1>4
    <3>2. \A x \in Pages : x \in Int /\ ~(x > x)
      BY <1>1
    <3>3. QED BY <2>0, <3>1, <3>2
  <2>2. ~(m < n) /\ ~(n < m)
    BY <1>4, <2>1
  <2>3. QED BY <1>5, <2>2
<1>8. QED
  BY <1>4, <1>6, <1>7 DEF P

LEMMA InitKeeps == Init => IInv
<1> SUFFICES ASSUME Init PROVE IInv
  OBVIOUS
<1> DEFINE H == InitialHeads
           L(i) == LargestAt(i)
<1>1. /\ Pages \subseteq Nat /\ Reserved \subseteq Pages /\ FRAME_FREE_PART \notin Orders
      /\ 0 \in Orders /\ MAX_ORDER \in Nat /\ Orders \subseteq Nat
  BY PageFacts
<1>2. /\ H \subseteq Pages \ Reserved
      /\ \A p \in Pages \ Reserved : \E h \in H : p \in Block(h, L(h))
      /\ \A h, g \in H : h < g => h + 2^L(h) <= g
  BY <1>1, InitialTiles DEF Tiles
<1>3. /\ frame_array = [i \in Pages |-> IF i \in Reserved THEN ALLOC_TAG(i, 0)
                                        ELSE IF i \in H THEN L(i) ELSE FRAME_FREE_PART]
      /\ ref_count = [i \in Pages |-> IF i \in Reserved THEN 1 ELSE 0]
      /\ free_list = [k \in Orders |-> Pushed({i \in H : L(i) = k})]
      /\ held = {} /\ ret = Void
  BY DEF Init
<1> HIDE DEF H, L
<1>4. \A h \in H : /\ L(h) \in Orders /\ Aligned(h, L(h)) /\ Block(h, L(h)) \subseteq Pages \ Reserved
                   /\ \A j \in Orders : Aligned(h, j) /\ Block(h, j) \subseteq Pages \ Reserved
                                        => j <= L(h)
  BY <1>2, LargestFacts DEF L
<1>5. \A r \in Reserved : /\ frame_array[r] = ALLOC_TAG(r, 0) /\ ALLOC_TAG(r, 0) \in Nat
                          /\ frame_array[r] \notin Orders \cup {FRAME_FREE_PART}
  BY <1>1, <1>3, TagFacts
<1>6. /\ \A h \in H : frame_array[h] = L(h)
      /\ \A p \in Pages \ Reserved : p \notin H => frame_array[p] = FRAME_FREE_PART
  BY <1>2, <1>3
<1>7. \A p \in Pages : frame_array[p] \in Orders <=> p \in H
  BY <1>1, <1>2, <1>4, <1>5, <1>6
<1>8. ASSUME NEW k \in Orders
      PROVE  /\ free_list[k] \in Seq(Pages) /\ IsInjective(free_list[k])
             /\ Range(free_list[k]) = {i \in Pages : frame_array[i] = k}
  <2> DEFINE S == {i \in H : L(i) = k}
  <2>1. S \in SUBSET Pages
    BY <1>2
  <2>2. S = {i \in Pages : frame_array[i] = k}
    BY <1>2, <1>6, <1>7
  <2>3. free_list[k] = Pushed(S)
    BY <1>3
  <2> HIDE DEF S
  <2>4. QED BY <2>1, <2>2, <2>3, PushedFacts
<1>9. TypeOK
  <2>1. \A p \in Pages : frame_array[p] \in Int
    <3>1. \A k \in Orders : k \in Int
      BY <1>1
    <3>2. FRAME_FREE_PART \in Int
      BY DEF FRAME_FREE_PART
    <3>3. \A h \in H : frame_array[h] \in Int
      BY <1>4, <1>6, <3>1
    <3>4. \A q \in Reserved : frame_array[q] \in Int
      BY <1>5
    <3>5. QED BY <1>6, <3>2, <3>3, <3>4
  <2>2. frame_array \in [Pages -> Int]
    BY <1>3, <2>1
  <2>3. ref_count \in [Pages -> Nat]
    BY <1>3
  <2>4. free_list \in [Orders -> Seq(Pages)]
    BY <1>3, <1>8
  <2>5. ret \in [pages : Nat, start : Pages \cup {-1}]
    BY <1>3 DEF Void
  <2>6. QED BY <1>3, <2>2, <2>3, <2>4, <2>5 DEF TypeOK
<1>10. ListsOK
  BY <1>8 DEF ListsOK
<1>11. HeadsOK
  <2> SUFFICES ASSUME NEW h \in H, NEW p \in Block(h, L(h)), p # h, p \in H
               PROVE  FALSE
    BY <1>2, <1>4, <1>6, <1>7 DEF HeadsOK, HeadOK
  <2> DEFINE n == 2^L(h)
  <2>1. n \in Nat \ {0} /\ p \in h..(h + n - 1) /\ h \in Nat
    BY <1>1, <1>2, <1>4, Powers, PageFacts DEF Block
  <2>2. ~ (h + n <= p) /\ h < p
    BY <2>1
  <2>3. QED BY <1>2, <2>2
<1>12. PartsOK
  <2> SUFFICES ASSUME NEW p \in Pages, frame_array[p] = FRAME_FREE_PART
               PROVE  \E i \in Pages : frame_array[i] \in Orders /\ p \in Block(i, frame_array[i])
    BY DEF PartsOK
  <2>1. p \notin Reserved
    BY <1>5
  <2>2. PICK h \in H : p \in Block(h, L(h))
    BY <1>2, <2>1
  <2>3. QED BY <1>2, <1>6, <1>7, <2>2
<1>13. BuddiesOK
  <2> SUFFICES ASSUME NEW i \in Pages, frame_array[i] \in Orders, frame_array[i] < MAX_ORDER,
                      BuddyOf(i, frame_array[i]) \in Pages,
                      frame_array[BuddyOf(i, frame_array[i])] = frame_array[i]
               PROVE  FALSE
    BY DEF BuddiesOK
  <2> DEFINE k == L(i)
             b == BuddyOf(i, k)
  <2>1. i \in H /\ frame_array[i] = k /\ k < MAX_ORDER /\ k \in Orders
    BY <1>4, <1>6, <1>7
  <2>2. b \in H /\ L(b) = k
    BY <1>4, <1>6, <1>7, <2>1
  <2> HIDE DEF k
  <2>3. i \in Nat /\ Aligned(i, k)
    BY <1>1, <1>4, <2>1 DEF k
  <2>4. PICK s \in {i, b} : Aligned(s, k + 1) /\ Block(s, k + 1) = Block(i, k) \cup Block(b, k)
    BY <2>1, <2>3, BuddyFacts
  <2> HIDE DEF b
  <2>5. Block(s, k + 1) \subseteq Pages \ Reserved
    <3>1. Block(i, L(i)) \subseteq Pages \ Reserved /\ Block(b, L(b)) \subseteq Pages \ Reserved
      BY <1>4, <2>1, <2>2
    <3>2. QED BY <2>2, <2>4, <3>1 DEF k
  <2>6. k + 1 \in Orders /\ s \in H /\ L(s) = k
    BY <1>1, <2>1, <2>2 DEF k, Orders
  <2>7. k + 1 <= k
    BY <1>4, <2>4, <2>5, <2>6
  <2>8. QED BY <1>1, <2>1, <2>7
<1>14. HeldOK
  BY <1>3 DEF HeldOK
<1>15. TagsOK
  BY <1>2, <1>4, <1>6 DEF TagsOK
<1>16. ReservedOK
  BY <1>5 DEF ReservedOK
<1>17. QED
  BY <1>9, <1>10, <1>11, <1>12, <1>13, <1>14, <1>15, <1>16 DEF IInv

-----------------------------------------------------------------------------
(* Theorems *)

\* Lists, tags, reference counts and the callers' blocks always agree: the
\* inductive invariant of the theorems below.
THEOREM Invariance == Spec => []IInv
<1>1. Init => IInv
  BY InitKeeps
<1>2. IInv /\ [Next]_vars => IInv'
  BY StepKeeps
<1>3. QED
  BY <1>1, <1>2, PTL DEF Spec

\* Every page of memory is reserved, held by a caller or free, in one block
\* and one only: buddy_alloc and buddy_free neither leak a page nor hand one
\* out twice.
THEOREM PagesHaveOnePlace == Spec => []EveryPageHasOnePlace
<1>1. IInv => EveryPageHasOnePlace
  BY OnePlace
<1>2. QED
  BY <1>1, Invariance, PTL

-----------------------------------------------------------------------------
(* The promise *)

LEMMA FreePagesFacts ==
    ASSUME IInv, NEW i \in Pages, NEW k \in Orders, Promise!Fits(i, k)
    PROVE  /\ Aligned(i, k) /\ Block(i, k) \subseteq Pages
           /\ \A p \in Block(i, k) :
                \E h \in Pages : frame_array[h] \in Orders /\ p \in Block(h, frame_array[h])
<1>1. TypeOK /\ TagsOK /\ PartsOK
  BY DEF IInv
<1>2. i \in Nat
  BY PageFacts
<1>3. Aligned(i, k)
  <2> DEFINE n == 2^k
  <2>1. n \in Nat \ {0} /\ i % n = 0
    BY Powers, PageFacts DEF Promise!Fits
  <2> HIDE DEF n
  <2>2. Multiple(i, n)
    BY <1>2, <2>1, Division
  <2>3. QED BY <2>2 DEF Aligned, n
<1>4. Block(i, k) \subseteq Pages /\ \A p \in Block(i, k) :
         p \notin Reserved /\ \A b \in held : p \notin Block(b.start, b.order)
  BY DEF Promise!Fits, Promise!Taken, Promise!PagesOf, Promise!Block, Promise!Pages, Block, Pages
<1>5. ASSUME NEW p \in Block(i, k)
      PROVE  \E h \in Pages : frame_array[h] \in Orders /\ p \in Block(h, frame_array[h])
  <2>1. p \in Pages /\ frame_array[p] \in Orders \cup {FRAME_FREE_PART}
    BY <1>1, <1>4, <1>5 DEF TagsOK
  <2>2. QED BY <1>1, <2>1, BlockFacts, PageFacts DEF PartsOK
<1>6. QED
  BY <1>3, <1>4, <1>5

\* A request fails only if no free block suits it: of a suitable block's free
\* parts the smallest would have a free buddy.
LEMMA NoBlockIsLost ==
    ASSUME IInv, NEW t \in Orders, \A k \in Orders : t <= k => free_list[k] = <<>>,
           NEW i \in Pages
    PROVE  ~Promise!Fits(i, t)
<1> SUFFICES ASSUME Promise!Fits(i, t) PROVE FALSE
  OBVIOUS
<1>1. HeadsOK /\ BuddiesOK /\ ListsOK /\ Pages \subseteq Nat /\ Orders \subseteq Nat
      /\ Orders \subseteq 0..(MAX_ORDER + 1)
  BY PageFacts DEF IInv
<1>2. /\ Aligned(i, t) /\ Block(i, t) \subseteq Pages
      /\ \A p \in Block(i, t) :
            \E h \in Pages : frame_array[h] \in Orders /\ p \in Block(h, frame_array[h])
  BY FreePagesFacts
<1>3. ASSUME NEW h \in Pages, frame_array[h] \in Orders
      PROVE  frame_array[h] < t /\ Aligned(h, frame_array[h]) /\ h \in Block(h, frame_array[h])
  <2>1. h \in Range(free_list[frame_array[h]])
    BY <1>1, <1>3 DEF ListsOK
  <2>2. ~(t <= frame_array[h])
    <3>1. Range(<<>>) = {}
      BY DEF Range
    <3>2. QED BY <1>3, <2>1, <3>1
  <2>3. Aligned(h, frame_array[h]) /\ h \in Block(h, frame_array[h])
    BY <1>1, <1>3, BlockFacts DEF HeadsOK, HeadOK
  <2>4. \A x \in Orders : ~(t <= x) => x < t
    BY <1>1
  <2>5. QED BY <1>3, <2>2, <2>3, <2>4
<1> DEFINE D == {frame_array[h] : h \in {x \in Block(i, t) : frame_array[x] \in Orders}}
\* The free blocks that meet the suitable one lie in it.
<1>4. ASSUME NEW p \in Block(i, t)
      PROVE  \E h \in Block(i, t) : /\ frame_array[h] \in Orders /\ p \in Block(h, frame_array[h])
                                    /\ Block(h, frame_array[h]) \subseteq Block(i, t)
  <2>1. PICK h \in Pages : frame_array[h] \in Orders /\ p \in Block(h, frame_array[h])
    BY <1>2
  <2>2. frame_array[h] <= t /\ Aligned(h, frame_array[h]) /\ h \in Block(h, frame_array[h])
    <3>1. \A x \in Orders : x < t => x <= t
      BY <1>1
    <3>2. QED BY <1>3, <2>1, <3>1
  <2>3. Block(h, frame_array[h]) \subseteq Block(i, t)
    BY <1>1, <1>2, <2>1, <2>2, BlocksNest
  <2>4. QED BY <2>1, <2>2, <2>3
<1>5. D \in SUBSET Nat /\ D # {}
  <2>1. i \in Block(i, t)
    BY <1>1, BlockFacts
  <2>2. QED BY <1>1, <1>4, <2>1
<1>6. PICK j \in D : \A l \in D : j <= l
  BY <1>5, LeastNumber
<1>7. PICK h \in Block(i, t) : frame_array[h] = j /\ j \in Orders
  BY <1>6
<1>8. /\ h \in Pages /\ h \in Nat /\ j < t /\ Aligned(h, j) /\ h \in Block(h, j)
      /\ j < MAX_ORDER /\ j + 1 \in 0..(MAX_ORDER + 1) /\ j + 1 <= t
  <2>1. h \in Pages /\ j < t /\ Aligned(h, j) /\ h \in Block(h, j)
    BY <1>2, <1>3, <1>7
  <2>2. MAX_ORDER \in Nat /\ t \in 0..MAX_ORDER /\ j \in 0..MAX_ORDER
    BY <1>7, PageFacts DEF Orders
  <2>3. QED BY <1>1, <2>1, <2>2
<1> DEFINE b == BuddyOf(h, j)
<1>9. b \in Nat /\ Aligned(b, j) /\ b # h /\ b \in Block(b, j)
  BY <1>1, <1>7, <1>8, BuddyFacts, BlockFacts
<1>10. PICK s \in {h, b} : Aligned(s, j + 1) /\ Block(s, j + 1) = Block(h, j) \cup Block(b, j)
  BY <1>7, <1>8, BuddyFacts
<1> HIDE DEF b, D
<1>11. b \in Block(i, t)
  <2>1. s \in Nat /\ h \in Block(s, j + 1) /\ b \in Block(s, j + 1)
    BY <1>8, <1>9, <1>10
  <2>2. Block(s, j + 1) \subseteq Block(i, t)
    BY <1>1, <1>2, <1>7, <1>8, <1>10, <2>1, BlocksNest
  <2>3. QED BY <2>1, <2>2
<1>12. PICK g \in Block(i, t) : frame_array[g] \in Orders /\ b \in Block(g, frame_array[g])
  BY <1>4, <1>11
<1> DEFINE l == frame_array[g]
<1>13. /\ g \in Pages /\ g \in Nat /\ l \in Orders /\ l \in Nat /\ Aligned(g, l) /\ g \in Block(g, l)
       /\ j <= l /\ b \in Block(g, l)
  <2>1. l \in D
    BY <1>12 DEF D
  <2>2. QED BY <1>1, <1>2, <1>3, <1>6, <1>12, <2>1
<1>14. CASE j = l
  <2>1. b = Base(b, j) /\ g = Base(b, j)
    BY <1>1, <1>7, <1>9, <1>13, <1>14, BaseOfAligned, BaseFacts
  <2>2. b \in Pages /\ frame_array[b] = j
    BY <1>2, <1>11, <1>14, <2>1
  <2>3. QED BY <1>1, <1>7, <1>8, <2>2 DEF BuddiesOK, b
<1>15. CASE j # l
  <2> HIDE DEF l
  <2>1. j + 1 <= l
    BY <1>7, <1>8, <1>13, <1>15, <1>1
  <2>2. s \in Nat /\ h \in Block(s, j + 1) /\ b \in Block(s, j + 1)
    BY <1>8, <1>9, <1>10
  <2>3. Block(s, j + 1) \subseteq Block(g, l)
    BY <1>1, <1>8, <1>10, <1>13, <2>1, <2>2, BlocksNest
  <2>4. h \in Block(g, l) /\ g # h
    BY <1>7, <1>15, <2>2, <2>3 DEF l
  <2>5. QED BY <1>1, <1>7, <1>8, <1>13, <2>4, HeadsApart DEF l
<1>16. QED
  BY <1>14, <1>15

\* The order of a request is the smallest that suits it.
LEMMA OrderSuits ==
    ASSUME NEW n \in 1..(2^MAX_ORDER + 1)
    PROVE  /\ n \in 1..(2^(MAX_ORDER + 1)) /\ Promise!Suits(n, pages_to_order(n))
<1> DEFINE t == pages_to_order(n)
           a == 2^MAX_ORDER
           d == 2^(MAX_ORDER + 1)
<1>1. a \in Nat \ {0} /\ d = 2 * a
  <2>1. MAX_ORDER \in Orders /\ MAX_ORDER \in 0..(MAX_ORDER + 1)
    BY PageFacts DEF Orders
  <2>2. QED BY <2>1, Powers
<1>2. n \in 1..(a + 1)
  OBVIOUS
<1> HIDE DEF a, d
<1>3. n \in 1..d
  BY <1>1, <1>2
<1>4. t \in Nat /\ 2^t >= n /\ \A j \in 0..(t - 1) : 2^j < n
  BY OrderOfRequest, PageFacts
<1>5. 2^t \in Nat
  BY OrderOfRequest, Powers
<1> HIDE DEF t
<1>6. t > 0 => 2^(t - 1) < n
  <2>1. t > 0 => t - 1 \in 0..(t - 1)
    BY <1>4
  <2>2. QED BY <1>4, <2>1
<1>7. n <= 2^t
  <2> DEFINE e == 2^t
  <2>1. e \in Nat /\ e >= n
    BY <1>4, <1>5
  <2> HIDE DEF e
  <2>2. n <= e
    BY <1>1, <1>2, <2>1
  <2>3. QED BY <2>2 DEF e
<1>8. QED
  BY <1>3, <1>6, <1>7 DEF Promise!Suits, t, d

LEMMA StepPromised == IInv /\ [Next]_vars => [Promise!Next]_<<held, ret>>
<1> SUFFICES ASSUME IInv, [Next]_vars PROVE [Promise!Next]_<<held, ret>>
  OBVIOUS
<1>1. ASSUME NEW n \in 1..(2^MAX_ORDER + 1), buddy_alloc(n) PROVE Promise!Next
  <2> DEFINE t == pages_to_order(n)
  <2>1. t \in 0..(MAX_ORDER + 1) /\ Promise!Suits(n, t) /\ n \in 1..(2^(MAX_ORDER + 1))
    BY OrderOfRequest, OrderSuits
  <2>2. CASE /\ \A k \in Orders : t <= k => free_list[k] = <<>>
             /\ ret' = Null(n) /\ UNCHANGED <<frame_array, ref_count, free_list, held>>
    <3>1. t \in Orders => \A i \in Pages : ~Promise!Fits(i, t)
      BY <2>2, NoBlockIsLost
    <3>2. Promise!Fail(n)
      <4> HIDE DEF t
      <4>1. QED
        BY <2>1, <2>2, <3>1
        DEF Promise!Fail, Promise!Null, Null, Promise!Orders, Orders, Promise!Pages, Pages
    <3>3. QED BY <2>1, <3>2 DEF Promise!Next
  <2>3. ASSUME t \in Orders, NEW k \in t..MAX_ORDER, NEW i, i = Head(free_list[k]),
               Split(n, t, k, i), frame_array' \in [Pages -> Int]
        PROVE  Promise!Next
    <3>1. i \in Pages /\ frame_array[i] = k
      <4>1. n \in Nat
        BY Powers, PageFacts
      <4>2. QED BY <2>3, <4>1, SplitKeeps
    <3>2. /\ TypeOK /\ HeldOK /\ ReservedOK /\ HeadsOK /\ i \in Nat /\ k \in Orders /\ t <= k
          /\ k \in 0..(MAX_ORDER + 1)
      BY <2>3, <3>1, PageFacts DEF IInv, Orders
    <3>3. HeadOK(frame_array, i)
      BY <3>1, <3>2 DEF HeadsOK
    <3>4. /\ Aligned(i, t) /\ Block(i, t) \subseteq Block(i, k) /\ Block(i, k) \subseteq Pages
          /\ \A p \in Block(i, k) : frame_array[p] \in Orders \cup {FRAME_FREE_PART}
      <4> HIDE DEF t
      <4>1. Aligned(i, k)
        BY <3>1, <3>3 DEF HeadOK
      <4>2. Aligned(i, t)
        BY <2>1, <3>2, <4>1, AlignedSmaller
      <4>3. Block(i, t) \subseteq Block(i, k)
        BY <2>3, <3>2, <4>1, Halves
      <4>4. QED BY <3>1, <3>2, <3>3, <4>2, <4>3 DEF HeadOK
    <3>5. Block(i, t) \subseteq Pages \ Promise!Taken
      <4> SUFFICES ASSUME NEW p \in Block(i, t) PROVE p \in Pages /\ p \notin Promise!Taken
        OBVIOUS
      <4>1. p \in Pages /\ frame_array[p] \in Orders \cup {FRAME_FREE_PART}
        BY <3>4
      <4>2. p \notin Reserved /\ \A b \in held : p \notin Block(b.start, b.order)
        BY <3>2, <4>1, FreeIsNotTaken
      <4>3. QED BY <4>1, <4>2 DEF Promise!Taken, Promise!PagesOf, Promise!Block, Block
    <3>6. i % 2^t = 0
      <4> DEFINE e == 2^t
      <4>1. e \in Nat \ {0} /\ Multiple(i, e)
        BY <2>1, <3>4, Powers DEF Aligned
      <4> HIDE DEF e
      <4>2. i % e = 0
        BY <3>2, <4>1, Division
      <4>3. QED BY <4>2 DEF e
    <3>7. Promise!Fits(i, t)
      BY <3>5, <3>6 DEF Promise!Fits, Promise!Block, Block, Promise!Pages, Pages
    <3>8. /\ held' = held \cup {[start |-> i, order |-> t, refs |-> 1]}
          /\ ret' = [pages |-> n, start |-> i]
      BY <2>3 DEF Split
    <3>9. Promise!Alloc(n)
      <4> HIDE DEF t
      <4>1. QED
        BY <2>1, <2>3, <3>1, <3>7, <3>8
        DEF Promise!Alloc, Promise!Orders, Orders, Promise!Pages, Pages
    <3>10. QED BY <2>1, <3>9 DEF Promise!Next
  <2>4. QED BY <1>1, <2>2, <2>3, AllocSplits
<1>2. ASSUME NEW b \in held, buddy_free(b) PROVE Promise!Next
  <2>1. /\ held' = (held \ {b}) \cup (IF b.refs = 1 THEN {} ELSE {[b EXCEPT !.refs = @ - 1]})
        /\ ret' = Void
    BY <1>2 DEF buddy_free
  <2>2. Promise!Release(b)
    BY <2>1 DEF Promise!Release, Promise!Void, Void
  <2>3. QED BY <2>2 DEF Promise!Next
<1>3. ASSUME NEW b \in held, get_page_ref(b) PROVE Promise!Next
  <2>1. Promise!Share(b)
    BY <1>3 DEF get_page_ref, Promise!Share, Promise!Void, Void
  <2>2. QED BY <2>1 DEF Promise!Next
<1>4. CASE UNCHANGED vars
  BY <1>4 DEF vars
<1>5. QED
  BY <1>1, <1>2, <1>3, <1>4 DEF Next

\* What the callers see is what PageAllocator promises: a request gets an
\* aligned free block of the smallest size that holds it, and fails only if
\* there is no such block.
THEOREM KeepsThePromise == Spec => KeepsPromise
<1>1. Init => Promise!Init
  BY DEF Init, Promise!Init, Void, Promise!Void
<1>2. IInv /\ [Next]_vars => [Promise!Next]_<<held, ret>>
  BY StepPromised
<1>3. QED
  BY <1>1, <1>2, Invariance, PTL DEF Spec, KeepsPromise, Promise!Spec
=============================================================================
