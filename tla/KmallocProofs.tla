--------------------------- MODULE KmallocProofs ---------------------------
(***************************************************************************)
(* What kmalloc keeps for every number and size of pages, pools and        *)
(* requests: objects never overlap each other or a page that alloc_page    *)
(* handed out, and no chunk and no block of the page allocator is lost.    *)
(***************************************************************************)
EXTENDS Kmalloc, SequenceLemmas

\* The addresses at which a page's chunks begin.
Chunks(i, size) == {i * PAGE_SIZE + j * size : j \in 0..(PAGE_SIZE \div size - 1)}

\* A block of one page.
Single(i) == [start |-> i, order |-> 0, refs |-> 1]

\* The callers' blocks are in memory and do not overlap; kmalloc shares none.
Blocks ==
    /\ held \subseteq [start : Pages, order : 0..MAX_ORDER, refs : {1}]
    /\ \A b \in held : Buddy!PagesOf(b) \subseteq Pages
    /\ \A b, c \in held : b # c => Buddy!PagesOf(b) \cap Buddy!PagesOf(c) = {}

\* Pool pages and the pages of alloc_page's callers are blocks of one page,
\* and none is both.
OnePageBlocks ==
    /\ \A i \in Pages : page_pool_idx[i] # LARGE => Single(i) \in held
    /\ \A i \in page_users : Single(i) \in held /\ page_pool_idx[i] = LARGE

\* An object is a chunk of a pool's page or the beginning of a block.
IsChunk(o, i) ==
    /\ page_pool_idx[i] # LARGE
    /\ o.addr \in Chunks(i, pool_sizes[page_pool_idx[i]])
    /\ o.size <= pool_sizes[page_pool_idx[i]]
IsLarge(o, i) ==
    /\ page_pool_idx[i] = LARGE /\ o.addr = i * PAGE_SIZE
    /\ \E b \in held : b.start = i /\ o.size <= 2^b.order * PAGE_SIZE
ObjectsInPlace ==
    /\ \A o \in objects : /\ PageOf(o.addr) \in Pages \ page_users
                          /\ IsChunk(o, PageOf(o.addr)) \/ IsLarge(o, PageOf(o.addr))
    /\ \A o, u \in objects : o.addr = u.addr => o = u

\* What is on a pool's list is a chunk of one of its pages, and nobody's object.
FreeInPlace ==
    \A p \in Pools :
        /\ IsInjective(free_list[p])
        /\ \A a \in Range(free_list[p]) :
              /\ PageOf(a) \in Pages /\ page_pool_idx[PageOf(a)] = p
              /\ a \in Chunks(PageOf(a), pool_sizes[p])
              /\ \A o \in objects : o.addr # a

\* Every chunk is on its pool's list or an object.
ChunksKept ==
    \A i \in Pages : page_pool_idx[i] # LARGE =>
        \A a \in Chunks(i, pool_sizes[page_pool_idx[i]]) :
            a \in Range(free_list[page_pool_idx[i]]) \/ \E o \in objects : o.addr = a

IInv ==
    /\ TypeOK /\ Blocks /\ OnePageBlocks /\ ObjectsInPlace /\ FreeInPlace /\ ChunksKept
    /\ NoBlockIsLost

-----------------------------------------------------------------------------
(* Addresses *)

LEMMA Quotient ==
    ASSUME NEW a \in Nat, NEW n \in Nat \ {0}
    PROVE  /\ a \div n \in Nat
           /\ \A q \in Nat : a \div n = q <=> q * n <= a /\ a < q * n + n
  OBVIOUS

LEMMA PageOfExtent ==
    ASSUME NEW i \in Nat
    PROVE  \A a \in PageExtent(i) : a \in Nat /\ PageOf(a) = i
<1>1. PAGE_SIZE \in Nat \ {0}
  BY PoolsAssumption
<1>2. ASSUME NEW a \in PageExtent(i)
      PROVE  a \in Nat /\ i * PAGE_SIZE <= a /\ a < i * PAGE_SIZE + PAGE_SIZE
  BY <1>1 DEF PageExtent
<1>3. QED
  BY <1>1, <1>2, Quotient DEF PageOf

LEMMA PageStart ==
    ASSUME NEW i \in Nat
    PROVE  i * PAGE_SIZE \in Nat /\ PageOf(i * PAGE_SIZE) = i
<1>1. PAGE_SIZE \in Nat \ {0} /\ i * PAGE_SIZE \in Nat
  BY PoolsAssumption
<1>2. i * PAGE_SIZE <= i * PAGE_SIZE /\ i * PAGE_SIZE < i * PAGE_SIZE + PAGE_SIZE
  BY <1>1
<1>3. QED
  BY <1>1, <1>2, Quotient DEF PageOf

LEMMA PageOfNat ==
    ASSUME NEW a \in Nat
    PROVE  PageOf(a) \in Nat
  BY PoolsAssumption, Quotient DEF PageOf

LEMMA PoolFacts ==
    ASSUME NEW p \in Pools
    PROVE  /\ pool_sizes[p] \in 1..PAGE_SIZE /\ PAGE_SIZE % pool_sizes[p] = 0
           /\ p \in Nat \ {0} /\ p # LARGE
<1>1. pool_sizes \in Seq(1..PAGE_SIZE)
  BY PoolsAssumption
<1>2. Pools = 1..Len(pool_sizes) /\ Len(pool_sizes) \in Nat
  BY <1>1, LenProperties DEF Pools
<1>3. QED
  BY <1>1, <1>2, ElementOfSeq, PoolsAssumption DEF Pools, LARGE

LEMMA Products ==
    ASSUME NEW i \in Nat, NEW j \in Nat, i < j, NEW s \in Nat
    PROVE  i * s \in Nat /\ j * s \in Nat /\ i * s + s <= j * s
  OBVIOUS

\* The chunks of a page lie in it, side by side.
LEMMA ChunkFacts ==
    ASSUME NEW p \in Pools, NEW i \in Nat, NEW a \in Chunks(i, pool_sizes[p])
    PROVE  /\ a \in Nat /\ PageOf(a) = i
           /\ a..(a + pool_sizes[p] - 1) \subseteq PageExtent(i)
           /\ \A b \in Chunks(i, pool_sizes[p]) : a # b =>
                (a..(a + pool_sizes[p] - 1)) \cap (b..(b + pool_sizes[p] - 1)) = {}
<1> DEFINE s == pool_sizes[p]
           n == PAGE_SIZE \div s
<1>1. PAGE_SIZE \in Nat \ {0} /\ s \in Nat \ {0} /\ s <= PAGE_SIZE /\ PAGE_SIZE % s = 0
  BY PoolFacts, PoolsAssumption
<1> HIDE DEF s
<1>2. n \in Nat /\ n * s = PAGE_SIZE
  BY <1>1
<1>3. /\ a \in {i * PAGE_SIZE + j * s : j \in 0..(n - 1)}
      /\ \A b \in Chunks(i, pool_sizes[p]) : b \in {i * PAGE_SIZE + j * s : j \in 0..(n - 1)}
  BY DEF Chunks, s
<1> HIDE DEF n
<1>4. i * PAGE_SIZE \in Nat
  BY <1>1
<1>5. ASSUME NEW j \in 0..(n - 1)
      PROVE  j \in Nat /\ j * s \in Nat /\ j * s + s <= PAGE_SIZE
  <2>1. j \in Nat /\ j < n
    BY <1>2
  <2>2. j * s + s <= n * s /\ j * s \in Nat
    BY <1>1, <1>2, <2>1, Products
  <2>3. QED BY <1>2, <2>1, <2>2
<1>6. PICK j \in 0..(n - 1) : a = i * PAGE_SIZE + j * s
  BY <1>3
<1>7. a \in Nat /\ i * PAGE_SIZE <= a /\ a + s <= i * PAGE_SIZE + PAGE_SIZE
  BY <1>1, <1>4, <1>5, <1>6
<1>8. a..(a + s - 1) \subseteq PageExtent(i) /\ a \in PageExtent(i)
  BY <1>1, <1>4, <1>7 DEF PageExtent
<1>9. PageOf(a) = i
  BY <1>8, PageOfExtent
<1>10. ASSUME NEW b \in Chunks(i, pool_sizes[p]), a # b
       PROVE  (a..(a + s - 1)) \cap (b..(b + s - 1)) = {}
  <2>1. PICK k \in 0..(n - 1) : b = i * PAGE_SIZE + k * s
    BY <1>3
  <2>2. j # k /\ j \in Nat /\ k \in Nat /\ j * s \in Nat /\ k * s \in Nat
    BY <1>5, <1>6, <1>10, <2>1
  <2>3. CASE j < k
    <3>1. j * s + s <= k * s
      BY <1>1, <2>2, <2>3, Products
    <3>2. a + s <= b /\ b \in Nat
      BY <1>1, <1>4, <1>6, <2>1, <2>2, <3>1
    <3>3. QED BY <1>1, <1>7, <3>2
  <2>4. CASE k < j
    <3>1. k * s + s <= j * s
      BY <1>1, <2>2, <2>4, Products
    <3>2. b + s <= a /\ b \in Nat
      BY <1>1, <1>4, <1>6, <2>1, <2>2, <3>1
    <3>3. QED BY <1>1, <1>7, <3>2
  <2>5. QED BY <2>2, <2>3, <2>4
<1>11. QED
  BY <1>7, <1>8, <1>9, <1>10 DEF s

\* Slicing a page gives each of its chunks once.
LEMMA SlicedFacts ==
    ASSUME NEW p \in Pools, NEW i \in Nat
    PROVE  LET q == Sliced(i, pool_sizes[p])
           IN  /\ q \in Seq(Nat) /\ q # <<>> /\ Len(q) \in Nat /\ Len(q) >= 1
               /\ IsInjective(q) /\ Range(q) = Chunks(i, pool_sizes[p])
<1> DEFINE s == pool_sizes[p]
           n == PAGE_SIZE \div s
           q == Sliced(i, s)
<1>1. PAGE_SIZE \in Nat \ {0} /\ s \in Nat \ {0} /\ s <= PAGE_SIZE /\ PAGE_SIZE % s = 0
  BY PoolFacts, PoolsAssumption
<1> HIDE DEF s
<1>2. n \in Nat /\ n * s = PAGE_SIZE /\ n # 0
  BY <1>1
<1>3. /\ q = [k \in 1..n |-> i * PAGE_SIZE + (n - k) * s]
      /\ Chunks(i, s) = {i * PAGE_SIZE + j * s : j \in 0..(n - 1)}
  BY DEF Sliced, Chunks
<1> HIDE DEF n, q
<1>4. i * PAGE_SIZE \in Nat
  BY <1>1
<1>5. \A k \in 1..n : n - k \in 0..(n - 1) /\ (n - k) * s \in Nat
  <2>1. \A k \in 1..n : n - k \in 0..(n - 1) /\ n - k \in Nat
    BY <1>2
  <2>2. \A j \in Nat : j * s \in Nat
    BY <1>1
  <2>3. QED BY <2>1, <2>2
<1>6. q \in [1..n -> Nat]
  BY <1>3, <1>4, <1>5
<1>7. q \in Seq(Nat) /\ Len(q) = n /\ DOMAIN q = 1..n
  BY <1>2, <1>6, FunctionIsSeq
<1>8. IsInjective(q)
  <2> SUFFICES ASSUME NEW k \in 1..n, NEW l \in 1..n, k < l PROVE q[k] # q[l]
    BY <1>2, <1>7 DEF IsInjective
  <2>1. n - l \in Nat /\ n - k \in Nat /\ n - l < n - k
    BY <1>2
  <2>2. (n - l) * s + s <= (n - k) * s /\ (n - l) * s \in Nat /\ (n - k) * s \in Nat
    BY <1>1, <2>1, Products
  <2>3. QED BY <1>1, <1>3, <1>4, <2>2
<1>9. Range(q) = Chunks(i, s)
  <2>1. \A k \in 1..n : q[k] \in Chunks(i, s)
    BY <1>3, <1>5
  <2>2. ASSUME NEW j \in 0..(n - 1) PROVE \E k \in 1..n : q[k] = i * PAGE_SIZE + j * s
    <3>1. n - j \in 1..n /\ n - (n - j) = j
      BY <1>2
    <3>2. QED BY <1>3, <3>1
  <2>3. QED BY <1>3, <1>7, <2>1, <2>2 DEF Range
<1>10. q # <<>>
  BY <1>2, <1>7
<1>11. QED
  BY <1>2, <1>7, <1>8, <1>9, <1>10 DEF q, s

-----------------------------------------------------------------------------
(* Pools and blocks *)

LEMMA FindPool ==
    ASSUME NEW size \in Nat
    PROVE  \/ find_pool(size) = LARGE /\ \A p \in Pools : ~(size <= pool_sizes[p])
           \/ find_pool(size) \in Pools /\ size <= pool_sizes[find_pool(size)]
<1> DEFINE fitting == {i \in Pools : size <= pool_sizes[i]}
<1>1. CASE fitting = {}
  BY <1>1 DEF find_pool
<1>2. CASE fitting # {}
  <2>1. fitting \in SUBSET Nat
    BY PoolFacts
  <2>2. \E i \in fitting : \A j \in fitting : i <= j
    <3> HIDE DEF fitting
    <3>1. QED BY <1>2, <2>1, LeastNumber
  <2>3. find_pool(size) \in fitting
    BY <1>2, <2>2 DEF find_pool
  <2>4. QED BY <2>3
<1>3. QED
  BY <1>1, <1>2

LEMMA BlockFacts ==
    ASSUME Blocks, NEW b \in held
    PROVE  /\ b = [start |-> b.start, order |-> b.order, refs |-> 1]
           /\ b.start \in Pages /\ b.start \in Nat /\ b.refs = 1
           /\ b.order \in 0..MAX_ORDER /\ 2^b.order \in Nat \ {0}
           /\ b.start \in Buddy!PagesOf(b)
           /\ \A c \in held : c # b => /\ Buddy!PagesOf(b) \cap Buddy!PagesOf(c) = {}
                                       /\ c.start # b.start
<1>1. \A c \in held : /\ c = [start |-> c.start, order |-> c.order, refs |-> 1]
                      /\ c.start \in Pages /\ c.start \in Nat /\ c.refs = 1
                      /\ c.order \in 0..MAX_ORDER /\ 2^c.order \in Nat \ {0}
  <2>1. \A c \in [start : Pages, order : 0..MAX_ORDER, refs : {1}] :
           /\ c = [start |-> c.start, order |-> c.order, refs |-> 1]
           /\ c.start \in Pages /\ c.order \in 0..MAX_ORDER /\ c.refs = 1
    OBVIOUS
  <2>2. \A i \in Pages : i \in Nat
    BY DEF Pages
  <2>3. QED BY <2>1, <2>2, PowersAssumption DEF Blocks
<1>2. \A c \in held : c.start \in Buddy!PagesOf(c)
  BY <1>1 DEF Buddy!PagesOf, Buddy!Block
<1>3. \A c \in held : c # b => Buddy!PagesOf(b) \cap Buddy!PagesOf(c) = {}
  BY DEF Blocks
<1>4. QED
  BY <1>1, <1>2, <1>3

LEMMA SingleFacts ==
    ASSUME NEW i \in Nat
    PROVE  /\ Buddy!PagesOf(Single(i)) = {i} /\ Single(i).start = i
           /\ Single(i).order = 0 /\ Single(i).refs = 1
<1>1. Buddy!PagesOf(Single(i)) = i..(i + 2^0 - 1)
  BY DEF Buddy!PagesOf, Buddy!Block, Single
<1>2. QED
  BY <1>1, PowersAssumption DEF Single

\* The block of an object, and where in it the object lies.
LEMMA HomeBlock ==
    ASSUME IInv, NEW o \in objects
    PROVE  /\ PageOf(o.addr) \in Nat /\ o.addr \in Nat /\ o.size \in Nat
           /\ \E b \in held :
                /\ b.start = PageOf(o.addr)
                /\ IsChunk(o, PageOf(o.addr)) => b = Single(PageOf(o.addr))
                /\ Extent(o) \subseteq UNION {PageExtent(j) : j \in Buddy!PagesOf(b)}
<1> DEFINE i == PageOf(o.addr)
<1>1. i \in Pages /\ i \in Nat /\ (IsChunk(o, i) \/ IsLarge(o, i))
  BY DEF IInv, ObjectsInPlace, Pages
<1>2. o.addr \in Nat /\ o.size \in Nat
  <2>1. o \in [addr : 0..(total_pages * PAGE_SIZE - 1), size : Sizes]
    BY DEF IInv, TypeOK
  <2>2. o.addr \in 0..(total_pages * PAGE_SIZE - 1) /\ o.size \in Sizes
    BY <2>1
  <2>3. total_pages * PAGE_SIZE \in Nat /\ Sizes \subseteq Nat
    BY PoolsAssumption
  <2>4. \A n \in Nat : 0..(n - 1) \subseteq Nat
    OBVIOUS
  <2> DEFINE n == total_pages * PAGE_SIZE
  <2>5. n \in Nat /\ o.addr \in 0..(n - 1) /\ o.size \in Nat
    BY <2>2, <2>3
  <2> HIDE DEF n
  <2>6. QED BY <2>4, <2>5
<1> HIDE DEF i
<1>3. CASE IsChunk(o, i)
  <2> DEFINE p == page_pool_idx[i]
  <2>1. /\ Single(i) \in held /\ p \in Pools
        /\ o.addr \in Chunks(i, pool_sizes[p]) /\ o.size <= pool_sizes[p]
    BY <1>1, <1>3 DEF IsChunk, IInv, OnePageBlocks, TypeOK
  <2> HIDE DEF p
  <2>2. o.addr..(o.addr + pool_sizes[p] - 1) \subseteq PageExtent(i)
    BY <1>1, <2>1, ChunkFacts
  <2>3. pool_sizes[p] \in Nat
    BY <2>1, PoolFacts
  <2>4. Extent(o) \subseteq o.addr..(o.addr + pool_sizes[p] - 1)
    BY <1>2, <2>1, <2>3 DEF Extent
  <2>5. i \in Buddy!PagesOf(Single(i)) /\ Single(i).start = i
    BY <1>1, SingleFacts
  <2>6. Extent(o) \subseteq UNION {PageExtent(j) : j \in Buddy!PagesOf(Single(i))}
    BY <2>2, <2>4, <2>5
  <2>7. QED BY <1>1, <1>2, <2>1, <2>5, <2>6 DEF i
<1>4. CASE IsLarge(o, i)
  <2>1. PICK b \in held : b.start = i /\ o.size <= 2^b.order * PAGE_SIZE
    BY <1>4 DEF IsLarge
  <2>2. o.addr = i * PAGE_SIZE /\ page_pool_idx[i] = LARGE
    BY <1>4 DEF IsLarge
  <2> DEFINE n == 2^b.order
  <2>3. n \in Nat \ {0} /\ Buddy!PagesOf(b) = i..(i + n - 1)
    BY <2>1, BlockFacts DEF IInv, Buddy!PagesOf, Buddy!Block
  <2>4. o.size <= n * PAGE_SIZE
    BY <2>1
  <2> HIDE DEF n
  <2>5. ASSUME NEW a \in Extent(o)
        PROVE  \E j \in Buddy!PagesOf(b) : a \in PageExtent(j)
    <3>1. PAGE_SIZE \in Nat \ {0} /\ i * PAGE_SIZE \in Nat /\ n * PAGE_SIZE \in Nat
      BY <1>1, <2>3, PoolsAssumption
    <3>2. a \in Nat /\ i * PAGE_SIZE <= a /\ a < i * PAGE_SIZE + n * PAGE_SIZE
      BY <1>2, <2>2, <2>4, <2>5, <3>1 DEF Extent
    <3> DEFINE j == a \div PAGE_SIZE
    <3>3. j \in Nat /\ j * PAGE_SIZE <= a /\ a < j * PAGE_SIZE + PAGE_SIZE
      BY <3>1, <3>2, Quotient
    <3> HIDE DEF j
    <3>4. i <= j
      <4> SUFFICES ASSUME j < i PROVE FALSE
        BY <1>1, <3>3
      <4>1. j * PAGE_SIZE + PAGE_SIZE <= i * PAGE_SIZE
        BY <1>1, <3>1, <3>3, Products
      <4>2. j * PAGE_SIZE \in Nat
        BY <3>1, <3>3
      <4>3. QED BY <3>1, <3>2, <3>3, <4>1, <4>2
    <3>5. j < i + n
      <4> SUFFICES ASSUME i + n <= j PROVE FALSE
        BY <1>1, <2>3, <3>3
      <4>1. (i + n) * PAGE_SIZE = i * PAGE_SIZE + n * PAGE_SIZE /\ (i + n) \in Nat
        BY <1>1, <2>3, <3>1
      <4>2. CASE j = i + n
        BY <3>1, <3>2, <3>3, <4>1, <4>2
      <4>3. CASE i + n < j
        <5>1. (i + n) * PAGE_SIZE + PAGE_SIZE <= j * PAGE_SIZE
          BY <3>1, <3>3, <4>1, <4>3, Products
        <5>2. QED BY <3>1, <3>2, <3>3, <4>1, <5>1
      <4>4. QED BY <1>1, <2>3, <3>3, <4>2, <4>3
    <3>6. j \in Buddy!PagesOf(b)
      BY <1>1, <2>3, <3>3, <3>4, <3>5
    <3>7. a \in PageExtent(j)
      <4>1. j * PAGE_SIZE \in Nat
        BY <3>1, <3>3
      <4>2. QED BY <3>1, <3>2, <3>3, <4>1 DEF PageExtent
    <3>8. QED BY <3>6, <3>7
  <2>6. Extent(o) \subseteq UNION {PageExtent(j) : j \in Buddy!PagesOf(b)}
    BY <2>5
  <2>7. ~IsChunk(o, i)
    BY <2>2 DEF IsChunk
  <2>8. QED BY <1>1, <1>2, <2>1, <2>6, <2>7 DEF i
<1>5. QED
  BY <1>1, <1>3, <1>4

-----------------------------------------------------------------------------
(* What the invariant means *)

LEMMA ObjectsApart ==
    ASSUME IInv, NEW o \in objects, NEW u \in objects, o # u
    PROVE  Extent(o) \cap Extent(u) = {}
<1>1. Blocks
  BY DEF IInv
<1>2. PICK b \in held : /\ b.start = PageOf(o.addr)
                        /\ IsChunk(o, PageOf(o.addr)) => b = Single(PageOf(o.addr))
                        /\ Extent(o) \subseteq UNION {PageExtent(j) : j \in Buddy!PagesOf(b)}
  BY HomeBlock
<1>3. PICK c \in held : /\ c.start = PageOf(u.addr)
                        /\ Extent(u) \subseteq UNION {PageExtent(j) : j \in Buddy!PagesOf(c)}
  BY HomeBlock
<1>4. /\ o.addr # u.addr /\ PageOf(o.addr) \in Nat
      /\ o.addr \in Nat /\ o.size \in Nat /\ u.addr \in Nat /\ u.size \in Nat
      /\ IsChunk(o, PageOf(o.addr)) \/ IsLarge(o, PageOf(o.addr))
      /\ IsChunk(u, PageOf(u.addr)) \/ IsLarge(u, PageOf(u.addr))
  BY HomeBlock DEF IInv, ObjectsInPlace
<1>5. CASE b # c
  <2>1. Buddy!PagesOf(b) \cap Buddy!PagesOf(c) = {}
    BY <1>1, <1>5 DEF Blocks
  <2>2. \A j \in Buddy!PagesOf(b) \cup Buddy!PagesOf(c) : j \in Nat
    BY <1>1 DEF Blocks, Pages
  <2> SUFFICES ASSUME NEW a \in Extent(o), a \in Extent(u) PROVE FALSE
    OBVIOUS
  <2>3. PICK j \in Buddy!PagesOf(b) : a \in PageExtent(j)
    BY <1>2
  <2>4. PICK k \in Buddy!PagesOf(c) : a \in PageExtent(k)
    BY <1>3
  <2>5. j = k
    BY <2>2, <2>3, <2>4, PageOfExtent
  <2>6. QED BY <2>1, <2>5
<1>6. CASE b = c
  <2> DEFINE i == PageOf(o.addr)
             p == page_pool_idx[i]
  <2>1. PageOf(u.addr) = i /\ i \in Nat /\ i \in Pages
    BY <1>2, <1>3, <1>4, <1>6 DEF IInv, ObjectsInPlace
  <2>2. IsChunk(o, i) /\ IsChunk(u, i)
    <3>1. ~(IsLarge(o, i) /\ IsLarge(u, i))
      BY <1>4 DEF IsLarge
    <3>2. ~(IsLarge(o, i) /\ IsChunk(u, i)) /\ ~(IsChunk(o, i) /\ IsLarge(u, i))
      BY DEF IsLarge, IsChunk
    <3>3. QED BY <1>4, <2>1, <3>1, <3>2
  <2>3. /\ o.addr \in Chunks(i, pool_sizes[p]) /\ o.size <= pool_sizes[p]
        /\ u.addr \in Chunks(i, pool_sizes[p]) /\ u.size <= pool_sizes[p] /\ p # LARGE
    BY <2>2 DEF IsChunk
  <2>4. p \in Pools
    BY <2>1, <2>3 DEF IInv, TypeOK
  <2> HIDE DEF p, i
  <2>5. pool_sizes[p] \in Nat
    BY <2>4, PoolFacts
  <2>6. (o.addr..(o.addr + pool_sizes[p] - 1)) \cap (u.addr..(u.addr + pool_sizes[p] - 1)) = {}
    BY <1>4, <2>1, <2>3, <2>4, ChunkFacts
  <2>7. /\ Extent(o) \subseteq o.addr..(o.addr + pool_sizes[p] - 1)
        /\ Extent(u) \subseteq u.addr..(u.addr + pool_sizes[p] - 1)
    BY <1>4, <2>3, <2>5 DEF Extent
  <2>8. QED BY <2>6, <2>7
<1>7. QED
  BY <1>5, <1>6

LEMMA UsersApart ==
    ASSUME IInv, NEW o \in objects, NEW i \in page_users
    PROVE  Extent(o) \cap PageExtent(i) = {}
<1>1. PICK b \in held : /\ b.start = PageOf(o.addr)
                        /\ Extent(o) \subseteq UNION {PageExtent(j) : j \in Buddy!PagesOf(b)}
  BY HomeBlock
<1>2. i \in Nat /\ Single(i) \in held /\ PageOf(o.addr) # i
  BY DEF IInv, OnePageBlocks, ObjectsInPlace, TypeOK, Pages
<1>3. Buddy!PagesOf(Single(i)) = {i} /\ Single(i).start = i
  BY <1>2, SingleFacts
<1>4. i \notin Buddy!PagesOf(b)
  BY <1>1, <1>2, <1>3 DEF IInv, Blocks
<1>5. \A j \in Buddy!PagesOf(b) : j \in Nat
  BY DEF IInv, Blocks, Pages
<1> SUFFICES ASSUME NEW a \in Extent(o), a \in PageExtent(i) PROVE FALSE
  OBVIOUS
<1>6. PICK j \in Buddy!PagesOf(b) : a \in PageExtent(j)
  BY <1>1
<1>7. j = i
  BY <1>2, <1>5, <1>6, PageOfExtent
<1>8. QED
  BY <1>4, <1>6, <1>7

LEMMA SoundObjects == IInv => ObjectsAreSound
<1> SUFFICES ASSUME IInv PROVE ObjectsAreSound
  OBVIOUS
<1>1. TypeOK
  BY DEF IInv
<1>2. \A a, b \in objects : a # b => Extent(a) \cap Extent(b) = {}
  BY ObjectsApart
<1>3. \A a \in objects, i \in page_users : Extent(a) \cap PageExtent(i) = {}
  BY UsersApart
<1>4. \A a \in objects : \E b \in held :
         Extent(a) \subseteq UNION {PageExtent(i) : i \in Buddy!PagesOf(b)}
  BY HomeBlock
<1>5. QED
  BY <1>1, <1>2, <1>3, <1>4 DEF ObjectsAreSound

LEMMA ConservedChunks == IInv => ChunksAreConserved
<1> SUFFICES ASSUME IInv PROVE ChunksAreConserved
  OBVIOUS
<1>1. \A p \in Pools : IsInjective(free_list[p])
  BY DEF IInv, FreeInPlace
<1>2. ASSUME NEW i \in Pages, page_pool_idx[i] # LARGE
      PROVE  LET pool == page_pool_idx[i]
                 chunks == Range(Sliced(i, pool_sizes[pool]))
                 free == {a \in Range(free_list[pool]) : PageOf(a) = i}
                 used == {o.addr : o \in {x \in objects : PageOf(x.addr) = i}}
             IN free \cup used = chunks /\ free \cap used = {}
  <2> DEFINE pool == page_pool_idx[i]
             chunks == Chunks(i, pool_sizes[pool])
             free == {a \in Range(free_list[pool]) : PageOf(a) = i}
             used == {o.addr : o \in {x \in objects : PageOf(x.addr) = i}}
  <2>1. pool \in Pools /\ i \in Nat
    BY <1>2 DEF IInv, TypeOK, Pages
  <2>2. Range(Sliced(i, pool_sizes[pool])) = chunks
    BY <2>1, SlicedFacts
  <2>3. free \subseteq chunks
    BY <2>1 DEF IInv, FreeInPlace
  <2>4. used \subseteq chunks
    <3> SUFFICES ASSUME NEW o \in objects, PageOf(o.addr) = i PROVE o.addr \in chunks
      OBVIOUS
    <3>1. ~IsLarge(o, i)
      BY <1>2 DEF IsLarge
    <3>2. IsChunk(o, i)
      BY <3>1 DEF IInv, ObjectsInPlace
    <3>3. QED BY <3>2 DEF IsChunk
  <2>5. chunks \subseteq free \cup used
    <3> SUFFICES ASSUME NEW a \in chunks PROVE a \in free \cup used
      OBVIOUS
    <3>1. PageOf(a) = i
      BY <2>1, ChunkFacts
    <3>2. a \in Range(free_list[pool]) \/ \E o \in objects : o.addr = a
      BY <1>2 DEF IInv, ChunksKept
    <3>3. QED BY <3>1, <3>2
  <2>6. free \cap used = {}
    BY <2>1 DEF IInv, FreeInPlace
  <2>7. QED BY <2>2, <2>3, <2>4, <2>5, <2>6
<1>3. QED
  BY <1>1, <1>2 DEF ChunksAreConserved

-----------------------------------------------------------------------------
(* Steps *)

LEMMA InitIInv == Init => IInv
<1> SUFFICES ASSUME Init PROVE IInv
  OBVIOUS
<1>1. TypeOK
  BY DEF Init, TypeOK
<1>2. held = {} /\ objects = {} /\ page_users = {}
  BY DEF Init, Buddy!Init
<1>3. \A i \in Pages : page_pool_idx[i] = LARGE
  BY DEF Init
<1>4. FreeInPlace
  <2>1. \A p \in Pools : free_list[p] = <<>>
    BY DEF Init
  <2>2. IsInjective(<<>>) /\ Range(<<>>) = {}
    BY DEF IsInjective, Range
  <2>3. QED BY <2>1, <2>2 DEF FreeInPlace
<1>5. Blocks /\ OnePageBlocks /\ ObjectsInPlace /\ ChunksKept /\ NoBlockIsLost
  BY <1>2, <1>3 DEF Blocks, OnePageBlocks, ObjectsInPlace, ChunksKept, NoBlockIsLost
<1>6. QED
  BY <1>1, <1>4, <1>5 DEF IInv

\* Nobody has a part of the block b, and only b becomes held.
Fresh(b) ==
    /\ b \in [start : Pages, order : 0..MAX_ORDER, refs : {1}]
    /\ b \notin held /\ held' = held \cup {b}
    /\ b.start \in Buddy!PagesOf(b)
    /\ \A j \in Buddy!PagesOf(b) :
          /\ page_pool_idx[j] = LARGE /\ j \in Pages \ page_users
          /\ \A o \in objects : PageOf(o.addr) # j
          /\ \A c \in held : j \notin Buddy!PagesOf(c) /\ c.start # j

LEMMA AllocFacts ==
    ASSUME IInv, NEW n \in Nat \ {0}, Buddy!Alloc(n)
    PROVE  /\ Blocks'
           /\ \E b : /\ Fresh(b) /\ ret'.start = b.start /\ n <= 2^b.order
                     /\ n = 1 => b = Single(b.start)
<1>1. PICK k \in Buddy!Orders, i \in Buddy!Pages :
        /\ Buddy!Suits(n, k) /\ Buddy!Fits(i, k)
        /\ held' = held \cup {[start |-> i, order |-> k, refs |-> 1]}
        /\ ret' = [pages |-> n, start |-> i]
  BY DEF Buddy!Alloc
<1> DEFINE b == [start |-> i, order |-> k, refs |-> 1]
<1>2. i \in Pages /\ i \in Nat /\ k \in 0..MAX_ORDER /\ 2^k \in Nat \ {0}
  BY <1>1, PowersAssumption DEF Buddy!Orders, Buddy!Pages, Pages
<1>3. /\ Buddy!PagesOf(b) = Buddy!Block(i, k) /\ b.start = i /\ b.order = k
      /\ b \in [start : Pages, order : 0..MAX_ORDER, refs : {1}]
  BY <1>2 DEF Buddy!PagesOf
<1>4. Buddy!PagesOf(b) \subseteq Pages /\ \A c \in held : Buddy!PagesOf(b) \cap Buddy!PagesOf(c) = {}
  BY <1>1, <1>3 DEF Buddy!Fits, Buddy!Taken, Buddy!Pages, Pages
<1>5. i \in Buddy!PagesOf(b)
  <2> DEFINE m == 2^k
  <2>1. Buddy!Block(i, k) = i..(i + m - 1)
    BY DEF Buddy!Block
  <2>2. m \in Nat \ {0}
    BY <1>2
  <2> HIDE DEF m
  <2>3. QED BY <1>2, <1>3, <2>1, <2>2
<1>6. b \notin held /\ held' = held \cup {b}
  BY <1>1, <1>4, <1>5
<1> HIDE DEF b
<1>7. Blocks
  BY DEF IInv
<1>8. Blocks'
  BY <1>3, <1>4, <1>6, <1>7 DEF Blocks
<1>9. ASSUME NEW j \in Buddy!PagesOf(b)
      PROVE  /\ page_pool_idx[j] = LARGE /\ j \in Pages \ page_users
             /\ \A o \in objects : PageOf(o.addr) # j
             /\ \A c \in held : j \notin Buddy!PagesOf(c) /\ c.start # j
  <2>1. j \in Pages /\ j \in Nat
    BY <1>4, <1>9 DEF Pages
  <2>2. \A c \in held : j \notin Buddy!PagesOf(c) /\ c.start # j
    BY <1>4, <1>7, <1>9, BlockFacts
  <2>3. Single(j) \notin held
    BY <2>1, <2>2, SingleFacts
  <2>4. page_pool_idx[j] = LARGE /\ j \notin page_users
    BY <2>1, <2>3 DEF IInv, OnePageBlocks
  <2>5. \A o \in objects : PageOf(o.addr) # j
    BY <2>2, HomeBlock
  <2>6. QED BY <2>1, <2>2, <2>4, <2>5
<1>10. Fresh(b)
  BY <1>3, <1>5, <1>6, <1>9 DEF Fresh
<1>11. n <= 2^k /\ (n = 1 => k = 0)
  <2>1. n <= 2^k /\ (k > 0 => 2^(k - 1) < n)
    BY <1>1 DEF Buddy!Suits
  <2>2. ASSUME n = 1, k # 0 PROVE FALSE
    <3>1. MAX_ORDER \in Nat
      BY PoolsAssumption
    <3>2. k > 0 /\ k - 1 \in 0..MAX_ORDER
      BY <1>2, <2>2, <3>1
    <3>3. 2^(k - 1) \in Nat \ {0}
      BY <3>2, PowersAssumption
    <3>4. QED BY <2>1, <2>2, <3>2, <3>3
  <2>3. QED BY <2>1, <2>2
<1>12. n = 1 => b = Single(b.start)
  BY <1>11 DEF b, Single
<1>13. ret'.start = b.start
  BY <1>1, <1>3
<1>14. QED
  BY <1>3, <1>8, <1>10, <1>11, <1>12, <1>13

\* A block that is given back: only it stops being held.
LEMMA ReleaseFacts ==
    ASSUME IInv, NEW b \in held, Buddy!Release(b)
    PROVE  held' = held \ {b} /\ Blocks'
<1>1. b.refs = 1
  BY BlockFacts DEF IInv
<1>2. held' = held \ {b}
  BY <1>1 DEF Buddy!Release
<1>3. QED
  BY <1>2 DEF IInv, Blocks

\* A block's first page is as good as an object's address.
LEMMA LargeStep ==
    ASSUME IInv, NEW size \in Sizes, kmalloc_large(size)
    PROVE  IInv'
<1>1. /\ find_pool(size) = LARGE /\ free_list' = free_list /\ page_users' = page_users
      /\ size \in Nat \ {0}
  BY PoolsAssumption DEF kmalloc_large
<1>2. PagesFor(size) \in Nat \ {0} /\ size <= PagesFor(size) * PAGE_SIZE
  <2> DEFINE q == PagesFor(size)
  <2>1. PAGE_SIZE \in Nat \ {0} /\ size + PAGE_SIZE - 1 \in Nat
    BY <1>1, PoolsAssumption
  <2>2. q = (size + PAGE_SIZE - 1) \div PAGE_SIZE
    BY DEF PagesFor
  <2> HIDE DEF q
  <2>3. q \in Nat /\ q * PAGE_SIZE <= size + PAGE_SIZE - 1 /\ size + PAGE_SIZE - 1 < q * PAGE_SIZE + PAGE_SIZE
    BY <2>1, <2>2, Quotient
  <2>4. q * PAGE_SIZE \in Nat
    BY <2>1, <2>3
  <2>5. size <= q * PAGE_SIZE
    BY <1>1, <2>1, <2>3, <2>4
  <2>6. q # 0
    BY <1>1, <2>1, <2>5
  <2>7. QED BY <2>3, <2>5, <2>6 DEF q
<1>3. CASE Buddy!Fail(PagesFor(size)) /\ UNCHANGED <<page_pool_idx, objects>>
  <2>1. held' = held
    BY <1>3 DEF Buddy!Fail
  <2>2. QED
    BY <1>1, <1>3, <2>1 DEF IInv, TypeOK, Blocks, OnePageBlocks, ObjectsInPlace, IsChunk,
        IsLarge, FreeInPlace, ChunksKept, NoBlockIsLost
<1>4. CASE /\ Buddy!Alloc(PagesFor(size))
           /\ page_pool_idx' = [i \in Pages |->
                 IF i \in ret'.start..(ret'.start + PagesFor(size) - 1) THEN LARGE
                 ELSE page_pool_idx[i]]
           /\ objects' = objects \cup {[addr |-> ret'.start * PAGE_SIZE, size |-> size]}
  <2>1. PICK b : Fresh(b) /\ ret'.start = b.start /\ PagesFor(size) <= 2^b.order /\ Blocks'
    BY <1>2, <1>4, AllocFacts
  <2> DEFINE i == b.start
             n == 2^b.order
             o == [addr |-> i * PAGE_SIZE, size |-> size]
  <2>2. i \in Pages /\ i \in Nat /\ n \in Nat \ {0} /\ Buddy!PagesOf(b) = i..(i + n - 1)
    BY <2>1, PowersAssumption DEF Fresh, Pages, Buddy!PagesOf, Buddy!Block
  <2>3. i \in Buddy!PagesOf(b)
    BY <2>1 DEF Fresh
  <2>4. \A j \in Buddy!PagesOf(b) : /\ page_pool_idx[j] = LARGE /\ j \in Pages \ page_users
                                    /\ \A u \in objects : PageOf(u.addr) # j
                                    /\ \A c \in held : c.start # j
    BY <2>1 DEF Fresh
  <2>5. PagesFor(size) <= n /\ objects' = objects \cup {o} /\ held' = held \cup {b}
    BY <1>4, <2>1 DEF Fresh
  <2>6. page_pool_idx' = page_pool_idx
    <3>1. page_pool_idx \in [Pages -> Pools \cup {LARGE}]
      BY DEF IInv, TypeOK
    <3>2. i..(i + PagesFor(size) - 1) \subseteq Buddy!PagesOf(b)
      <4> HIDE DEF n, i
      <4>1. QED BY <1>2, <2>2, <2>5
    <3>3. \A j \in Pages : page_pool_idx'[j] = page_pool_idx[j]
      BY <1>4, <2>1, <2>4, <3>2
    <3>4. QED BY <1>4, <3>1, <3>3
  <2>7. o.addr = i * PAGE_SIZE /\ o.size = size /\ PageOf(o.addr) = i
    BY <2>2, PageStart
  <2>8. o.size <= n * PAGE_SIZE
    <3>1. PAGE_SIZE \in Nat
      BY PoolsAssumption
    <3> DEFINE m == PagesFor(size)
    <3>2. m \in Nat /\ m <= n /\ size <= m * PAGE_SIZE
      BY <1>2, <2>5
    <3> HIDE DEF m, n
    <3>3. m * PAGE_SIZE <= n * PAGE_SIZE
      <4>1. m < n => m * PAGE_SIZE + PAGE_SIZE <= n * PAGE_SIZE /\ m * PAGE_SIZE \in Nat /\ n * PAGE_SIZE \in Nat
        BY <2>2, <3>1, <3>2, Products
      <4>2. n * PAGE_SIZE \in Nat
        BY <2>2, <3>1
      <4>3. QED BY <2>2, <3>1, <3>2, <4>1, <4>2
    <3>4. m * PAGE_SIZE \in Nat /\ n * PAGE_SIZE \in Nat
      BY <2>2, <3>1, <3>2
    <3>5. QED BY <1>1, <2>7, <3>2, <3>3, <3>4
  <2>9. TypeOK'
    <3>1. o.addr \in 0..(total_pages * PAGE_SIZE - 1)
      <4>1. total_pages \in Nat /\ PAGE_SIZE \in Nat \ {0} /\ i < total_pages
        BY <2>2, PoolsAssumption DEF Pages
      <4> HIDE DEF i
      <4>2. /\ i * PAGE_SIZE + PAGE_SIZE <= total_pages * PAGE_SIZE
            /\ i * PAGE_SIZE \in Nat /\ total_pages * PAGE_SIZE \in Nat
        BY <2>2, <4>1, Products
      <4>3. i * PAGE_SIZE \in 0..(total_pages * PAGE_SIZE - 1)
        BY <4>1, <4>2
      <4>4. QED BY <2>7, <4>3
    <3> DEFINE A == 0..(total_pages * PAGE_SIZE - 1)
    <3>2. o.addr \in A
      BY <3>1
    <3> HIDE DEF A
    <3>3. o \in [addr : A, size : Sizes]
      BY <2>7, <3>2
    <3>4. QED BY <1>1, <2>5, <2>6, <3>3 DEF IInv, TypeOK, A
  <2> HIDE DEF n, o
  <2>10. OnePageBlocks'
    BY <1>1, <2>5, <2>6 DEF IInv, OnePageBlocks
  <2>11. ObjectsInPlace'
    <3>1. b.start = i /\ o.size <= 2^b.order * PAGE_SIZE /\ b \in held'
      BY <2>5, <2>8 DEF n
    <3> HIDE DEF i
    <3>2. IsLarge(o, i)'
      BY <2>3, <2>4, <2>6, <2>7, <3>1 DEF IsLarge
    <3>3. \A u \in objects : /\ IsChunk(u, PageOf(u.addr)) => IsChunk(u, PageOf(u.addr))'
                             /\ IsLarge(u, PageOf(u.addr)) => IsLarge(u, PageOf(u.addr))'
      BY <2>5, <2>6 DEF IsChunk, IsLarge
    <3>4. \A u \in objects : u.addr # o.addr
      BY <2>3, <2>4, <2>7
    <3>5. PageOf(o.addr) \in Pages \ page_users
      BY <2>3, <2>4, <2>7
    <3>6. \A u \in objects' : /\ PageOf(u.addr) \in Pages \ page_users'
                              /\ IsChunk(u, PageOf(u.addr))' \/ IsLarge(u, PageOf(u.addr))'
      BY <1>1, <2>5, <2>7, <3>2, <3>3, <3>5 DEF IInv, ObjectsInPlace
    <3>7. \A u, v \in objects' : u.addr = v.addr => u = v
      BY <2>5, <3>4 DEF IInv, ObjectsInPlace
    <3>8. QED BY <3>6, <3>7 DEF ObjectsInPlace
  <2>12. FreeInPlace'
    <3>1. ASSUME NEW p \in Pools, NEW a \in Range(free_list[p]) PROVE o.addr # a
      <4>1. page_pool_idx[PageOf(a)] = p /\ p # LARGE
        BY <3>1, PoolFacts DEF IInv, FreeInPlace
      <4>2. QED BY <2>3, <2>4, <2>7, <4>1
    <3>2. QED BY <1>1, <2>5, <2>6, <3>1 DEF IInv, FreeInPlace
  <2>13. ChunksKept'
    BY <1>1, <2>5, <2>6 DEF IInv, ChunksKept
  <2>14. NoBlockIsLost'
    BY <1>1, <2>5, <2>6, <2>7 DEF IInv, NoBlockIsLost
  <2>15. QED
    BY <2>1, <2>9, <2>10, <2>11, <2>12, <2>13, <2>14 DEF IInv
<1>5. QED
  BY <1>3, <1>4 DEF kmalloc_large

\* A chunk goes to a caller: from a list that has all the pool's chunks, those
\* of a page that is new to it included.
LEMMA PopStep ==
    ASSUME IInv, NEW size \in Sizes, NEW pool \in Pools, size <= pool_sizes[pool],
           NEW list \in Seq(Nat), list # <<>>, IsInjective(list), pop(pool, list, size),
           page_users' = page_users, page_pool_idx' \in [Pages -> Pools \cup {LARGE}],
           \A i \in Pages : page_pool_idx'[i] # page_pool_idx[i] =>
               /\ page_pool_idx[i] = LARGE /\ page_pool_idx'[i] = pool
               /\ i \notin page_users /\ \A o \in objects : PageOf(o.addr) # i
               /\ Chunks(i, pool_sizes[pool]) \subseteq Range(list),
           \A a \in Range(list) :
               /\ PageOf(a) \in Pages \ page_users /\ page_pool_idx'[PageOf(a)] = pool
               /\ a \in Chunks(PageOf(a), pool_sizes[pool]) /\ \A o \in objects : o.addr # a,
           Range(free_list[pool]) \subseteq Range(list),
           Blocks', OnePageBlocks', held \subseteq held',
           \A b \in held' \ held : page_pool_idx'[b.start] # LARGE
    PROVE  IInv'
<1> DEFINE x == Head(list)
           o == [addr |-> x, size |-> size]
           i == PageOf(x)
           fl == Tail(list)
<1>1. /\ x \in Nat /\ fl \in Seq(Nat) /\ IsInjective(fl)
      /\ x \in Range(list) /\ x \notin Range(fl) /\ Range(list) = {x} \cup Range(fl)
  BY HeadTail
<1>2. /\ free_list \in [Pools -> Seq(Nat)] /\ page_pool_idx \in [Pages -> Pools \cup {LARGE}]
      /\ objects \subseteq [addr : 0..(total_pages * PAGE_SIZE - 1), size : Sizes]
      /\ page_users \subseteq Pages
  BY DEF IInv, TypeOK
<1>3. /\ free_list' = [free_list EXCEPT ![pool] = fl] /\ objects' = objects \cup {o}
  BY DEF pop
<1>4. /\ free_list'[pool] = fl /\ \A p \in Pools : p # pool => free_list'[p] = free_list[p]
      /\ free_list' \in [Pools -> Seq(Nat)]
  BY <1>1, <1>2, <1>3
<1>5. o.addr = x /\ o.size = size
  OBVIOUS
<1> HIDE DEF o, fl, x
<1>6. /\ i \in Pages \ page_users /\ page_pool_idx'[i] = pool /\ i \in Nat
      /\ x \in Chunks(i, pool_sizes[pool]) /\ \A u \in objects : u.addr # x
  BY <1>1 DEF Pages
<1> HIDE DEF i
<1>7. pool # LARGE
  BY PoolFacts
<1>8. TypeOK'
  <2>1. total_pages \in Nat /\ PAGE_SIZE \in Nat \ {0} /\ i < total_pages
    BY <1>6, PoolsAssumption DEF Pages
  <2>2. /\ i * PAGE_SIZE + PAGE_SIZE <= total_pages * PAGE_SIZE
        /\ i * PAGE_SIZE \in Nat /\ total_pages * PAGE_SIZE \in Nat
    BY <1>6, <2>1, Products
  <2>3. x \in PageExtent(i)
    <3>1. pool_sizes[pool] \in Nat \ {0}
      BY PoolFacts
    <3>2. x..(x + pool_sizes[pool] - 1) \subseteq PageExtent(i)
      BY <1>6, ChunkFacts
    <3>3. x \in x..(x + pool_sizes[pool] - 1)
      BY <1>1, <3>1
    <3>4. QED BY <3>2, <3>3
  <2>4. i * PAGE_SIZE <= x /\ x < i * PAGE_SIZE + PAGE_SIZE
    BY <1>1, <2>1, <2>2, <2>3 DEF PageExtent
  <2>5. x \in 0..(total_pages * PAGE_SIZE - 1)
    BY <1>1, <2>1, <2>2, <2>4
  <2> DEFINE A == 0..(total_pages * PAGE_SIZE - 1)
  <2>6. x \in A /\ objects \subseteq [addr : A, size : Sizes]
    BY <1>2, <2>5
  <2> HIDE DEF A
  <2>7. o \in [addr : A, size : Sizes]
    BY <2>6 DEF o
  <2>8. objects' \subseteq [addr : A, size : Sizes]
    BY <1>3, <2>6, <2>7
  <2>9. QED BY <1>2, <1>4, <2>8 DEF TypeOK, A
<1>9. ObjectsInPlace'
  <2>1. IsChunk(o, i)'
    BY <1>5, <1>6, <1>7 DEF IsChunk
  <2>2. ASSUME NEW u \in objects
        PROVE  /\ PageOf(u.addr) \in Pages \ page_users
               /\ IsChunk(u, PageOf(u.addr))' \/ IsLarge(u, PageOf(u.addr))'
    <3>1. PageOf(u.addr) \in Pages \ page_users
      BY DEF IInv, ObjectsInPlace
    <3>2. page_pool_idx'[PageOf(u.addr)] = page_pool_idx[PageOf(u.addr)]
      BY <3>1
    <3>3. IsChunk(u, PageOf(u.addr)) \/ IsLarge(u, PageOf(u.addr))
      BY DEF IInv, ObjectsInPlace
    <3>4. IsChunk(u, PageOf(u.addr)) => IsChunk(u, PageOf(u.addr))'
      BY <3>2 DEF IsChunk
    <3>5. IsLarge(u, PageOf(u.addr)) => IsLarge(u, PageOf(u.addr))'
      BY <3>2 DEF IsLarge
    <3>6. QED BY <3>1, <3>3, <3>4, <3>5
  <2>3. /\ PageOf(o.addr) \in Pages \ page_users
        /\ IsChunk(o, PageOf(o.addr))' \/ IsLarge(o, PageOf(o.addr))'
    BY <1>5, <1>6, <2>1 DEF i
  <2>4. \A u, v \in objects' : u.addr = v.addr => u = v
    BY <1>3, <1>5, <1>6 DEF IInv, ObjectsInPlace
  <2>5. QED BY <1>3, <2>2, <2>3, <2>4 DEF ObjectsInPlace
<1>10. FreeInPlace'
  <2> SUFFICES ASSUME NEW p \in Pools
               PROVE  /\ IsInjective(free_list'[p])
                      /\ \A a \in Range(free_list'[p]) :
                            /\ PageOf(a) \in Pages /\ page_pool_idx'[PageOf(a)] = p
                            /\ a \in Chunks(PageOf(a), pool_sizes[p])
                            /\ \A u \in objects' : u.addr # a
    BY DEF FreeInPlace
  <2>1. CASE p = pool
    <3>1. free_list'[p] = fl
      BY <1>4, <2>1
    <3>2. \A a \in Range(fl) : a # x /\ a \in Range(list)
      BY <1>1
    <3>3. QED BY <1>1, <1>3, <1>5, <2>1, <3>1, <3>2
  <2>2. CASE p # pool
    <3>1. free_list'[p] = free_list[p]
      BY <1>4, <2>2
    <3>2. ASSUME NEW a \in Range(free_list[p])
          PROVE  /\ PageOf(a) \in Pages /\ page_pool_idx'[PageOf(a)] = p
                 /\ a \in Chunks(PageOf(a), pool_sizes[p])
                 /\ \A u \in objects' : u.addr # a
      <4>1. /\ PageOf(a) \in Pages /\ page_pool_idx[PageOf(a)] = p
            /\ a \in Chunks(PageOf(a), pool_sizes[p]) /\ \A u \in objects : u.addr # a
        BY DEF IInv, FreeInPlace
      <4>2. page_pool_idx'[PageOf(a)] = p
        BY <4>1, PoolFacts
      <4>3. a # x
        BY <1>6, <2>2, <4>2 DEF i
      <4>4. QED BY <1>3, <1>5, <4>1, <4>2, <4>3
    <3>3. IsInjective(free_list[p])
      BY DEF IInv, FreeInPlace
    <3>4. QED BY <3>1, <3>2, <3>3
  <2>3. QED BY <2>1, <2>2
<1>11. ChunksKept'
  <2> SUFFICES ASSUME NEW j \in Pages, page_pool_idx'[j] # LARGE,
                      NEW a \in Chunks(j, pool_sizes[page_pool_idx'[j]])
               PROVE  a \in Range(free_list'[page_pool_idx'[j]]) \/ \E u \in objects' : u.addr = a
    BY DEF ChunksKept
  <2>1. o \in objects' /\ objects \subseteq objects'
    BY <1>3
  <2>2. CASE page_pool_idx'[j] = pool
    <3>1. a \in Range(list) \/ \E u \in objects : u.addr = a
      <4>1. CASE page_pool_idx'[j] # page_pool_idx[j]
        BY <2>2, <4>1
      <4>2. CASE page_pool_idx'[j] = page_pool_idx[j]
        <5>1. a \in Range(free_list[pool]) \/ \E u \in objects : u.addr = a
          BY <2>2, <4>2 DEF IInv, ChunksKept
        <5>2. QED BY <5>1
      <4>3. QED BY <4>1, <4>2
    <3>2. QED BY <1>1, <1>4, <1>5, <2>1, <2>2, <3>1
  <2>3. CASE page_pool_idx'[j] # pool
    <3>1. page_pool_idx'[j] = page_pool_idx[j]
      BY <2>3
    <3>2. a \in Range(free_list[page_pool_idx[j]]) \/ \E u \in objects : u.addr = a
      BY <3>1 DEF IInv, ChunksKept
    <3>3. free_list'[page_pool_idx[j]] = free_list[page_pool_idx[j]]
      <4>1. page_pool_idx[j] \in Pools /\ page_pool_idx[j] # pool
        BY <1>2, <2>3, <3>1
      <4>2. QED BY <1>4, <4>1
    <3>4. QED BY <2>1, <3>1, <3>2, <3>3
  <2>4. QED BY <2>2, <2>3
<1>12. NoBlockIsLost'
  <2> SUFFICES ASSUME NEW b \in held'
               PROVE  \/ page_pool_idx'[b.start] # LARGE \/ b.start \in page_users'
                      \/ \E u \in objects' : u.addr = b.start * PAGE_SIZE
    BY DEF NoBlockIsLost
  <2>1. CASE b \in held
    <3>1. b.start \in Pages
      BY <2>1, BlockFacts DEF IInv
    <3>2. \/ page_pool_idx[b.start] # LARGE \/ b.start \in page_users
          \/ \E u \in objects : u.addr = b.start * PAGE_SIZE
      BY <2>1 DEF IInv, NoBlockIsLost
    <3>3. page_pool_idx[b.start] # LARGE => page_pool_idx'[b.start] # LARGE
      BY <3>1
    <3>4. QED BY <1>3, <3>2, <3>3
  <2>2. CASE b \notin held
    BY <2>2
  <2>3. QED BY <2>1, <2>2
<1>13. QED
  BY <1>8, <1>9, <1>10, <1>11, <1>12 DEF IInv

LEMMA SmallStep ==
    ASSUME IInv, NEW size \in Sizes, kmalloc_small(size)
    PROVE  IInv'
<1> DEFINE pool == find_pool(size)
<1>1. /\ pool # LARGE /\ page_users' = page_users
      /\ \/ free_list[pool] # <<>> /\ pop(pool, free_list[pool], size)
               /\ UNCHANGED <<page_pool_idx, held, ret>>
         \/ /\ free_list[pool] = <<>> /\ Buddy!Alloc(1)
            /\ page_pool_idx' = Marked(ret'.start, pool)
            /\ pop(pool, Sliced(ret'.start, pool_sizes[pool]), size)
         \/ Buddy!Fail(1) /\ UNCHANGED <<free_list, page_pool_idx, objects>>
  BY DEF kmalloc_small
<1>2. pool \in Pools /\ size <= pool_sizes[pool]
  <2>1. size \in Nat
    BY PoolsAssumption
  <2>2. QED BY <1>1, <2>1, FindPool
<1> HIDE DEF pool
<1>3. /\ free_list \in [Pools -> Seq(Nat)] /\ page_pool_idx \in [Pages -> Pools \cup {LARGE}]
  BY DEF IInv, TypeOK
<1>4. CASE /\ free_list[pool] # <<>> /\ pop(pool, free_list[pool], size)
           /\ UNCHANGED <<page_pool_idx, held, ret>>
  <2> DEFINE list == free_list[pool]
  <2>1. /\ list \in Seq(Nat) /\ list # <<>> /\ IsInjective(list)
        /\ \A a \in Range(list) :
              /\ PageOf(a) \in Pages /\ page_pool_idx[PageOf(a)] = pool
              /\ a \in Chunks(PageOf(a), pool_sizes[pool]) /\ \A o \in objects : o.addr # a
    BY <1>2, <1>3, <1>4 DEF IInv, FreeInPlace
  <2>2. \A a \in Range(list) : PageOf(a) \notin page_users
    BY <1>1, <2>1 DEF IInv, OnePageBlocks
  <2>3. Blocks' /\ OnePageBlocks'
    BY <1>1, <1>4 DEF IInv, Blocks, OnePageBlocks
  <2>4. page_pool_idx' = page_pool_idx /\ held' = held /\ pop(pool, list, size)
        /\ Range(free_list[pool]) \subseteq Range(list)
    BY <1>4
  <2> HIDE DEF list
  <2>5. page_pool_idx' \in [Pages -> Pools \cup {LARGE}]
    BY <1>3, <2>4
  <2>6. \A a \in Range(list) :
           /\ PageOf(a) \in Pages \ page_users /\ page_pool_idx'[PageOf(a)] = pool
           /\ a \in Chunks(PageOf(a), pool_sizes[pool]) /\ \A o \in objects : o.addr # a
    BY <2>1, <2>2, <2>4
  <2>7. /\ \A i \in Pages : page_pool_idx'[i] = page_pool_idx[i]
        /\ held \subseteq held' /\ held' \ held = {}
    BY <2>4
  <2>8. QED
    BY <1>1, <1>2, <2>1, <2>3, <2>4, <2>5, <2>6, <2>7, PopStep
<1>5. CASE /\ free_list[pool] = <<>> /\ Buddy!Alloc(1)
           /\ page_pool_idx' = Marked(ret'.start, pool)
           /\ pop(pool, Sliced(ret'.start, pool_sizes[pool]), size)
  <2>1. PICK b : Fresh(b) /\ ret'.start = b.start /\ b = Single(b.start) /\ Blocks'
    BY <1>5, AllocFacts
  <2> DEFINE i == b.start
             list == Sliced(i, pool_sizes[pool])
  <2>2. /\ i \in Pages /\ i \in Nat /\ page_pool_idx[i] = LARGE /\ i \notin page_users
        /\ \A o \in objects : PageOf(o.addr) # i
        /\ held' = held \cup {b}
    BY <2>1 DEF Fresh, Pages
  <2>3. page_pool_idx' = [page_pool_idx EXCEPT ![i] = pool] /\ pop(pool, list, size)
    BY <1>5, <2>1 DEF Marked
  <2>4. /\ list \in Seq(Nat) /\ list # <<>> /\ IsInjective(list)
        /\ Range(list) = Chunks(i, pool_sizes[pool])
    BY <1>2, <2>2, SlicedFacts
  <2>5. b = Single(i)
    BY <2>1
  <2> HIDE DEF list, i
  <2>6. /\ page_pool_idx' \in [Pages -> Pools \cup {LARGE}] /\ page_pool_idx'[i] = pool
        /\ \A j \in Pages : j # i => page_pool_idx'[j] = page_pool_idx[j]
    BY <1>2, <1>3, <2>2, <2>3
  <2>7. \A a \in Range(list) :
           /\ PageOf(a) \in Pages \ page_users /\ page_pool_idx'[PageOf(a)] = pool
           /\ a \in Chunks(PageOf(a), pool_sizes[pool]) /\ \A o \in objects : o.addr # a
    <3> SUFFICES ASSUME NEW a \in Range(list)
                 PROVE  /\ PageOf(a) \in Pages \ page_users /\ page_pool_idx'[PageOf(a)] = pool
                        /\ a \in Chunks(PageOf(a), pool_sizes[pool])
                        /\ \A o \in objects : o.addr # a
      OBVIOUS
    <3>1. a \in Chunks(i, pool_sizes[pool]) /\ PageOf(a) = i
      BY <1>2, <2>2, <2>4, ChunkFacts
    <3>2. QED BY <2>2, <2>6, <3>1
  <2>8. \A j \in Pages : page_pool_idx'[j] # page_pool_idx[j] =>
           /\ page_pool_idx[j] = LARGE /\ page_pool_idx'[j] = pool
           /\ j \notin page_users /\ \A o \in objects : PageOf(o.addr) # j
           /\ Chunks(j, pool_sizes[pool]) \subseteq Range(list)
    BY <2>2, <2>4, <2>6
  <2>9. Range(free_list[pool]) \subseteq Range(list)
    BY <1>5 DEF Range
  <2>10. OnePageBlocks'
    <3>1. \A j \in Pages : page_pool_idx'[j] # LARGE => Single(j) \in held'
      BY <2>2, <2>5, <2>6 DEF IInv, OnePageBlocks
    <3>2. \A j \in page_users : Single(j) \in held' /\ page_pool_idx'[j] = LARGE
      BY <2>2, <2>6 DEF IInv, OnePageBlocks, TypeOK
    <3>3. QED BY <1>1, <3>1, <3>2 DEF OnePageBlocks
  <2>11. \A c \in held' \ held : page_pool_idx'[c.start] # LARGE
    BY <1>1, <2>2, <2>6 DEF i
  <2>12. held \subseteq held' /\ Blocks'
    BY <2>1, <2>2
  <2>13. QED
    BY <1>1, <1>2, <2>3, <2>4, <2>6, <2>7, <2>8, <2>9, <2>10, <2>11, <2>12, PopStep
<1>6. CASE Buddy!Fail(1) /\ UNCHANGED <<free_list, page_pool_idx, objects>>
  <2>1. held' = held
    BY <1>6 DEF Buddy!Fail
  <2>2. QED
    BY <1>1, <1>6, <2>1 DEF IInv, TypeOK, Blocks, OnePageBlocks, ObjectsInPlace, IsChunk,
        IsLarge, FreeInPlace, ChunksKept, NoBlockIsLost
<1>7. QED
  BY <1>1, <1>4, <1>5, <1>6

LEMMA FreeLarge ==
    ASSUME IInv, NEW o \in objects, objects' = objects \ {o},
           page_pool_idx[PageOf(o.addr)] = LARGE,
           UNCHANGED <<page_users, page_pool_idx, free_list>>,
           NEW b \in held, b.start = PageOf(o.addr), Buddy!Release(b)
    PROVE  IInv'
<1> DEFINE i == PageOf(o.addr)
<1>1. held' = held \ {b} /\ Blocks'
  BY ReleaseFacts
<1>2. /\ i \in Pages \ page_users /\ i \in Nat /\ IsLarge(o, i)
      /\ o.addr = i * PAGE_SIZE /\ page_pool_idx[i] = LARGE /\ b.start = i
  BY DEF IInv, ObjectsInPlace, IsChunk, IsLarge, Pages
<1> HIDE DEF i
<1>3. \A c \in held : c # b => c.start # i
  BY <1>2, BlockFacts DEF IInv
<1>4. TypeOK'
  BY DEF IInv, TypeOK
<1>5. OnePageBlocks'
  <2>1. \A j \in Pages : j # i => Single(j) # b
    BY <1>2 DEF Single
  <2>2. page_users \subseteq Pages
    BY DEF IInv, TypeOK
  <2>3. QED BY <1>1, <1>2, <2>1, <2>2 DEF IInv, OnePageBlocks
<1>6. ObjectsInPlace'
  <2>1. ASSUME NEW u \in objects'
        PROVE  /\ PageOf(u.addr) \in Pages \ page_users
               /\ IsChunk(u, PageOf(u.addr))' \/ IsLarge(u, PageOf(u.addr))'
    <3>1. u \in objects /\ u.addr # o.addr
      BY DEF IInv, ObjectsInPlace
    <3>2. /\ PageOf(u.addr) \in Pages \ page_users
          /\ IsChunk(u, PageOf(u.addr)) \/ IsLarge(u, PageOf(u.addr))
      BY <3>1 DEF IInv, ObjectsInPlace
    <3>3. CASE IsChunk(u, PageOf(u.addr))
      BY <3>2, <3>3 DEF IsChunk
    <3>4. CASE IsLarge(u, PageOf(u.addr))
      <4>1. PageOf(u.addr) # i
        BY <1>2, <3>1, <3>4 DEF IsLarge
      <4>2. \A c \in held : c.start = PageOf(u.addr) => c \in held'
        BY <1>1, <1>2, <4>1
      <4>3. QED BY <3>2, <3>4, <4>2 DEF IsLarge
    <3>5. QED BY <3>2, <3>3, <3>4
  <2>2. \A u, v \in objects' : u.addr = v.addr => u = v
    BY DEF IInv, ObjectsInPlace
  <2>3. QED BY <2>1, <2>2 DEF ObjectsInPlace
<1>7. FreeInPlace'
  BY DEF IInv, FreeInPlace
<1>8. ChunksKept'
  <2>1. ASSUME NEW j \in Pages, page_pool_idx[j] # LARGE,
               NEW a \in Chunks(j, pool_sizes[page_pool_idx[j]])
        PROVE  a # o.addr
    <3>1. page_pool_idx[j] \in Pools /\ j \in Nat
      BY <2>1 DEF IInv, TypeOK, Pages
    <3>2. PageOf(a) = j
      BY <3>1, ChunkFacts
    <3>3. QED BY <1>2, <2>1, <3>2 DEF i
  <2>2. QED BY <2>1 DEF IInv, ChunksKept
<1>9. NoBlockIsLost'
  <2>1. ASSUME NEW c \in held' PROVE c.start * PAGE_SIZE # o.addr
    <3>1. c \in held /\ c.start \in Nat /\ c.start # i
      BY <1>1, <1>3, BlockFacts DEF IInv
    <3>2. PageOf(c.start * PAGE_SIZE) = c.start
      BY <3>1, PageStart
    <3>3. QED BY <3>1, <3>2 DEF i
  <2>2. QED BY <1>1, <2>1 DEF IInv, NoBlockIsLost
<1>10. QED
  BY <1>1, <1>4, <1>5, <1>6, <1>7, <1>8, <1>9 DEF IInv

LEMMA FreeChunk ==
    ASSUME IInv, NEW o \in objects, objects' = objects \ {o},
           page_pool_idx[PageOf(o.addr)] # LARGE,
           UNCHANGED <<page_users, page_pool_idx, held>>,
           free_list' = [free_list EXCEPT ![page_pool_idx[PageOf(o.addr)]] = <<o.addr>> \o @]
    PROVE  IInv'
<1> DEFINE i == PageOf(o.addr)
           pool == page_pool_idx[i]
<1>1. /\ i \in Pages /\ i \in Nat /\ pool \in Pools /\ pool # LARGE
      /\ o.addr \in Chunks(i, pool_sizes[pool])
  BY DEF IInv, ObjectsInPlace, IsChunk, IsLarge, Pages, TypeOK
<1>2. o.addr \in Nat
  BY HomeBlock
<1>3. /\ free_list \in [Pools -> Seq(Nat)]
      /\ free_list' = [free_list EXCEPT ![pool] = <<o.addr>> \o free_list[pool]]
  BY DEF IInv, TypeOK
<1> DEFINE q == free_list[pool]
           r == <<o.addr>> \o q
<1>4. /\ q \in Seq(Nat) /\ IsInjective(q) /\ o.addr \notin Range(q)
  BY <1>1, <1>3 DEF IInv, FreeInPlace
<1> HIDE DEF q
<1>5. r \in Seq(Nat) /\ Range(r) = {o.addr} \cup Range(q) /\ IsInjective(r)
  BY <1>2, <1>4, PushFront
<1> HIDE DEF r
<1>6. free_list' = [free_list EXCEPT ![pool] = r]
  BY <1>3 DEF r, q
<1> HIDE DEF pool
<1>7. /\ free_list'[pool] = r /\ \A p \in Pools : p # pool => free_list'[p] = free_list[p]
      /\ free_list' \in [Pools -> Seq(Nat)]
  BY <1>1, <1>3, <1>5, <1>6
<1>8. i = PageOf(o.addr) /\ pool = page_pool_idx[i]
  BY DEF pool
<1> HIDE DEF i
<1>9. TypeOK'
  BY <1>7 DEF IInv, TypeOK
<1>10. Blocks' /\ OnePageBlocks'
  BY DEF IInv, Blocks, OnePageBlocks
<1>11. ObjectsInPlace'
  BY DEF IInv, ObjectsInPlace, IsChunk, IsLarge
<1>12. FreeInPlace'
  <2> SUFFICES ASSUME NEW p \in Pools
               PROVE  /\ IsInjective(free_list'[p])
                      /\ \A a \in Range(free_list'[p]) :
                            /\ PageOf(a) \in Pages /\ page_pool_idx'[PageOf(a)] = p
                            /\ a \in Chunks(PageOf(a), pool_sizes[p])
                            /\ \A u \in objects' : u.addr # a
    BY DEF FreeInPlace
  <2>1. /\ IsInjective(free_list[p])
        /\ \A a \in Range(free_list[p]) :
              /\ PageOf(a) \in Pages /\ page_pool_idx'[PageOf(a)] = p
              /\ a \in Chunks(PageOf(a), pool_sizes[p])
              /\ \A u \in objects' : u.addr # a
    BY DEF IInv, FreeInPlace
  <2>2. CASE p = pool
    <3>1. free_list'[p] = r /\ Range(q) = Range(free_list[p])
      BY <1>7, <2>2 DEF q
    <3>2. \A u \in objects' : u.addr # o.addr
      BY DEF IInv, ObjectsInPlace
    <3>3. PageOf(o.addr) \in Pages /\ page_pool_idx'[PageOf(o.addr)] = p
          /\ o.addr \in Chunks(PageOf(o.addr), pool_sizes[p])
      BY <1>1, <1>8, <2>2
    <3>4. QED BY <1>5, <2>1, <3>1, <3>2, <3>3
  <2>3. CASE p # pool
    BY <1>7, <2>1, <2>3
  <2>4. QED BY <2>2, <2>3
<1>13. ChunksKept'
  <2> SUFFICES ASSUME NEW j \in Pages, page_pool_idx[j] # LARGE,
                      NEW a \in Chunks(j, pool_sizes[page_pool_idx[j]])
               PROVE  a \in Range(free_list'[page_pool_idx[j]]) \/ \E u \in objects' : u.addr = a
    BY DEF ChunksKept
  <2>1. page_pool_idx[j] \in Pools /\ j \in Nat
    BY DEF IInv, TypeOK, Pages
  <2>2. PageOf(a) = j
    BY <2>1, ChunkFacts
  <2>3. a \in Range(free_list[page_pool_idx[j]]) \/ \E u \in objects : u.addr = a
    BY DEF IInv, ChunksKept
  <2>4. CASE a = o.addr
    <3>1. page_pool_idx[j] = pool
      BY <1>8, <2>2, <2>4
    <3>2. QED BY <1>5, <1>7, <2>4, <3>1
  <2>5. CASE a # o.addr
    <3>1. Range(free_list[page_pool_idx[j]]) \subseteq Range(free_list'[page_pool_idx[j]])
      BY <1>5, <1>7, <2>1 DEF q
    <3>2. QED BY <2>3, <2>5, <3>1
  <2>6. QED BY <2>4, <2>5
<1>14. NoBlockIsLost'
  <2>1. ASSUME NEW c \in held, page_pool_idx[c.start] = LARGE
        PROVE  c.start * PAGE_SIZE # o.addr
    <3>1. c.start \in Nat
      BY BlockFacts DEF IInv
    <3>2. PageOf(c.start * PAGE_SIZE) = c.start
      BY <3>1, PageStart
    <3>3. QED BY <1>1, <1>8, <2>1, <3>2
  <2>2. QED BY <2>1 DEF IInv, NoBlockIsLost
<1>15. QED
  BY <1>9, <1>10, <1>11, <1>12, <1>13, <1>14 DEF IInv

LEMMA FreeStep ==
    ASSUME IInv, NEW o \in objects, kfree(o)
    PROVE  IInv'
<1>1. CASE page_pool_idx[PageOf(o.addr)] = LARGE
  <2>1. PICK b \in held : b.start = PageOf(o.addr) /\ Buddy!Release(b)
    BY <1>1 DEF kfree
  <2>2. objects' = objects \ {o} /\ UNCHANGED <<page_users, page_pool_idx, free_list>>
    BY <1>1 DEF kfree
  <2>3. QED
    BY <1>1, <2>1, <2>2, FreeLarge
<1>2. CASE page_pool_idx[PageOf(o.addr)] # LARGE
  <2>1. /\ objects' = objects \ {o} /\ UNCHANGED <<page_users, page_pool_idx, held>>
        /\ free_list' = [free_list EXCEPT ![page_pool_idx[PageOf(o.addr)]] = <<o.addr>> \o @]
    BY <1>2 DEF kfree
  <2>2. QED
    BY <1>2, <2>1, FreeChunk
<1>3. QED
  BY <1>1, <1>2

\* A page that alloc_page hands out was nobody's, so no object is in it.
LEMMA AllocPageStep ==
    ASSUME IInv, alloc_page
    PROVE  IInv'
<1>1. Buddy!Alloc(1) /\ UNCHANGED <<free_list, page_pool_idx, objects>>
      /\ page_users' = page_users \cup {ret'.start}
  BY DEF alloc_page
<1>2. PICK b : Fresh(b) /\ ret'.start = b.start /\ b = Single(b.start) /\ Blocks'
  BY <1>1, AllocFacts
<1> DEFINE i == b.start
<1>3. /\ page_pool_idx[i] = LARGE /\ i \in Pages \ page_users
      /\ \A o \in objects : PageOf(o.addr) # i
      /\ held' = held \cup {b}
  BY <1>2 DEF Fresh
<1>4. page_users' = page_users \cup {i} /\ b = Single(i)
  BY <1>1, <1>2
<1> HIDE DEF i
<1>5. TypeOK'
  BY <1>1, <1>3, <1>4 DEF IInv, TypeOK
<1>6. OnePageBlocks'
  BY <1>1, <1>3, <1>4 DEF IInv, OnePageBlocks
<1>7. ObjectsInPlace'
  <2>1. \A u \in objects : /\ IsChunk(u, PageOf(u.addr)) => IsChunk(u, PageOf(u.addr))'
                           /\ IsLarge(u, PageOf(u.addr)) => IsLarge(u, PageOf(u.addr))'
    BY <1>1, <1>3 DEF IsChunk, IsLarge
  <2>2. QED
    BY <1>1, <1>3, <1>4, <2>1 DEF IInv, ObjectsInPlace
<1>8. FreeInPlace' /\ ChunksKept'
  BY <1>1 DEF IInv, FreeInPlace, ChunksKept
<1>9. NoBlockIsLost'
  <2>1. b.start \in page_users'
    BY <1>4 DEF i
  <2>2. QED BY <1>1, <1>3, <1>4, <2>1 DEF IInv, NoBlockIsLost
<1>10. QED
  BY <1>2, <1>5, <1>6, <1>7, <1>8, <1>9 DEF IInv

\* A page that is given back held no object.
LEMMA FreePageStep ==
    ASSUME IInv, NEW i \in page_users, free_page(i)
    PROVE  IInv'
<1>1. PICK b \in held : b.start = i /\ Buddy!Release(b)
  BY DEF free_page
<1>2. page_users' = page_users \ {i} /\ UNCHANGED <<free_list, page_pool_idx, objects>>
  BY DEF free_page
<1>3. held' = held \ {b} /\ Blocks'
  BY <1>1, ReleaseFacts
<1>4. i \in Pages /\ page_pool_idx[i] = LARGE
  BY DEF IInv, OnePageBlocks, TypeOK
<1>5. \A c \in held : c # b => c.start # i
  BY <1>1, BlockFacts DEF IInv
<1>6. TypeOK'
  BY <1>2 DEF IInv, TypeOK
<1>7. OnePageBlocks'
  <2>1. \A j \in Pages : j # i => Single(j) # b
    BY <1>1 DEF Single
  <2>2. page_users \subseteq Pages
    BY DEF IInv, TypeOK
  <2>3. QED BY <1>2, <1>3, <1>4, <2>1, <2>2 DEF IInv, OnePageBlocks
<1>8. ObjectsInPlace'
  <2>1. ASSUME NEW u \in objects
        PROVE  /\ IsChunk(u, PageOf(u.addr)) => IsChunk(u, PageOf(u.addr))'
               /\ IsLarge(u, PageOf(u.addr)) => IsLarge(u, PageOf(u.addr))'
    <3>1. PageOf(u.addr) # i
      BY DEF IInv, ObjectsInPlace
    <3>2. \A c \in held : c.start = PageOf(u.addr) => c \in held'
      BY <1>1, <1>3, <3>1
    <3>3. QED BY <1>2, <3>2 DEF IsChunk, IsLarge
  <2>2. QED BY <1>2, <2>1 DEF IInv, ObjectsInPlace
<1>9. FreeInPlace' /\ ChunksKept'
  BY <1>2 DEF IInv, FreeInPlace, ChunksKept
<1>10. NoBlockIsLost'
  BY <1>2, <1>3, <1>5 DEF IInv, NoBlockIsLost
<1>11. QED
  BY <1>3, <1>6, <1>7, <1>8, <1>9, <1>10 DEF IInv

LEMMA NextIInv == IInv /\ [Next]_vars => IInv'
<1> SUFFICES ASSUME IInv, [Next]_vars PROVE IInv'
  OBVIOUS
<1>1. CASE \E size \in Sizes : kmalloc_large(size) \/ kmalloc_small(size)
  BY <1>1, LargeStep, SmallStep
<1>2. CASE \E o \in objects : kfree(o)
  BY <1>2, FreeStep
<1>3. CASE alloc_page
  BY <1>3, AllocPageStep
<1>4. CASE \E i \in page_users : free_page(i)
  BY <1>4, FreePageStep
<1>5. CASE UNCHANGED vars
  BY <1>5 DEF IInv, TypeOK, Blocks, OnePageBlocks, ObjectsInPlace, IsChunk, IsLarge,
      FreeInPlace, ChunksKept, NoBlockIsLost, vars
<1>6. QED
  BY <1>1, <1>2, <1>3, <1>4, <1>5 DEF Next

-----------------------------------------------------------------------------
(* The theorems *)

\* The inductive invariant holds in every reachable state.
THEOREM Invariance == Spec => []IInv
  BY InitIInv, NextIInv, PTL DEF Spec

\* Two objects never overlap, no object overlaps a page of alloc_page's
\* callers, and each lies in memory kmalloc got from the page allocator.
THEOREM ObjectsAreAlwaysSound == Spec => []ObjectsAreSound
  BY Invariance, SoundObjects, PTL

\* kfree puts a chunk back where kmalloc took it from: every chunk of a pool's
\* page is free, in that pool, exactly once, or it is an object.
THEOREM ChunksAreAlwaysConserved == Spec => []ChunksAreConserved
  BY Invariance, ConservedChunks, PTL

\* Whatever the page allocator has given out can still be reached: it is a
\* pool's page, a large object or a page of alloc_page's callers.
THEOREM NoBlockIsEverLost == Spec => []NoBlockIsLost
<1>1. IInv => NoBlockIsLost
  BY DEF IInv
<1>2. QED
  BY Invariance, <1>1, PTL

=============================================================================
