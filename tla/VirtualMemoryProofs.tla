------------------------ MODULE VirtualMemoryProofs ------------------------
(***************************************************************************)
(* What the memory of processes keeps for every number of processes,       *)
(* frames and pages, as long as programs keep the rules VirtualMemory      *)
(* states and there is memory for areas: no frame has fewer references     *)
(* than entries that map it and faults about to, and more only where the   *)
(* child of a failed fork has mapped over it; an access an area allows     *)
(* does not end the process; and frames, sharing and copy-on-write         *)
(* implement memory that is private to each process (PrivateMemory).       *)
(***************************************************************************)
EXTENDS VirtualMemory, SequenceLemmas

-----------------------------------------------------------------------------
(* Counting entries *)

One(b) == IF b THEN 1 ELSE 0

\* Two sets that agree except perhaps on x.
LEMMA OneElementApart ==
    ASSUME NEW D, IsFiniteSet(D), NEW x \in D, NEW A \in SUBSET D, NEW B \in SUBSET D,
           \A y \in D : y # x => (y \in A <=> y \in B)
    PROVE  /\ Cardinality(A) \in Nat /\ Cardinality(B) \in Nat
           /\ Cardinality(A) + One(x \in B) = Cardinality(B) + One(x \in A)
<1> DEFINE C == A \ {x}
<1>1. IsFiniteSet(A) /\ IsFiniteSet(B) /\ IsFiniteSet(C)
  BY FS_Subset
<1>2. Cardinality(A) \in Nat /\ Cardinality(B) \in Nat /\ Cardinality(C) \in Nat
  BY <1>1, FS_CardinalityType
<1>3. C = B \ {x} /\ x \notin C
  OBVIOUS
<1>4. Cardinality(C \cup {x}) = Cardinality(C) + 1
  BY <1>1, <1>3, FS_AddElement
<1>5. Cardinality(A) = Cardinality(C) + One(x \in A)
  <2>1. CASE x \in A
    <3>1. A = C \cup {x} BY <2>1
    <3>2. QED BY <1>2, <1>4, <2>1, <3>1 DEF One
  <2>2. CASE x \notin A
    <3>1. A = C BY <2>2
    <3> HIDE DEF C
    <3>2. QED BY <1>2, <2>2, <3>1 DEF One
  <2>3. QED BY <2>1, <2>2
<1>6. Cardinality(B) = Cardinality(C) + One(x \in B)
  <2>1. CASE x \in B
    <3>1. B = C \cup {x} BY <1>3, <2>1
    <3>2. QED BY <1>2, <1>4, <2>1, <3>1 DEF One
  <2>2. CASE x \notin B
    <3>1. B = C BY <1>3, <2>2
    <3> HIDE DEF C
    <3>2. QED BY <1>2, <2>2, <3>1 DEF One
  <2>3. QED BY <2>1, <2>2
<1> HIDE DEF C
<1>7. One(x \in A) \in Nat /\ One(x \in B) \in Nat
  BY DEF One
<1>8. QED
  BY <1>2, <1>5, <1>6, <1>7

\* The pages that one process maps to a frame.
Row(P, f) == {v \in Pages : P[v].frame = f}
RowCount(P, f) == Cardinality(Row(P, f))

LEMMA PagesAreFinite == IsFiniteSet(Pages)
  BY MemoryAssumption, FS_Interval DEF Pages

LEMMA RowCountType ==
    ASSUME NEW P, NEW f
    PROVE  IsFiniteSet(Row(P, f)) /\ RowCount(P, f) \in Nat
<1>1. Row(P, f) \subseteq Pages
  BY DEF Row
<1>2. QED
  BY <1>1, PagesAreFinite, FS_Subset, FS_CardinalityType DEF RowCount

\* The entries of all processes, and the faults, that name a frame.
Maps(pt, f) == {e \in Procs \X Pages : pt[e[1]][e[2]].frame = f}
MapCount(pt, f) == Cardinality(Maps(pt, f))
FaultCount(ft, f) == Cardinality({p \in Procs : ft[p].frame = f})

LEMMA MapCountType ==
    ASSUME NEW pt, NEW f
    PROVE  IsFiniteSet(Maps(pt, f)) /\ MapCount(pt, f) \in Nat
<1>1. IsFiniteSet(Procs \X Pages)
  BY PagesAreFinite, MemoryAssumption, FS_Product
<1>2. Maps(pt, f) \subseteq Procs \X Pages
  BY DEF Maps
<1>3. QED
  BY <1>1, <1>2, FS_Subset, FS_CardinalityType DEF MapCount

LEMMA FaultCountType ==
    ASSUME NEW ft, NEW f
    PROVE  IsFiniteSet({p \in Procs : ft[p].frame = f}) /\ FaultCount(ft, f) \in Nat
<1>1. {p \in Procs : ft[p].frame = f} \subseteq Procs
  OBVIOUS
<1>2. QED
  BY <1>1, MemoryAssumption, FS_Subset, FS_CardinalityType DEF FaultCount

\* The entries of one process among them.
LEMMA RowOfMaps ==
    ASSUME NEW pt, NEW f, NEW p \in Procs
    PROVE  MapCount(pt, f) = Cardinality({e \in Maps(pt, f) : e[1] # p}) + RowCount(pt[p], f)
<1> DEFINE A == {e \in Maps(pt, f) : e[1] # p}
           B == {e \in Maps(pt, f) : e[1] = p}
           R == Row(pt[p], f)
           g == [v \in R |-> <<p, v>>]
<1>1. IsFiniteSet(A) /\ IsFiniteSet(B)
  BY MapCountType, FS_Subset
<1>2. A \cup B = Maps(pt, f) /\ A \cap B = {}
  OBVIOUS
<1>3. MapCount(pt, f) = Cardinality(A) + Cardinality(B)
  <2>1. Cardinality(A \cup B) = Cardinality(A) + Cardinality(B) - Cardinality(A \cap B)
    BY <1>1, FS_Union
  <2>2. Cardinality({}) = 0
    BY FS_EmptySet
  <2>3. Cardinality(A) \in Nat /\ Cardinality(B) \in Nat
    BY <1>1, FS_CardinalityType
  <2>4. Cardinality(A \cup B) = MapCount(pt, f) /\ Cardinality(A \cap B) = 0
    BY <1>2, <2>2 DEF MapCount
  <2> HIDE DEF A, B
  <2>5. QED BY <2>1, <2>3, <2>4
<1>4. B = {<<p, v>> : v \in R}
  BY DEF Maps, Row
<1>5. g \in [R -> B] /\ \A b \in B : \E v \in R : g[v] = b
  BY <1>4
<1>6. \A u, v \in R : g[u] = g[v] => u = v
  OBVIOUS
<1> HIDE DEF g, R, B
<1>7. g \in Bijection(R, B)
  BY <1>5, <1>6 DEF Bijection, Injection, Surjection, IsInjective
<1>8. Cardinality(B) = RowCount(pt[p], f)
  <2>1. IsFiniteSet(R)
    BY RowCountType DEF R
  <2>2. Cardinality(B) = Cardinality(R)
    BY <1>7, <2>1, FS_Bijection DEF ExistsBijection
  <2>3. QED BY <2>2 DEF RowCount, R
<1>9. QED
  BY <1>3, <1>8

\* From pt to qt the entries of p alone may change.
OnlyRow(pt, qt, p) == \A q \in Procs : q # p => qt[q] = pt[q]

\* When one process's entries change, the count of a frame changes by what
\* they contribute.
LEMMA OneRowChanges ==
    ASSUME NEW pt, NEW qt, NEW f, NEW p \in Procs, OnlyRow(pt, qt, p)
    PROVE  /\ MapCount(pt, f) \in Nat /\ MapCount(qt, f) \in Nat
           /\ RowCount(pt[p], f) \in Nat /\ RowCount(qt[p], f) \in Nat
           /\ MapCount(qt, f) + RowCount(pt[p], f) = MapCount(pt, f) + RowCount(qt[p], f)
<1> DEFINE A == {e \in Maps(pt, f) : e[1] # p}
           k == Cardinality(A)
<1>1. {e \in Maps(qt, f) : e[1] # p} = A
  BY DEF Maps, OnlyRow
<1>2. k \in Nat
  BY MapCountType, FS_Subset, FS_CardinalityType
<1>3. /\ MapCount(pt, f) = k + RowCount(pt[p], f)
      /\ MapCount(qt, f) = k + RowCount(qt[p], f)
  BY <1>1, RowOfMaps
<1> HIDE DEF A, k
<1>4. QED
  BY <1>2, <1>3, RowCountType, MapCountType

\* When a process's entries keep their frames except perhaps at page v.
LEMMA OneEntryChanges ==
    ASSUME NEW P, NEW Q, NEW f, NEW v \in Pages, \A u \in Pages : u # v => Q[u].frame = P[u].frame
    PROVE  RowCount(Q, f) + One(P[v].frame = f) = RowCount(P, f) + One(Q[v].frame = f)
<1>1. Row(P, f) \in SUBSET Pages /\ Row(Q, f) \in SUBSET Pages
  BY DEF Row
<1>2. \A u \in Pages : u # v => (u \in Row(Q, f) <=> u \in Row(P, f))
  BY DEF Row
<1>3. (v \in Row(P, f) <=> P[v].frame = f) /\ (v \in Row(Q, f) <=> Q[v].frame = f)
  BY DEF Row
<1>4. RowCount(Q, f) + One(v \in Row(P, f)) = RowCount(P, f) + One(v \in Row(Q, f))
  BY <1>1, <1>2, PagesAreFinite, OneElementApart DEF RowCount
<1>5. One(v \in Row(P, f)) = One(P[v].frame = f) /\ One(v \in Row(Q, f)) = One(Q[v].frame = f)
  BY <1>3 DEF One
<1>6. QED
  BY <1>4, <1>5

LEMMA SameFramesSameCount ==
    ASSUME NEW P, NEW Q, NEW f, \A u \in Pages : Q[u].frame = P[u].frame
    PROVE  RowCount(Q, f) = RowCount(P, f)
<1>1. Row(Q, f) = Row(P, f)
  BY DEF Row
<1>2. QED
  BY <1>1 DEF RowCount

LEMMA OneFaultChanges ==
    ASSUME NEW gt, NEW ft, NEW f, NEW p \in Procs, \A q \in Procs : q # p => gt[q].frame = ft[q].frame
    PROVE  /\ FaultCount(ft, f) \in Nat /\ FaultCount(gt, f) \in Nat
           /\ FaultCount(gt, f) + One(ft[p].frame = f) = FaultCount(ft, f) + One(gt[p].frame = f)
<1> DEFINE A == {q \in Procs : gt[q].frame = f}
           B == {q \in Procs : ft[q].frame = f}
<1>1. A \in SUBSET Procs /\ B \in SUBSET Procs /\ \A q \in Procs : q # p => (q \in A <=> q \in B)
  OBVIOUS
<1>2. (p \in A <=> gt[p].frame = f) /\ (p \in B <=> ft[p].frame = f)
  OBVIOUS
<1>3. Cardinality(A) + One(p \in B) = Cardinality(B) + One(p \in A)
  <2> HIDE DEF A, B
  <2>1. QED BY <1>1, MemoryAssumption, OneElementApart
<1>4. One(p \in B) = One(ft[p].frame = f) /\ One(p \in A) = One(gt[p].frame = f)
  BY <1>2 DEF One
<1>5. Cardinality(A) = FaultCount(gt, f) /\ Cardinality(B) = FaultCount(ft, f)
  BY DEF FaultCount
<1> HIDE DEF A, B
<1>6. QED
  BY <1>3, <1>4, <1>5, FaultCountType

-----------------------------------------------------------------------------
(* The invariant *)

AreasOf(p) == Range(vma_list[p])
AreaType == [start : Pages, end : 1..USER_TOP, prot : SUBSET Accesses,
             file : Programs \cup {Nothing}]

Counted ==
    \A f \in Frames :
        ref_count[f] \in Nat /\ ref_count[f] >= MapCount(pte, f) + FaultCount(faulting, f)

\* A task_struct that is free has nothing mapped and is in no handler.
FreeIsClean(p) ==
    status[p] = "free" => ~is_handling_signal[p] /\ \A v \in Pages : ~Present(p, v)

\* Areas do not overlap, have pages, and leave the handler's stack out.
Apart(a, b) == a.end <= b.start \/ b.end <= a.start
AreaOK(a) ==
    /\ a.start < a.end /\ ~Covers(a, SIGNAL_PAGE)
    /\ a.file # Nothing => a.end - a.start <= CODE_PAGES
AreasOK(p) ==
    /\ \A a \in AreasOf(p) : AreaOK(a)
    /\ \A a, b \in AreasOf(p) : a # b => Apart(a, b)

\* Whatever is mapped is a handler's stack or has the rights of its area, if
\* it has one, except that fork may have taken the right to write.
PagesOK(p) ==
    \A v \in Pages : Present(p, v) =>
        IF v = SIGNAL_PAGE THEN is_handling_signal[p]
        ELSE \A a \in AreasOf(p) : Covers(a, v) => PageProt(a.prot) \ {"w"} \subseteq pte[p][v].prot

\* A handler has its stack.
HandlersOK(p) ==
    status[p] = "live" /\ is_handling_signal[p] =>
        /\ signal_stack[p] \in Frames
        /\ pte[p][SIGNAL_PAGE] = [frame |-> signal_stack[p], prot |-> HandlerProt]

\* A fault that is about to map a page is a living process's, and the page is
\* not mapped, or a half-built child's at page 0; the page lies in an area.
FaultsOK(p) ==
    faulting[p] # Unmapped =>
        /\ \/ status[p] = "live" /\ ~Present(p, faulting[p].page)
           \/ status[p] = "half_built" /\ faulting[p].page = 0
        /\ \E a \in AreasOf(p) : Covers(a, faulting[p].page) /\ faulting[p].prot = PageProt(a.prot)

LayoutOf(p) == FreeIsClean(p) /\ AreasOK(p) /\ PagesOK(p) /\ HandlersOK(p) /\ FaultsOK(p)
Layout == \A p \in Procs : LayoutOf(p)

IInv == TypeOK /\ Counted /\ Layout

-----------------------------------------------------------------------------
(* Entries and areas *)

LEMMA SignalPageIsPage == SIGNAL_PAGE \in Pages
  BY MemoryAssumption DEF Pages

\* An entry is that of a frame, or Unmapped and names none.
LEMMA EntryFacts ==
    ASSUME TypeOK, NEW p \in Procs, NEW v \in Pages
    PROVE  /\ pte[p][v] \in Entries
           /\ Present(p, v) => pte[p][v] \in [frame : Frames, prot : SUBSET Accesses]
           /\ Present(p, v) => pte[p][v].frame \in Frames /\ pte[p][v].prot \in SUBSET Accesses
           /\ ~Present(p, v) => pte[p][v].frame = NoFrame /\ pte[p][v].prot = {}
<1>1. pte[p][v] \in Entries
  BY DEF TypeOK
<1>2. Present(p, v) => pte[p][v] \in [frame : Frames, prot : SUBSET Accesses]
  BY <1>1 DEF Present, Entries
<1>3. QED
  BY <1>1, <1>2 DEF Present, Unmapped

LEMMA FaultFacts ==
    ASSUME TypeOK, NEW p \in Procs
    PROVE  /\ faulting[p] # Unmapped =>
                /\ faulting[p] \in [page : Pages, frame : Frames, prot : SUBSET Accesses]
                /\ faulting[p].page \in Pages /\ faulting[p].frame \in Frames
                /\ faulting[p].prot \in SUBSET Accesses
           /\ faulting[p] = Unmapped => faulting[p].frame = NoFrame
<1>1. faulting[p] # Unmapped => faulting[p] \in [page : Pages, frame : Frames, prot : SUBSET Accesses]
  BY DEF TypeOK
<1>2. QED
  BY <1>1 DEF Unmapped

\* Nothing maps a frame without references.
LEMMA FreeIsUnused ==
    ASSUME IInv, NEW f \in Free
    PROVE  /\ f \in Frames /\ ref_count[f] = 0
           /\ \A p \in Procs : RowCount(pte[p], f) = 0 /\ faulting[p].frame # f
           /\ \A p \in Procs, v \in Pages : pte[p][v].frame # f
<1>1. f \in Frames /\ ref_count[f] = 0
  BY DEF Free
<1>2. MapCount(pte, f) = 0 /\ FaultCount(faulting, f) = 0
  <2>1. ref_count[f] >= MapCount(pte, f) + FaultCount(faulting, f)
    BY <1>1 DEF IInv, Counted
  <2>2. MapCount(pte, f) \in Nat /\ FaultCount(faulting, f) \in Nat
    BY MapCountType, FaultCountType
  <2>3. QED BY <1>1, <2>1, <2>2
<1>3. Maps(pte, f) = {} /\ {p \in Procs : faulting[p].frame = f} = {}
  BY <1>2, MapCountType, FaultCountType, FS_EmptySet DEF MapCount, FaultCount
<1>4. \A p \in Procs, v \in Pages : pte[p][v].frame # f
  <2>1. ASSUME NEW p \in Procs, NEW v \in Pages, pte[p][v].frame = f PROVE FALSE
    <3>1. <<p, v>> \in Maps(pte, f) BY <2>1 DEF Maps
    <3>2. QED BY <1>3, <3>1
  <2>2. QED BY <2>1
<1>5. \A p \in Procs : RowCount(pte[p], f) = 0
  <2>1. \A p \in Procs : Row(pte[p], f) = {}
    BY <1>4 DEF Row
  <2>2. QED BY <2>1, FS_EmptySet DEF RowCount
<1>6. QED
  BY <1>1, <1>3, <1>4, <1>5

\* AreaAt is the area that covers a page.
LEMMA AreaAtFacts ==
    ASSUME IInv, NEW p \in Procs, NEW v \in Pages, HasArea(p, v)
    PROVE  /\ AreaAt(p, v) \in AreasOf(p) /\ Covers(AreaAt(p, v), v)
           /\ \A a \in AreasOf(p) : Covers(a, v) => a = AreaAt(p, v)
<1> DEFINE I == {i \in DOMAIN vma_list[p] : Covers(vma_list[p][i], v)}
           i0 == Min(I)
<1>1. vma_list[p] \in Seq(AreaType)
  BY DEF IInv, TypeOK, AreaType
<1>2. DOMAIN vma_list[p] \subseteq Nat
  BY <1>1, LenProperties
<1>3. I \in SUBSET Nat /\ I # {}
  BY <1>2 DEF HasArea, Range
<1>4. \E x \in I : \A y \in I : x <= y
  BY <1>3, LeastNumber
<1> HIDE DEF I
<1>5. i0 \in I
  BY <1>4 DEF Min
<1> HIDE DEF i0
<1>6. i0 \in DOMAIN vma_list[p] /\ Covers(vma_list[p][i0], v)
  BY <1>5 DEF I
<1>7. AreaAt(p, v) = vma_list[p][i0]
  BY DEF AreaAt, i0, I
<1>8. AreaAt(p, v) \in AreasOf(p) /\ Covers(AreaAt(p, v), v)
  BY <1>6, <1>7 DEF AreasOf, Range
<1>9. \A a \in AreasOf(p) : a \in AreaType
  BY <1>1, RangeOfSeq DEF AreasOf
<1>10. ASSUME NEW a \in AreasOf(p), Covers(a, v) PROVE a = AreaAt(p, v)
  <2> DEFINE b == AreaAt(p, v)
  <2>1. b \in AreasOf(p) /\ Covers(b, v)
    BY <1>8
  <2> HIDE DEF b
  <2>2. /\ a.start \in Nat /\ a.end \in Nat /\ b.start \in Nat /\ b.end \in Nat
    BY <1>9, <2>1 DEF Pages, AreaType
  <2>3. ~Apart(a, b)
    BY <1>10, <2>1, <2>2 DEF Apart, Covers, Pages
  <2>4. QED BY <2>1, <2>3 DEF IInv, Layout, LayoutOf, AreasOK, b
<1>11. QED
  BY <1>8, <1>10

LEMMA AreaTypes ==
    ASSUME TypeOK, NEW p \in Procs, NEW a \in AreasOf(p)
    PROVE  /\ a \in AreaType
           /\ a.start \in Nat /\ a.end \in Nat /\ a.end <= USER_TOP /\ a.prot \in SUBSET Accesses
<1>1. vma_list[p] \in Seq(AreaType)
  BY DEF TypeOK, AreaType
<1>2. a \in AreaType
  BY <1>1, RangeOfSeq DEF AreasOf
<1>3. QED
  BY <1>2, MemoryAssumption DEF Pages, AreaType

\* mmap ends its search at a place that no area is in the way of: there is
\* always one, behind the last area.
LEMMA MmapStartFacts ==
    ASSUME IInv, NEW p \in Procs, NEW hint \in Nat, NEW length \in Nat \ {0}
    PROVE  /\ MmapStart(p, hint, length) \in Nat /\ MmapStart(p, hint, length) >= MMAP_BASE
           /\ \A a \in AreasOf(p) : ~Overlaps(MmapStart(p, hint, length), length, a)
<1> DEFINE first == IF hint < MMAP_BASE THEN MMAP_BASE ELSE hint
           C == {first} \cup {a.end : a \in AreasOf(p)}
           G == {s \in C : s >= first /\ \A a \in AreasOf(p) : ~Overlaps(s, length, a)}
           s0 == Min(G)
<1>1. first \in Nat /\ first >= MMAP_BASE
  BY MemoryAssumption
<1>2. MmapStart(p, hint, length) = s0
  BY DEF MmapStart, AreasOf
<1> HIDE DEF first
<1>3. \A a \in AreasOf(p) : a.start \in Nat /\ a.end \in Nat /\ a.end <= USER_TOP
  BY AreaTypes DEF IInv
<1>4. C \in SUBSET Nat /\ first \in C /\ \A a \in AreasOf(p) : a.end \in C
  BY <1>1, <1>3
<1>5. \A s \in C : s <= first + USER_TOP
  BY <1>1, <1>3, MemoryAssumption
<1> HIDE DEF C
<1>6. PICK last \in C : \A s \in C : s <= last
  <2> DEFINE N == first + USER_TOP
             D == {N - s : s \in C}
  <2>1. N \in Nat
    BY <1>1, MemoryAssumption
  <2> HIDE DEF N
  <2>2. \A s \in C : s \in Nat /\ s <= N
    BY <1>4, <1>5 DEF N
  <2>3. D \in SUBSET Nat /\ D # {}
    BY <1>4, <2>1, <2>2
  <2>4. PICK d \in D : \A e \in D : d <= e
    BY <2>3, LeastNumber
  <2>5. PICK s \in C : d = N - s
    OBVIOUS
  <2>6. \A t \in C : N - s <= N - t
    BY <2>4, <2>5
  <2>7. \A t \in C : t <= s
    BY <2>1, <2>2, <2>6
  <2>8. QED BY <2>7
<1>7. last \in G
  <2>1. last >= first
    BY <1>1, <1>4, <1>6
  <2>2. \A a \in AreasOf(p) : ~Overlaps(last, length, a)
    BY <1>3, <1>4, <1>6 DEF Overlaps
  <2>3. QED BY <2>1, <2>2
<1>8. G \in SUBSET Nat /\ G # {}
  BY <1>4, <1>7
<1>9. \E x \in G : \A y \in G : x <= y
  BY <1>8, LeastNumber
<1>10. \A s \in G : s \in Nat /\ s >= first /\ \A a \in AreasOf(p) : ~Overlaps(s, length, a)
  BY <1>4
<1> HIDE DEF G
<1>11. s0 \in G
  BY <1>9 DEF Min
<1> HIDE DEF s0
<1>12. QED
  BY <1>1, <1>2, <1>10, <1>11, MemoryAssumption

\* The place is free: no area covers its pages, and nothing is mapped there
\* unless an mmap has left pages behind.
LEMMA MmapFindsRoom ==
    ASSUME IInv, NEW p \in Procs, ~Stray(p), NEW hint \in Nat, NEW length \in Nat \ {0},
           MmapStart(p, hint, length) + length <= SIGNAL_PAGE,
           NEW v \in MmapStart(p, hint, length)..(MmapStart(p, hint, length) + length - 1)
    PROVE  /\ v \in Pages /\ v # SIGNAL_PAGE /\ ~HasArea(p, v) /\ ~Present(p, v)
<1> DEFINE s == MmapStart(p, hint, length)
<1>1. s \in Nat /\ \A a \in AreasOf(p) : ~Overlaps(s, length, a)
  BY MmapStartFacts
<1>2. s + length <= SIGNAL_PAGE /\ v \in s..(s + length - 1)
  OBVIOUS
<1> HIDE DEF s
<1>3. v \in Pages /\ v # SIGNAL_PAGE
  BY <1>1, <1>2, MemoryAssumption DEF Pages
<1>4. \A a \in AreasOf(p) : ~Covers(a, v)
  <2>1. \A a \in AreasOf(p) : a.start \in Nat /\ a.end \in Nat
    BY AreaTypes DEF IInv
  <2>2. QED BY <1>1, <1>2, <2>1 DEF Covers, Overlaps
<1>5. ~HasArea(p, v)
  BY <1>4 DEF HasArea, AreasOf, Range
<1>6. ~Present(p, v)
  BY <1>3, <1>5 DEF Stray
<1>7. QED
  BY <1>3, <1>5, <1>6

\* A program's fault that is served by a new page finds nothing mapped there:
\* with an entry it would have been about a write, and copy-on-write.
LEMMA DemandedIsUnmapped ==
    ASSUME IInv, NEW p \in Procs, NEW v \in Pages, NEW access \in Accesses,
           status[p] = "live", Faults(p, v, access), IsDemand(p, v, access)
    PROVE  ~Present(p, v) /\ faulting[p] = Unmapped
<1> DEFINE a == AreaAt(p, v)
<1>1. HasArea(p, v) /\ access \in a.prot /\ access \notin pte[p][v].prot /\ ~IsCow(p, v, access)
  BY DEF Faults, HalfBuilt, IsDemand
<1>2. a \in AreasOf(p) /\ Covers(a, v) /\ \A b \in AreasOf(p) : Covers(b, v) => b = a
  BY <1>1, AreaAtFacts
<1>3. ~ (v = SIGNAL_PAGE)
  BY <1>2 DEF IInv, Layout, LayoutOf, AreasOK, AreaOK
<1>4. Present(p, v) => PageProt(a.prot) \ {"w"} \subseteq pte[p][v].prot
  BY <1>2, <1>3 DEF IInv, Layout, LayoutOf, PagesOK
<1>5. Present(p, v) => access = "w"
  BY <1>1, <1>4 DEF PageProt
<1>6. ~Present(p, v)
  BY <1>1, <1>5 DEF IsCow
<1>7. QED
  BY <1>6 DEF Faults, HalfBuilt, Live

-----------------------------------------------------------------------------
(* The counts *)

\* A step changes the references of frame f as it changes its users, but for d
\* references that are lost.
Balances(f, d) ==
    /\ ref_count'[f] \in Int
    /\ ref_count'[f] + MapCount(pte, f) + FaultCount(faulting, f)
         = ref_count[f] + MapCount(pte', f) + FaultCount(faulting', f) + d
Balanced == \A f \in Frames : Balances(f, 0)

\* A step that changes entries and the fault of one process and keeps the
\* reference count in step with them, but for what is lost.
LEMMA CountStep ==
    ASSUME IInv, NEW p \in Procs, NEW f \in Frames, NEW d \in Nat,
           \A q \in Procs : q # p => pte'[q] = pte[q] /\ faulting'[q] = faulting[q],
           ref_count'[f] \in Int,
           ref_count'[f] + RowCount(pte[p], f) + One(faulting[p].frame = f)
             = ref_count[f] + RowCount(pte'[p], f) + One(faulting'[p].frame = f) + d
    PROVE  Balances(f, d)
<1>0. OnlyRow(pte, pte', p)
  BY DEF OnlyRow
<1>1. /\ MapCount(pte, f) \in Nat /\ MapCount(pte', f) \in Nat
      /\ RowCount(pte[p], f) \in Nat /\ RowCount(pte'[p], f) \in Nat
      /\ MapCount(pte', f) + RowCount(pte[p], f) = MapCount(pte, f) + RowCount(pte'[p], f)
  BY <1>0, OneRowChanges
<1>2. /\ FaultCount(faulting, f) \in Nat /\ FaultCount(faulting', f) \in Nat
      /\ FaultCount(faulting', f) + One(faulting[p].frame = f)
           = FaultCount(faulting, f) + One(faulting'[p].frame = f)
  BY OneFaultChanges
<1>3. ref_count[f] \in Nat
  BY DEF IInv, TypeOK
<1>4. One(faulting[p].frame = f) \in Nat /\ One(faulting'[p].frame = f) \in Nat
  BY DEF One
<1>5. /\ MapCount(pte, f) \in Int /\ MapCount(pte', f) \in Int /\ RowCount(pte[p], f) \in Int
      /\ RowCount(pte'[p], f) \in Int /\ FaultCount(faulting, f) \in Int
      /\ FaultCount(faulting', f) \in Int /\ ref_count[f] \in Int
      /\ One(faulting[p].frame = f) \in Int /\ One(faulting'[p].frame = f) \in Int /\ d \in Int
  BY <1>1, <1>2, <1>3, <1>4
<1>6. ref_count'[f] + MapCount(pte, f) + FaultCount(faulting, f)
        = ref_count[f] + MapCount(pte', f) + FaultCount(faulting', f) + d
  <2> DEFINE r == ref_count[f]
             s == ref_count'[f]
             m == MapCount(pte, f)
             n == MapCount(pte', f)
             w == RowCount(pte[p], f)
             x == RowCount(pte'[p], f)
             g == FaultCount(faulting, f)
             h == FaultCount(faulting', f)
             i == One(faulting[p].frame = f)
             j == One(faulting'[p].frame = f)
  <2>1. /\ r \in Int /\ s \in Int /\ m \in Int /\ n \in Int /\ w \in Int /\ x \in Int
        /\ g \in Int /\ h \in Int /\ i \in Int /\ j \in Int /\ d \in Int
    BY <1>5
  <2>2. s + w + i = r + x + j + d
    OBVIOUS
  <2>3. n + w = m + x /\ h + i = g + j
    BY <1>1, <1>2
  <2> HIDE DEF r, s, m, n, w, x, g, h, i, j
  <2>4. s + m + g = r + n + h + d
    BY <2>1, <2>2, <2>3
  <2>5. QED BY <2>4 DEF r, s, m, n, g, h
<1>7. QED
  BY <1>6 DEF Balances

\* The same when no fault is affected.
LEMMA RowStep ==
    ASSUME IInv, NEW p \in Procs, NEW f \in Frames, faulting' = faulting,
           \A q \in Procs : q # p => pte'[q] = pte[q],
           ref_count'[f] \in Int,
           ref_count'[f] + RowCount(pte[p], f) = ref_count[f] + RowCount(pte'[p], f)
    PROVE  Balances(f, 0)
<1>0. OnlyRow(pte, pte', p)
  BY DEF OnlyRow
<1>1. /\ MapCount(pte, f) \in Nat /\ MapCount(pte', f) \in Nat
      /\ RowCount(pte[p], f) \in Nat /\ RowCount(pte'[p], f) \in Nat
      /\ MapCount(pte', f) + RowCount(pte[p], f) = MapCount(pte, f) + RowCount(pte'[p], f)
  BY <1>0, OneRowChanges
<1>2. FaultCount(faulting, f) \in Nat
  BY FaultCountType
<1>3. ref_count[f] \in Nat
  BY DEF IInv, TypeOK
<1>3a. MapCount(pte', f) \in Nat /\ FaultCount(faulting', f) = FaultCount(faulting, f)
  BY <1>1
<1>4. QED
  BY <1>1, <1>2, <1>3, <1>3a DEF Balances

\* The same for one entry of a process.
LEMMA EntryStep ==
    ASSUME IInv, NEW p \in Procs, NEW v \in Pages, NEW e, NEW f \in Frames,
           pte' = [pte EXCEPT ![p] = [@ EXCEPT ![v] = e]], faulting' = faulting,
           ref_count'[f] \in Int,
           ref_count'[f] + One(pte[p][v].frame = f) = ref_count[f] + One(e.frame = f)
    PROVE  Balances(f, 0)
<1>1. pte \in [Procs -> [Pages -> Entries]] /\ ref_count[f] \in Nat
  BY DEF IInv, TypeOK
<1>2. pte'[p] = [pte[p] EXCEPT ![v] = e]
  BY <1>1
<1>3. pte'[p][v] = e /\ \A u \in Pages : u # v => pte'[p][u].frame = pte[p][u].frame
  BY <1>1, <1>2
<1>4. RowCount(pte'[p], f) + One(pte[p][v].frame = f) = RowCount(pte[p], f) + One(e.frame = f)
  <2> DEFINE P == pte[p]
             Q == pte'[p]
  <2>1. /\ P[v].frame = pte[p][v].frame /\ Q[v].frame = e.frame
        /\ \A u \in Pages : u # v => Q[u].frame = P[u].frame
    BY <1>3
  <2> HIDE DEF P, Q
  <2>2. RowCount(Q, f) + One(P[v].frame = f) = RowCount(P, f) + One(Q[v].frame = f)
    BY <2>1, OneEntryChanges
  <2>3. QED BY <2>1, <2>2 DEF P, Q
<1>5. RowCount(pte'[p], f) \in Nat /\ RowCount(pte[p], f) \in Nat
  BY RowCountType
<1>6. One(pte[p][v].frame = f) \in Nat /\ One(e.frame = f) \in Nat
  BY DEF One
<1>7. ref_count'[f] + RowCount(pte[p], f) = ref_count[f] + RowCount(pte'[p], f)
  BY <1>1, <1>4, <1>5, <1>6
<1>8. \A q \in Procs : q # p => pte'[q] = pte[q]
  BY <1>1
<1>9. QED
  BY <1>7, <1>8, RowStep

\* Nothing is counted anew.
LEMMA CountsStay ==
    ASSUME IInv, UNCHANGED <<pte, ref_count, faulting>>
    PROVE  Balanced
<1> SUFFICES ASSUME NEW f \in Frames
             PROVE  Balances(f, 0)
  BY DEF Balanced
<1>1. ref_count[f] \in Nat /\ MapCount(pte, f) \in Nat /\ FaultCount(faulting, f) \in Nat
  BY MapCountType, FaultCountType DEF IInv, TypeOK
<1>2. ref_count' = ref_count /\ pte' = pte /\ faulting' = faulting
  OBVIOUS
<1>3. QED
  BY <1>1, <1>2 DEF Balances

LEMMA ExecCounted ==
    ASSUME IInv, NEW p \in Procs, do_exec(p)
    PROVE  Balanced
<1> SUFFICES ASSUME NEW f \in Frames
             PROVE  Balances(f, 0)
  BY DEF Balanced
<1>1. pte \in [Procs -> [Pages -> Entries]] /\ ref_count[f] \in Nat
  BY DEF IInv, TypeOK
<1>2. \A q \in Procs : q # p => pte'[q] = pte[q]
  BY <1>1 DEF do_exec
<1>3. \A v \in Pages : pte'[p][v].frame # f
  BY <1>1, MemoryAssumption DEF do_exec, Unmapped
<1>4. RowCount(pte'[p], f) = 0
  <2>1. Row(pte'[p], f) = {}
    BY <1>3 DEF Row
  <2>2. QED BY <2>1, FS_EmptySet DEF RowCount
<1>5. ref_count'[f] = ref_count[f] - RowCount(pte[p], f)
  BY DEF do_exec, Released, RowCount, Row
<1>6. RowCount(pte[p], f) \in Nat
  BY RowCountType
<1>7. /\ ref_count'[f] \in Int
      /\ ref_count'[f] + RowCount(pte[p], f) = ref_count[f] + RowCount(pte'[p], f)
  BY <1>1, <1>4, <1>5, <1>6
<1>8. faulting' = faulting
  BY DEF do_exec
<1>9. QED
  BY <1>2, <1>7, <1>8, RowStep

\* fork: the parent's entries keep their frames, and the child, which had
\* nothing mapped, maps those that are shared.
LEMMA ForkCounted ==
    ASSUME IInv, NEW p \in Procs, NEW c \in Procs, do_fork(p, c)
    PROVE  Balanced
<1> SUFFICES ASSUME NEW f \in Frames
             PROVE  Balances(f, 0)
  BY DEF Balanced
<1>1. PICK copied :
        LET shared == {v \in Pages : Present(p, v) /\ TablesOf(v) \subseteq copied}
        IN /\ pte' = [pte EXCEPT
                ![p] = [v \in Pages |-> IF v \in shared THEN WriteProtected(@[v]) ELSE @[v]],
                ![c] = [v \in Pages |-> IF v \in shared THEN WriteProtected(pte[p][v]) ELSE @[v]]]
           /\ ref_count' = [g \in Frames |->
                ref_count[g] + Cardinality({v \in shared : pte[p][v].frame = g})]
  BY DEF do_fork
<1> DEFINE shared == {v \in Pages : Present(p, v) /\ TablesOf(v) \subseteq copied}
           pt == [pte EXCEPT ![p] = pte'[p]]
<1>2. pte \in [Procs -> [Pages -> Entries]] /\ ref_count[f] \in Nat
  BY DEF IInv, TypeOK
<1>3. p # c /\ \A v \in Pages : pte[c][v] = Unmapped
  BY DEF do_fork, Live, IInv, Layout, LayoutOf, FreeIsClean, Present
<1>4. shared \in SUBSET Pages /\ \A v \in shared : Present(p, v)
  OBVIOUS
<1>5. /\ pte'[p] = [v \in Pages |-> IF v \in shared THEN WriteProtected(pte[p][v]) ELSE pte[p][v]]
      /\ pte'[c] = [v \in Pages |-> IF v \in shared THEN WriteProtected(pte[p][v]) ELSE pte[c][v]]
      /\ \A q \in Procs : q # p /\ q # c => pte'[q] = pte[q]
      /\ ref_count'[f] = ref_count[f] + Cardinality({v \in shared : pte[p][v].frame = f})
  BY <1>1, <1>2, <1>3
<1> HIDE DEF shared
<1>6. \A v \in shared : WriteProtected(pte[p][v]).frame = pte[p][v].frame
  <2>1. \A v \in shared : pte[p][v] \in [frame : Frames, prot : SUBSET Accesses]
    BY <1>4, EntryFacts DEF IInv
  <2>2. QED BY <2>1 DEF WriteProtected
<1>7. RowCount(pte'[p], f) = RowCount(pte[p], f)
  <2>1. \A v \in Pages : pte'[p][v].frame = pte[p][v].frame
    BY <1>5, <1>6
  <2>2. QED BY <2>1, SameFramesSameCount
<1>8. RowCount(pte'[c], f) = Cardinality({v \in shared : pte[p][v].frame = f})
  <2>1. \A v \in Pages : pte'[c][v].frame = f <=> v \in shared /\ pte[p][v].frame = f
    BY <1>3, <1>4, <1>5, <1>6, MemoryAssumption DEF Unmapped
  <2>2. Row(pte'[c], f) = {v \in shared : pte[p][v].frame = f}
    BY <1>4, <2>1 DEF Row
  <2>3. QED BY <2>2 DEF RowCount
<1>9. RowCount(pte[c], f) = 0
  <2>1. Row(pte[c], f) = {}
    BY <1>3, MemoryAssumption DEF Row, Unmapped
  <2>2. QED BY <2>1, FS_EmptySet DEF RowCount
<1>10. /\ \A q \in Procs : q # p => pt[q] = pte[q]
       /\ \A q \in Procs : q # c => pte'[q] = pt[q]
       /\ pt[p] = pte'[p] /\ pt[c] = pte[c]
  BY <1>2, <1>3, <1>5
<1> HIDE DEF pt
<1>11. /\ MapCount(pte, f) \in Nat /\ MapCount(pt, f) \in Nat /\ RowCount(pte[p], f) \in Nat
       /\ MapCount(pt, f) + RowCount(pte[p], f) = MapCount(pte, f) + RowCount(pt[p], f)
  <2>1. OnlyRow(pte, pt, p)
    BY <1>10 DEF OnlyRow
  <2>2. QED BY <2>1, OneRowChanges
<1>12. /\ MapCount(pte', f) \in Nat /\ RowCount(pte'[c], f) \in Nat
       /\ MapCount(pte', f) + RowCount(pt[c], f) = MapCount(pt, f) + RowCount(pte'[c], f)
  <2>1. OnlyRow(pt, pte', c)
    BY <1>10 DEF OnlyRow
  <2>2. QED BY <2>1, OneRowChanges
<1>13. MapCount(pt, f) = MapCount(pte, f)
  BY <1>7, <1>10, <1>11
<1>14. MapCount(pte', f) = MapCount(pte, f) + RowCount(pte'[c], f)
  BY <1>9, <1>10, <1>11, <1>12, <1>13
<1>15. ref_count'[f] = ref_count[f] + RowCount(pte'[c], f)
  BY <1>5, <1>8
<1>16. /\ faulting' = faulting /\ FaultCount(faulting, f) \in Nat
       /\ ref_count[f] \in Nat
  BY FaultCountType DEF do_fork, IInv, TypeOK
<1>17. QED
  BY <1>11, <1>12, <1>14, <1>15, <1>16 DEF Balances

\* The pages that mmap maps at once.
Populated(p, hint, length) ==
    LET start == MmapStart(p, hint, length)
    IN start..(start + Min({length, Cardinality(Free)}) - 1)

\* mmap maps pages that were free, all it has asked for if it adds the area.
LEMMA PopulateFacts ==
    ASSUME Unruly = {}, IInv, NEW p \in Procs, NEW hint \in Hints, NEW length \in Lengths,
           NEW prot \in Prots, do_mmap_populate(p, hint, length, prot)
    PROVE  /\ \A v \in Populated(p, hint, length) :
                v \in Pages /\ v # SIGNAL_PAGE /\ ~HasArea(p, v) /\ ~Present(p, v)
           /\ \/ vma_list' = vma_list
              \/ /\ vma_list' = [vma_list EXCEPT ![p] =
                       <<Area(MmapStart(p, hint, length), MmapStart(p, hint, length) + length,
                              prot, Nothing)>> \o @]
                 /\ Populated(p, hint, length)
                      = MmapStart(p, hint, length)..(MmapStart(p, hint, length) + length - 1)
<1> DEFINE start == MmapStart(p, hint, length)
           n == Min({length, Cardinality(Free)})
<1>1. hint \in Nat /\ length \in Nat \ {0}
  BY MemoryAssumption
<1>2. Cardinality(Free) \in Nat
  BY MemoryAssumption, FS_Subset, FS_CardinalityType DEF Free
<1>3. n \in {length, Cardinality(Free)} /\ n <= length
  <2> DEFINE S == {length, Cardinality(Free)}
  <2>1. S \in SUBSET Nat /\ S # {}
    BY <1>1, <1>2
  <2>2. \E x \in S : \A y \in S : x <= y
    BY <2>1, LeastNumber
  <2>3. length \in S
    OBVIOUS
  <2> HIDE DEF S
  <2>4. Min(S) \in S /\ \A y \in S : Min(S) <= y
    BY <2>2 DEF Min
  <2>5. QED BY <2>3, <2>4 DEF S
<1>4. start \in Nat
  BY <1>1, MmapStartFacts
<1>5. start + length <= SIGNAL_PAGE /\ ~Stray(p)
  BY DEF do_mmap_populate, Rule
<1>6. Populated(p, hint, length) = start..(start + n - 1)
  BY DEF Populated
<1>7. \A v \in Populated(p, hint, length) : v \in start..(start + length - 1)
  <2> HIDE DEF start, n
  <2>1. n \in Nat
    BY <1>1, <1>2, <1>3
  <2>2. QED BY <1>1, <1>3, <1>4, <1>6, <2>1
<1>8. \A v \in start..(start + length - 1) :
        v \in Pages /\ v # SIGNAL_PAGE /\ ~HasArea(p, v) /\ ~Present(p, v)
  BY <1>1, <1>5, MmapFindsRoom
<1>9. \/ vma_list' = vma_list
      \/ /\ n = length
         /\ vma_list' = [vma_list EXCEPT ![p] = <<Area(start, start + length, prot, Nothing)>> \o @]
  BY DEF do_mmap_populate
<1>10. QED
  BY <1>6, <1>7, <1>8, <1>9

LEMMA PopulateCounted ==
    ASSUME Unruly = {}, IInv, NEW p \in Procs, NEW hint \in Hints, NEW length \in Lengths,
           NEW prot \in Prots, do_mmap_populate(p, hint, length, prot)
    PROVE  Balanced
<1> DEFINE new == Populated(p, hint, length)
<1>1. new \in SUBSET Pages /\ \A v \in new : ~Present(p, v)
  BY PopulateFacts
<1>2. PICK frame \in Injection(new, Free) :
         /\ pte' = [pte EXCEPT ![p] = [v \in Pages |->
                IF v \in new THEN [frame |-> frame[v], prot |-> PageProt(prot)] ELSE @[v]]]
         /\ ref_count' = [f \in Frames |-> IF f \in Range(frame) THEN 1 ELSE ref_count[f]]
  BY DEF do_mmap_populate, Populated
<1> HIDE DEF new
<1> SUFFICES ASSUME NEW f \in Frames
             PROVE  Balances(f, 0)
  BY DEF Balanced
<1>3. frame \in [new -> Free] /\ \A u, v \in new : frame[u] = frame[v] => u = v
  BY <1>2 DEF Injection, IsInjective
<1>4. pte \in [Procs -> [Pages -> Entries]] /\ ref_count[f] \in Nat
  BY DEF IInv, TypeOK
<1>5. /\ pte'[p] = [v \in Pages |->
             IF v \in new THEN [frame |-> frame[v], prot |-> PageProt(prot)] ELSE pte[p][v]]
      /\ \A q \in Procs : q # p => pte'[q] = pte[q]
      /\ ref_count'[f] = IF f \in Range(frame) THEN 1 ELSE ref_count[f]
  BY <1>2, <1>4
<1>6. /\ \A v \in new : pte'[p][v].frame = frame[v]
      /\ \A v \in Pages \ new : pte'[p][v].frame = pte[p][v].frame
  BY <1>1, <1>5
<1>7. \A v \in new : pte[p][v].frame # f
  BY <1>1, MemoryAssumption DEF Present, Unmapped
<1>8. /\ ref_count'[f] \in Int
      /\ ref_count'[f] + RowCount(pte[p], f) = ref_count[f] + RowCount(pte'[p], f)
  <2>1. CASE f \in Range(frame)
    <3>1. PICK v \in new : f = frame[v]
      BY <1>3, <2>1 DEF Range
    <3>2. f \in Free
      BY <1>3, <3>1
    <3>3. ref_count[f] = 0 /\ RowCount(pte[p], f) = 0 /\ \A u \in Pages : pte[p][u].frame # f
      BY <3>2, FreeIsUnused
    <3>4. Row(pte'[p], f) = {v}
      <4>1. \A u \in Pages : pte'[p][u].frame = f <=> u = v
        BY <1>1, <1>3, <1>6, <3>1, <3>3
      <4>2. QED BY <1>1, <4>1 DEF Row
    <3>5. RowCount(pte'[p], f) = 1
      BY <3>4, FS_Singleton DEF RowCount
    <3>6. QED BY <1>5, <2>1, <3>3, <3>5
  <2>2. CASE f \notin Range(frame)
    <3>1. \A v \in new : frame[v] # f
      BY <1>3, <2>2 DEF Range
    <3>2. Row(pte'[p], f) = Row(pte[p], f)
      BY <1>6, <1>7, <3>1 DEF Row
    <3>3. RowCount(pte'[p], f) = RowCount(pte[p], f) /\ ref_count'[f] = ref_count[f]
      BY <1>5, <2>2, <3>2 DEF RowCount
    <3>4. QED BY <1>4, <3>3
  <2>3. QED BY <2>1, <2>2
<1>9. faulting' = faulting
  BY DEF do_mmap_populate
<1>10. \A q \in Procs : q # p => pte'[q] = pte[q]
  BY <1>5
<1>11. QED
  BY <1>8, <1>9, <1>10, RowStep

LEMMA CopyCounted ==
    ASSUME IInv, NEW p \in Procs, NEW v \in Pages, copy_on_write(p, v)
    PROVE  Balanced
<1> DEFINE old == pte[p][v].frame
<1>1. pte \in [Procs -> [Pages -> Entries]] /\ ref_count \in [Frames -> Nat]
  BY DEF IInv, TypeOK
<1>2. Present(p, v)
  BY DEF copy_on_write, IsCow
<1>3. old \in Frames /\ pte[p][v] \in [frame : Frames, prot : SUBSET Accesses]
  BY <1>2, EntryFacts DEF IInv
<1>4. faulting' = faulting
  BY DEF copy_on_write
<1> SUFFICES ASSUME NEW f \in Frames
             PROVE  Balances(f, 0)
  BY DEF Balanced
<1>5. CASE IsShared(old)
  <2>1. PICK new \in Free :
           /\ pte' = [pte EXCEPT ![p][v] = [frame |-> new, prot |-> @.prot \cup {"w"}]]
           /\ ref_count' = [ref_count EXCEPT ![new] = 1, ![old] = @ - 1]
    BY <1>5 DEF copy_on_write
  <2> DEFINE e == [frame |-> new, prot |-> pte[p][v].prot \cup {"w"}]
  <2>2. new \in Frames /\ new # old /\ ref_count[new] = 0 /\ e.frame = new
    BY <1>5 DEF Free, IsShared
  <2>3. pte' = [pte EXCEPT ![p] = [@ EXCEPT ![v] = e]]
    BY <1>1, <2>1
  <2>4. ref_count'[new] = 1 /\ ref_count'[old] = ref_count[old] - 1
        /\ \A g \in Frames : g # new /\ g # old => ref_count'[g] = ref_count[g]
    BY <1>1, <1>3, <2>1, <2>2
  <2> HIDE DEF e, old
  <2>5. /\ ref_count'[f] \in Int
        /\ ref_count'[f] + One(pte[p][v].frame = f) = ref_count[f] + One(e.frame = f)
    BY <1>1, <1>3, <2>2, <2>4 DEF One, old
  <2>6. QED BY <1>4, <2>3, <2>5, EntryStep
<1>6. CASE ~IsShared(old)
  <2> DEFINE e == [pte[p][v] EXCEPT !.prot = @ \cup {"w"}]
  <2>1. pte' = [pte EXCEPT ![p] = [@ EXCEPT ![v] = e]] /\ ref_count' = ref_count
    BY <1>1, <1>6 DEF copy_on_write
  <2>2. e.frame = pte[p][v].frame
    BY <1>3
  <2> HIDE DEF e
  <2>3. /\ ref_count'[f] \in Int
        /\ ref_count'[f] + One(pte[p][v].frame = f) = ref_count[f] + One(e.frame = f)
    BY <1>1, <2>1, <2>2
  <2>4. QED BY <1>4, <2>1, <2>3, EntryStep
<1>7. QED
  BY <1>5, <1>6

LEMMA DemandCounted ==
    ASSUME IInv, NEW p \in Procs, NEW v \in Pages, NEW access \in Accesses,
           demand_page(p, v, access)
    PROVE  Balanced
<1>1. PICK f0 \in Free :
         /\ ref_count' = [ref_count EXCEPT ![f0] = 1]
         /\ faulting' = [faulting EXCEPT ![p] =
                [page |-> v, frame |-> f0, prot |-> PageProt(AreaAt(p, v).prot)]]
  BY DEF demand_page
<1>2. pte' = pte /\ faulting[p] = Unmapped
  BY DEF demand_page, Faults, Live, HalfBuilt
<1>3. ref_count \in [Frames -> Nat] /\ ref_count[f0] = 0 /\ f0 \in Frames
  BY DEF IInv, TypeOK, Free
<1>4. DOMAIN faulting = Procs
  BY DEF IInv, TypeOK
<1>5. faulting'[p].frame = f0 /\ \A q \in Procs : q # p => faulting'[q] = faulting[q]
  BY <1>1, <1>4
<1>6. faulting[p].frame = NoFrame
  BY <1>2 DEF Unmapped
<1> SUFFICES ASSUME NEW f \in Frames
             PROVE  Balances(f, 0)
  BY DEF Balanced
<1>7. /\ ref_count'[f] \in Int
      /\ ref_count'[f] + One(faulting[p].frame = f) = ref_count[f] + One(faulting'[p].frame = f)
  BY <1>1, <1>3, <1>5, <1>6, MemoryAssumption DEF One
<1>8. RowCount(pte[p], f) \in Nat /\ One(faulting[p].frame = f) \in Nat /\ One(faulting'[p].frame = f) \in Nat
  BY RowCountType DEF One
<1>9. ref_count'[f] + RowCount(pte[p], f) + One(faulting[p].frame = f)
        = ref_count[f] + RowCount(pte'[p], f) + One(faulting'[p].frame = f) + 0
  BY <1>2, <1>3, <1>7, <1>8
<1>10. \A q \in Procs : q # p => pte'[q] = pte[q] /\ faulting'[q] = faulting[q]
  BY <1>2, <1>5
<1>11. QED
  BY <1>7, <1>9, <1>10, CountStep

\* A fault that ends gives up the reference of the entry it maps over.
LEMMA MapCounted ==
    ASSUME IInv, NEW p \in Procs, demand_page_maps(p), NEW f \in Frames
    PROVE  Balances(f, One(pte[p][faulting[p].page].frame = f))
<1> DEFINE e == faulting[p]
           g == [frame |-> e.frame, prot |-> e.prot]
           d == One(pte[p][e.page].frame = f)
<1>1. pte \in [Procs -> [Pages -> Entries]] /\ DOMAIN faulting = Procs
  BY DEF IInv, TypeOK
<1>2. e # Unmapped /\ e.page \in Pages
  BY FaultFacts DEF demand_page_maps, IInv
<1>4. /\ pte'[p] = [pte[p] EXCEPT ![e.page] = g]
      /\ \A q \in Procs : q # p => pte'[q] = pte[q] /\ faulting'[q] = faulting[q]
      /\ faulting'[p] = Unmapped /\ ref_count' = ref_count
  BY <1>1, <1>2 DEF demand_page_maps
<1>5. RowCount(pte'[p], f) + d = RowCount(pte[p], f) + One(e.frame = f)
  <2> DEFINE P == pte[p]
             Q == pte'[p]
             v == e.page
  <2>1. /\ P[v].frame = pte[p][e.page].frame /\ Q[v].frame = e.frame
        /\ \A u \in Pages : u # v => Q[u].frame = P[u].frame
    BY <1>1, <1>2, <1>4
  <2>2. v \in Pages
    BY <1>2
  <2> HIDE DEF P, Q, v
  <2>3. RowCount(Q, f) + One(P[v].frame = f) = RowCount(P, f) + One(Q[v].frame = f)
    BY <2>1, <2>2, OneEntryChanges
  <2>4. QED BY <2>1, <2>3 DEF P, Q
<1>6. /\ RowCount(pte[p], f) \in Nat /\ RowCount(pte'[p], f) \in Nat
      /\ One(e.frame = f) \in Nat /\ ref_count[f] \in Nat /\ d \in Nat
  BY RowCountType DEF One, IInv, TypeOK
<1>7. One(faulting'[p].frame = f) = 0
  BY <1>4, MemoryAssumption DEF One, Unmapped
<1>8. ref_count'[f] + RowCount(pte[p], f) + One(faulting[p].frame = f)
        = ref_count[f] + RowCount(pte'[p], f) + One(faulting'[p].frame = f) + d
  <2>1. ref_count'[f] = ref_count[f]
    BY <1>4
  <2> HIDE DEF e, d
  <2>2. One(e.frame = f) = One(faulting[p].frame = f)
    BY DEF e
  <2>3. QED BY <1>5, <1>6, <1>7, <2>1, <2>2
<1>9. ref_count'[f] \in Int
  BY <1>4, <1>6
<1> HIDE DEF d
<1>10. Balances(f, d)
  BY <1>4, <1>6, <1>8, <1>9, CountStep
<1>11. QED
  BY <1>10 DEF d

LEMMA SignalCounted ==
    ASSUME Unruly = {}, IInv, NEW p \in Procs, signal_check(p)
    PROVE  Balanced
<1>1. PICK f0 \in Free :
         /\ ref_count' = [ref_count EXCEPT ![f0] = 1]
         /\ pte' = [pte EXCEPT ![p][SIGNAL_PAGE] = [frame |-> f0, prot |-> HandlerProt]]
  BY DEF signal_check
<1> DEFINE e == [frame |-> f0, prot |-> HandlerProt]
<1>2. pte \in [Procs -> [Pages -> Entries]] /\ ref_count \in [Frames -> Nat]
  BY DEF IInv, TypeOK
<1>3. pte[p][SIGNAL_PAGE].frame = NoFrame
  BY DEF signal_check, Rule, Present, Unmapped
<1>4. pte' = [pte EXCEPT ![p] = [@ EXCEPT ![SIGNAL_PAGE] = e]] /\ faulting' = faulting
  BY <1>1, <1>2 DEF signal_check
<1>5. e.frame = f0 /\ f0 \in Frames /\ ref_count[f0] = 0
  BY DEF Free
<1> HIDE DEF e
<1> SUFFICES ASSUME NEW f \in Frames
             PROVE  Balances(f, 0)
  BY DEF Balanced
<1>6. /\ ref_count'[f] \in Int
      /\ ref_count'[f] + One(pte[p][SIGNAL_PAGE].frame = f) = ref_count[f] + One(e.frame = f)
  BY <1>1, <1>2, <1>3, <1>5, MemoryAssumption DEF One
<1>7. QED
  BY <1>4, <1>6, SignalPageIsPage, EntryStep

LEMMA SigreturnCounted ==
    ASSUME IInv, NEW p \in Procs, do_sigreturn(p)
    PROVE  Balanced
<1> DEFINE f0 == signal_stack[p]
<1>1. pte \in [Procs -> [Pages -> Entries]] /\ ref_count \in [Frames -> Nat]
  BY DEF IInv, TypeOK
<1>2. f0 \in Frames /\ pte[p][SIGNAL_PAGE].frame = f0
  <2>1. status[p] = "live" /\ is_handling_signal[p]
    BY DEF do_sigreturn, Live
  <2>2. f0 \in Frames /\ pte[p][SIGNAL_PAGE] = [frame |-> f0, prot |-> HandlerProt]
    BY <2>1 DEF IInv, Layout, LayoutOf, HandlersOK
  <2>3. QED BY <2>2
<1>3. /\ pte' = [pte EXCEPT ![p] = [@ EXCEPT ![SIGNAL_PAGE] = Unmapped]] /\ faulting' = faulting
      /\ ref_count' = [ref_count EXCEPT ![f0] = @ - 1]
  BY DEF do_sigreturn, unmap_page
<1> HIDE DEF f0
<1> SUFFICES ASSUME NEW f \in Frames
             PROVE  Balances(f, 0)
  BY DEF Balanced
<1>4. Unmapped.frame # f
  BY MemoryAssumption DEF Unmapped
<1>5. /\ ref_count'[f] \in Int
      /\ ref_count'[f] + One(pte[p][SIGNAL_PAGE].frame = f) = ref_count[f] + One(Unmapped.frame = f)
  BY <1>1, <1>2, <1>3, <1>4 DEF One
<1>6. QED
  BY <1>3, <1>5, SignalPageIsPage, EntryStep

LEMMA FreeCounted ==
    ASSUME IInv, NEW p \in Procs, free_user_space(p)
    PROVE  Balanced
<1>1. PICK v \in Pages :
         ref_count' = Released(p, {v}) /\ pte' = [pte EXCEPT ![p][v] = Unmapped]
  BY DEF free_user_space
<1>2. pte \in [Procs -> [Pages -> Entries]] /\ ref_count \in [Frames -> Nat]
  BY DEF IInv, TypeOK
<1>3. pte' = [pte EXCEPT ![p] = [@ EXCEPT ![v] = Unmapped]] /\ faulting' = faulting
  BY <1>1, <1>2 DEF free_user_space
<1> SUFFICES ASSUME NEW f \in Frames
             PROVE  Balances(f, 0)
  BY DEF Balanced
<1>4. Unmapped.frame # f
  BY MemoryAssumption DEF Unmapped
<1>5. ref_count'[f] = ref_count[f] - Cardinality({u \in {v} : pte[p][u].frame = f})
  BY <1>1 DEF Released
<1>6. Cardinality({u \in {v} : pte[p][u].frame = f}) = One(pte[p][v].frame = f)
  <2>1. CASE pte[p][v].frame = f
    <3>1. {u \in {v} : pte[p][u].frame = f} = {v} BY <2>1
    <3>2. QED BY <2>1, <3>1, FS_Singleton DEF One
  <2>2. CASE pte[p][v].frame # f
    <3>1. {u \in {v} : pte[p][u].frame = f} = {} BY <2>2
    <3>2. QED BY <2>2, <3>1, FS_EmptySet DEF One
  <2>3. QED BY <2>1, <2>2
<1>7. /\ ref_count'[f] \in Int
      /\ ref_count'[f] + One(pte[p][v].frame = f) = ref_count[f] + One(Unmapped.frame = f)
  <2>1. ref_count[f] \in Nat /\ One(pte[p][v].frame = f) \in Nat /\ One(Unmapped.frame = f) = 0
    BY <1>2, <1>4 DEF One
  <2>2. ref_count'[f] = ref_count[f] - One(pte[p][v].frame = f)
    BY <1>5, <1>6
  <2>3. QED BY <2>1, <2>2
<1>8. QED
  BY <1>3, <1>7, EntryStep

\* A half-built child's fault ends with a page mapped over frame f.
MapsOver(f) ==
    \E p \in Procs :
        /\ status[p] = "half_built" /\ pte[p][0].frame = f
        /\ faulting[p] # Unmapped /\ faulting'[p] = Unmapped

LEMMA MapBalances ==
    ASSUME IInv, NEW p \in Procs, demand_page_maps(p), NEW f \in Frames
    PROVE  Balances(f, 0) \/ (Balances(f, 1) /\ MapsOver(f))
<1> DEFINE v == faulting[p].page
<1>1. faulting[p] # Unmapped /\ v \in Pages
  BY FaultFacts DEF demand_page_maps, IInv
<1>2. \/ status[p] = "live" /\ ~Present(p, v)
      \/ status[p] = "half_built" /\ v = 0
  BY <1>1 DEF IInv, Layout, LayoutOf, FaultsOK
<1>3. Balances(f, One(pte[p][v].frame = f))
  BY MapCounted
<1>4. faulting'[p] = Unmapped
  BY DEF demand_page_maps, IInv, TypeOK
<1> HIDE DEF v
<1>5. CASE pte[p][v].frame # f
  <2>1. One(pte[p][v].frame = f) = 0
    BY <1>5 DEF One
  <2>2. QED BY <1>3, <2>1
<1>6. CASE pte[p][v].frame = f
  <2>1. Present(p, v)
    BY <1>6, MemoryAssumption DEF Present, Unmapped
  <2>2. status[p] = "half_built" /\ v = 0
    BY <1>2, <2>1
  <2>3. MapsOver(f)
    BY <1>1, <1>4, <1>6, <2>2 DEF MapsOver
  <2>4. One(pte[p][v].frame = f) = 1
    BY <1>6 DEF One
  <2>5. QED BY <1>3, <2>3, <2>4
<1>7. QED
  BY <1>5, <1>6

\* No other step loses a reference.
LEMMA NextBalances ==
    ASSUME Unruly = {}, IInv, Next, NEW f \in Frames
    PROVE  Balances(f, 0) \/ (Balances(f, 1) /\ MapsOver(f))
<1>2. PICK p \in Procs :
        \/ user_program_execute(p) \/ do_exec(p) \/ thread_exit(p) \/ do_stop(p)
        \/ \E c \in Procs : do_fork(p, c)
        \/ \E hint \in Hints, length \in Lengths, prot \in Prots :
               do_mmap(p, hint, length, prot) \/ do_mmap_populate(p, hint, length, prot)
        \/ \E v \in Pages : copy_on_write(p, v)
        \/ \E v \in Pages, d \in Data : store(p, v, d)
        \/ \E v \in Pages, access \in Accesses : demand_page(p, v, access)
        \/ demand_page_maps(p) \/ fault_kills(p) \/ signal_check(p) \/ do_sigreturn(p)
        \/ free_user_space(p) \/ reaped(p)
  BY DEF Next
<1>3. ASSUME \/ user_program_execute(p) \/ thread_exit(p) \/ do_stop(p) \/ fault_kills(p)
             \/ \E hint \in Hints, length \in Lengths, prot \in Prots : do_mmap(p, hint, length, prot)
             \/ \E v \in Pages, d \in Data : store(p, v, d)
      PROVE  Balanced
  <2>1. UNCHANGED <<pte, ref_count, faulting>>
    BY <1>3 DEF user_program_execute, thread_exit, Ends, do_stop, fault_kills, do_mmap, store
  <2>2. QED BY <2>1, CountsStay
<1>4. ASSUME reaped(p) PROVE Balanced
  <2>1. faulting[p] = Unmapped
    BY <1>4 DEF reaped, IInv, Layout, LayoutOf, FaultsOK
  <2>2. UNCHANGED <<pte, ref_count, faulting>>
    BY <1>4, <2>1 DEF reaped, IInv, TypeOK
  <2>3. QED BY <2>2, CountsStay
<1>5. Balanced \/ demand_page_maps(p)
  BY <1>2, <1>3, <1>4, ExecCounted, ForkCounted, PopulateCounted, CopyCounted, DemandCounted,
     SignalCounted, SigreturnCounted, FreeCounted
<1>6. QED
  BY <1>5, MapBalances DEF Balanced

LEMMA NextCounted ==
    ASSUME Unruly = {}, IInv, [Next]_vars
    PROVE  Counted'
<1> SUFFICES ASSUME NEW f \in Frames
             PROVE  /\ ref_count'[f] \in Nat
                    /\ ref_count'[f] >= MapCount(pte', f) + FaultCount(faulting', f)
  BY DEF Counted
<1>1. Balances(f, 0) \/ Balances(f, 1)
  <2>1. CASE UNCHANGED vars
    BY <2>1, CountsStay DEF vars, Balanced
  <2>2. CASE Next
    BY <2>2, NextBalances
  <2>3. QED BY <2>1, <2>2
<1>2. /\ MapCount(pte, f) \in Nat /\ FaultCount(faulting, f) \in Nat
      /\ MapCount(pte', f) \in Nat /\ FaultCount(faulting', f) \in Nat
  BY MapCountType, FaultCountType
<1>3. ref_count[f] \in Nat /\ ref_count[f] >= MapCount(pte, f) + FaultCount(faulting, f)
  BY DEF IInv, TypeOK, Counted
<1>4. QED
  BY <1>1, <1>2, <1>3 DEF Balances

-----------------------------------------------------------------------------
(* Types *)

\* Where there is memory for areas, a program gets them all.
LEMMA AreasGiven ==
    ASSUME ~AreasRunOut, NEW p \in Procs
    PROVE  /\ user_program_execute(p) \/ do_exec(p) =>
                \E program \in Programs : vma_list' = [vma_list EXCEPT ![p] = CodeAndStack(program)]
           /\ \A c \in Procs :
                do_fork(p, c) => vma_list' = [vma_list EXCEPT ![c] = vma_list[p]]
<1>1. \A areas : Given(areas) = {areas}
  BY DEF Given
<1>2. ASSUME user_program_execute(p) \/ do_exec(p)
      PROVE  \E program \in Programs : vma_list' = [vma_list EXCEPT ![p] = CodeAndStack(program)]
  BY <1>1, <1>2 DEF user_program_execute, do_exec
<1>3. ASSUME NEW c \in Procs, do_fork(p, c)
      PROVE  vma_list' = [vma_list EXCEPT ![c] = vma_list[p]]
  BY <1>1, <1>3 DEF do_fork
<1>4. QED
  BY <1>2, <1>3

LEMMA NewAreaTypes ==
    /\ \A program \in Programs : CodeAndStack(program) \in Seq(AreaType)
    /\ \A program \in Programs : Range(CodeAndStack(program)) =
          {Area(STACK_START, USER_TOP, {"r", "w"}, Nothing), Area(0, CODE_PAGES, {"r", "x"}, program)}
<1> SUFFICES ASSUME NEW program \in Programs
             PROVE  /\ CodeAndStack(program) \in Seq(AreaType)
                    /\ Range(CodeAndStack(program)) =
                         {Area(STACK_START, USER_TOP, {"r", "w"}, Nothing),
                          Area(0, CODE_PAGES, {"r", "x"}, program)}
  OBVIOUS
<1> DEFINE a == Area(STACK_START, USER_TOP, {"r", "w"}, Nothing)
           b == Area(0, CODE_PAGES, {"r", "x"}, program)
<1>1. a \in AreaType /\ b \in AreaType
  BY MemoryAssumption DEF Area, AreaType, Pages, Accesses
<1>2. CodeAndStack(program) = <<a, b>>
  BY DEF CodeAndStack
<1> HIDE DEF a, b
<1>3. <<a, b>> \in Seq(AreaType) /\ Len(<<a, b>>) = 2 /\ <<a, b>>[1] = a /\ <<a, b>>[2] = b
  BY <1>1
<1>4. DOMAIN <<a, b>> = {1, 2}
  OBVIOUS
<1>5. Range(<<a, b>>) = {a, b}
  BY <1>3, <1>4 DEF Range
<1>6. QED
  BY <1>2, <1>3, <1>5 DEF a, b

\* An area put in front of a process's list.
LEMMA PushArea ==
    ASSUME NEW q \in Seq(AreaType), NEW a \in AreaType
    PROVE  <<a>> \o q \in Seq(AreaType) /\ Range(<<a>> \o q) = {a} \cup Range(q)
<1>1. <<a>> \in Seq(AreaType) /\ Len(<<a>>) = 1 /\ <<a>>[1] = a
  OBVIOUS
<1>2. /\ <<a>> \o q \in Seq(AreaType) /\ Len(<<a>> \o q) = 1 + Len(q) /\ Len(q) \in Nat
      /\ \A i \in 1..(1 + Len(q)) : (<<a>> \o q)[i] = IF i <= 1 THEN a ELSE q[i - 1]
  BY <1>1, ConcatProperties, LenProperties
<1>3. DOMAIN (<<a>> \o q) = 1..(1 + Len(q)) /\ DOMAIN q = 1..Len(q)
  BY <1>2, LenProperties
<1>4. \A i \in 1..Len(q) : i + 1 \in 1..(1 + Len(q)) /\ (<<a>> \o q)[i + 1] = q[i]
  BY <1>2
<1>5. (<<a>> \o q)[1] = a /\ 1 \in 1..(1 + Len(q))
  BY <1>2
<1>6. Range(q) = {q[i] : i \in 1..Len(q)} /\ Range(<<a>> \o q) = {(<<a>> \o q)[i] : i \in 1..(1 + Len(q))}
  BY <1>3 DEF Range
<1>7. \A x \in Range(<<a>> \o q) : x \in {a} \cup Range(q)
  <2>1. \A i \in 1..(1 + Len(q)) : i = 1 \/ i - 1 \in 1..Len(q)
    BY <1>2
  <2>2. QED BY <1>2, <1>6, <2>1
<1>8. \A x \in {a} \cup Range(q) : x \in Range(<<a>> \o q)
  BY <1>4, <1>5, <1>6
<1>9. QED
  BY <1>2, <1>7, <1>8

LEMMA TablesOfPage ==
    ASSUME NEW v \in Pages
    PROVE  TablesOf(v) \in SUBSET Tables
BY DEF TablesOf, Tables

LEMMA PageProtType ==
    ASSUME NEW prot \in SUBSET Accesses
    PROVE  PageProt(prot) \in SUBSET Accesses /\ prot \subseteq PageProt(prot)
BY DEF PageProt, Accesses

\* What a page holds at first is data the system knows.
Contents == Data \cup {Zero, Trampoline} \cup (Programs \X (0..(CODE_PAGES - 1)))

LEMMA InitiallyType ==
    ASSUME IInv, NEW p \in Procs, NEW v \in Pages, HasArea(p, v)
    PROVE  Initially(AreaAt(p, v), v) \in Contents
<1> DEFINE a == AreaAt(p, v)
<1>1. a \in AreasOf(p) /\ Covers(a, v)
  BY AreaAtFacts
<1>2. a \in AreaType /\ a.start \in Nat /\ a.end \in Nat
  BY <1>1, AreaTypes DEF IInv
<1>3. AreaOK(a)
  BY <1>1 DEF IInv, Layout, LayoutOf, AreasOK
<1>4. CASE a.file = Nothing
  BY <1>4 DEF Initially, Contents
<1>5. CASE a.file # Nothing
  <2>1. a.file \in Programs
    BY <1>2, <1>5 DEF AreaType
  <2>2. a.end - a.start <= CODE_PAGES /\ a.start <= v /\ v < a.end /\ v \in Nat
    BY <1>1, <1>3, <1>5 DEF AreaOK, Covers, Pages
  <2>3. v - a.start \in 0..(CODE_PAGES - 1)
    BY <1>2, <2>2, MemoryAssumption
  <2>4. QED BY <1>5, <2>1, <2>3 DEF Initially, Contents
<1>6. QED
  BY <1>4, <1>5

LEMMA CountsAreNumbers ==
    ASSUME Counted', DOMAIN ref_count' = Frames,
           ref_count' = [f \in DOMAIN ref_count' |-> ref_count'[f]]
    PROVE  ref_count' \in [Frames -> Nat]
BY DEF Counted

LEMMA NewAreaType ==
    ASSUME IInv, NEW p \in Procs, NEW hint \in Hints, NEW length \in Lengths, NEW prot \in Prots,
           MmapStart(p, hint, length) + length <= SIGNAL_PAGE
    PROVE  Area(MmapStart(p, hint, length), MmapStart(p, hint, length) + length, prot, Nothing)
             \in AreaType
<1> DEFINE start == MmapStart(p, hint, length)
<1>1. hint \in Nat /\ length \in Nat \ {0} /\ prot \in SUBSET Accesses
  BY MemoryAssumption DEF Accesses
<1>2. start \in Nat
  BY <1>1, MmapStartFacts
<1> HIDE DEF start
<1>3. start + length <= SIGNAL_PAGE
  BY DEF start
<1>4. start \in Pages /\ start + length \in 1..USER_TOP
  BY <1>1, <1>2, <1>3, MemoryAssumption DEF Pages
<1>5. Area(start, start + length, prot, Nothing) \in AreaType
  BY <1>1, <1>4 DEF Area, AreaType
<1>6. QED
  BY <1>5 DEF start

LEMMA NextType ==
    ASSUME Unruly = {}, ~AreasRunOut, IInv, [Next]_vars
    PROVE  TypeOK'
<1>1. Counted' /\ TypeOK
  BY NextCounted DEF IInv
<1>2. CASE UNCHANGED vars
  BY <1>1, <1>2 DEF TypeOK, vars
<1>3. ASSUME NEW p \in Procs, user_program_execute(p) PROVE TypeOK'
  <2>1. vma_list' \in [Procs -> Seq(AreaType)]
    <3>1. PICK program \in Programs : vma_list' = [vma_list EXCEPT ![p] = CodeAndStack(program)]
      BY <1>3, AreasGiven
    <3>2. CodeAndStack(program) \in Seq(AreaType)
      BY NewAreaTypes
    <3>3. vma_list \in [Procs -> Seq(AreaType)]
      BY <1>1 DEF TypeOK, AreaType
    <3>4. QED BY <3>1, <3>2, <3>3
  <2>2. QED BY <1>1, <1>3, <2>1 DEF user_program_execute, TypeOK, AreaType
<1>4. ASSUME NEW p \in Procs, do_exec(p) PROVE TypeOK'
  <2>1. vma_list' \in [Procs -> Seq(AreaType)]
    <3>1. PICK program \in Programs : vma_list' = [vma_list EXCEPT ![p] = CodeAndStack(program)]
      BY <1>4, AreasGiven
    <3>2. CodeAndStack(program) \in Seq(AreaType)
      BY NewAreaTypes
    <3>3. vma_list \in [Procs -> Seq(AreaType)]
      BY <1>1 DEF TypeOK, AreaType
    <3>4. QED BY <3>1, <3>2, <3>3
  <2>2. pte' \in [Procs -> [Pages -> Entries]]
    BY <1>1, <1>4 DEF do_exec, TypeOK, Entries
  <2>3. ref_count' \in [Frames -> Nat]
    BY <1>1, <1>4, CountsAreNumbers DEF do_exec, Released
  <2>4. QED BY <1>1, <1>4, <2>1, <2>2, <2>3 DEF do_exec, TypeOK, AreaType
<1>5. ASSUME NEW p \in Procs, NEW c \in Procs, do_fork(p, c) PROVE TypeOK'
  <2>1. PICK copied \in {tables[p]} \cup
             (IF TablesRunOut THEN {{s \in tables[p] : Before(s, t)} : t \in tables[p]} ELSE {}) :
         LET shared == {v \in Pages : Present(p, v) /\ TablesOf(v) \subseteq copied}
         IN /\ tables' = [tables EXCEPT ![c] = copied]
            /\ pte' = [pte EXCEPT
                ![p] = [v \in Pages |-> IF v \in shared THEN WriteProtected(@[v]) ELSE @[v]],
                ![c] = [v \in Pages |-> IF v \in shared THEN WriteProtected(pte[p][v]) ELSE @[v]]]
            /\ ref_count' = [f \in Frames |->
                ref_count[f] + Cardinality({v \in shared : pte[p][v].frame = f})]
            /\ status' = [status EXCEPT ![c] = IF copied = tables[p] THEN "live" ELSE "half_built"]
    BY <1>5 DEF do_fork
  <2> DEFINE shared == {v \in Pages : Present(p, v) /\ TablesOf(v) \subseteq copied}
  <2>2. tables' \in [Procs -> SUBSET Tables]
    <3>1. copied \in SUBSET tables[p]
      OBVIOUS
    <3>2. QED BY <1>1, <2>1, <3>1 DEF TypeOK
  <2>3. pte' \in [Procs -> [Pages -> Entries]]
    <3>1. \A v \in shared : WriteProtected(pte[p][v]) \in Entries
      <4>1. \A v \in shared : pte[p][v] \in [frame : Frames, prot : SUBSET Accesses]
        BY <1>1, EntryFacts
      <4>2. QED BY <4>1 DEF WriteProtected, Entries
    <3> DEFINE P == [v \in Pages |-> IF v \in shared THEN WriteProtected(pte[p][v]) ELSE pte[p][v]]
               C == [v \in Pages |-> IF v \in shared THEN WriteProtected(pte[p][v]) ELSE pte[c][v]]
    <3>2. p # c
      BY <1>5 DEF do_fork, Live
    <3>3. pte' = [pte EXCEPT ![p] = P, ![c] = C]
      BY <1>1, <2>1, <3>2 DEF TypeOK
    <3>4. P \in [Pages -> Entries] /\ C \in [Pages -> Entries]
      BY <1>1, <3>1 DEF TypeOK
    <3> HIDE DEF P, C
    <3>5. QED BY <1>1, <3>3, <3>4 DEF TypeOK
  <2>4. ref_count' \in [Frames -> Nat]
    BY <1>1, <2>1, CountsAreNumbers
  <2>5. vma_list' \in [Procs -> Seq(AreaType)]
    <3>1. vma_list' = [vma_list EXCEPT ![c] = vma_list[p]]
      BY <1>5, AreasGiven
    <3>2. vma_list \in [Procs -> Seq(AreaType)]
      BY <1>1 DEF TypeOK, AreaType
    <3>3. QED BY <3>1, <3>2
  <2>6. status' \in [Procs -> {"free", "live", "half_built", "zombie"}]
    BY <1>1, <2>1 DEF TypeOK
  <2>7. QED BY <1>1, <1>5, <2>2, <2>3, <2>4, <2>5, <2>6 DEF do_fork, TypeOK, AreaType
<1>6. ASSUME NEW p \in Procs, NEW hint \in Hints, NEW length \in Lengths, NEW prot \in Prots,
             do_mmap(p, hint, length, prot)
      PROVE  TypeOK'
  <2> DEFINE a == Area(MmapStart(p, hint, length), MmapStart(p, hint, length) + length, prot, Nothing)
  <2>1. a \in AreaType
    BY <1>6, NewAreaType DEF do_mmap
  <2>2. vma_list' = [vma_list EXCEPT ![p] = <<a>> \o @]
    BY <1>6 DEF do_mmap
  <2> HIDE DEF a
  <2>3. vma_list' \in [Procs -> Seq(AreaType)]
    BY <1>1, <2>1, <2>2, PushArea DEF TypeOK, AreaType
  <2>4. QED BY <1>1, <1>6, <2>3 DEF do_mmap, TypeOK, AreaType
<1>7. ASSUME NEW p \in Procs, NEW hint \in Hints, NEW length \in Lengths, NEW prot \in Prots,
             do_mmap_populate(p, hint, length, prot)
      PROVE  TypeOK'
  <2> DEFINE a == Area(MmapStart(p, hint, length), MmapStart(p, hint, length) + length, prot, Nothing)
             new == Populated(p, hint, length)
  <2>1. /\ a \in AreaType /\ new \in SUBSET Pages
        /\ vma_list' = vma_list \/ vma_list' = [vma_list EXCEPT ![p] = <<a>> \o @]
    BY <1>7, PopulateFacts, NewAreaType DEF do_mmap_populate
  <2>2. PICK frame \in Injection(new, Free) :
           /\ pte' = [pte EXCEPT ![p] = [v \in Pages |->
                  IF v \in new THEN [frame |-> frame[v], prot |-> PageProt(prot)] ELSE @[v]]]
           /\ ref_count' = [f \in Frames |-> IF f \in Range(frame) THEN 1 ELSE ref_count[f]]
           /\ content' = [f \in Frames |-> IF f \in Range(frame) THEN Zero ELSE content[f]]
    BY <1>7 DEF do_mmap_populate, Populated
  <2>3. tables' = [tables EXCEPT ![p] = @ \cup UNION {TablesOf(v) : v \in new}]
    BY <1>7 DEF do_mmap_populate, Populated
  <2> HIDE DEF a, new
  <2>4. vma_list' \in [Procs -> Seq(AreaType)]
    <3>1. vma_list \in [Procs -> Seq(AreaType)] /\ vma_list[p] \in Seq(AreaType)
      BY <1>1 DEF TypeOK, AreaType
    <3>2. <<a>> \o vma_list[p] \in Seq(AreaType)
      BY <2>1, <3>1, PushArea
    <3>3. [vma_list EXCEPT ![p] = <<a>> \o @] \in [Procs -> Seq(AreaType)]
      BY <3>1, <3>2
    <3>4. QED BY <2>1, <3>1, <3>3
  <2>5. pte' \in [Procs -> [Pages -> Entries]]
    <3>1. frame \in [new -> Frames]
      BY <2>2 DEF Injection, Free
    <3>2. PageProt(prot) \in SUBSET Accesses
      BY MemoryAssumption, PageProtType DEF Accesses
    <3>3. \A v \in new : [frame |-> frame[v], prot |-> PageProt(prot)] \in Entries
      BY <3>1, <3>2 DEF Entries
    <3>4. QED BY <1>1, <2>1, <2>2, <3>3 DEF TypeOK
  <2>6. tables' \in [Procs -> SUBSET Tables]
    BY <1>1, <2>1, <2>3, TablesOfPage DEF TypeOK
  <2>7. ref_count' \in [Frames -> Nat]
    BY <1>1, <2>2, CountsAreNumbers
  <2>8. content' \in [Frames -> Contents]
    BY <1>1, <2>2 DEF TypeOK, Contents
  <2>9. QED BY <1>1, <1>7, <2>4, <2>5, <2>6, <2>7, <2>8 DEF do_mmap_populate, TypeOK, AreaType, Contents
<1>8. ASSUME NEW p \in Procs, NEW v \in Pages, copy_on_write(p, v) PROVE TypeOK'
  <2> DEFINE old == pte[p][v].frame
  <2>1. Present(p, v)
    BY <1>8 DEF copy_on_write, IsCow
  <2>2. /\ pte[p][v] \in [frame : Frames, prot : SUBSET Accesses]
        /\ old \in Frames /\ pte[p][v].prot \cup {"w"} \in SUBSET Accesses
    BY <1>1, <2>1, EntryFacts DEF Accesses
  <2>3. CASE IsShared(old)
    <3>1. PICK new \in Free :
             /\ content' = [content EXCEPT ![new] = content[old]]
             /\ pte' = [pte EXCEPT ![p][v] = [frame |-> new, prot |-> @.prot \cup {"w"}]]
             /\ ref_count' = [ref_count EXCEPT ![new] = 1, ![old] = @ - 1]
      BY <1>8, <2>3 DEF copy_on_write
    <3>2. new \in Frames
      BY DEF Free
    <3>3. [frame |-> new, prot |-> pte[p][v].prot \cup {"w"}] \in Entries
      BY <2>2, <3>2 DEF Entries
    <3>4. pte' \in [Procs -> [Pages -> Entries]]
      BY <1>1, <3>1, <3>3 DEF TypeOK
    <3>5. content' \in [Frames -> Contents]
      BY <1>1, <2>2, <3>1, <3>2 DEF TypeOK, Contents
    <3>6. ref_count' \in [Frames -> Nat]
      <4>1. DOMAIN ref_count' = Frames /\ ref_count' = [f \in DOMAIN ref_count' |-> ref_count'[f]]
        BY <1>1, <3>1 DEF TypeOK
      <4>2. QED BY <1>1, <4>1, CountsAreNumbers
    <3>7. QED BY <1>1, <1>8, <3>4, <3>5, <3>6 DEF copy_on_write, TypeOK, Contents
  <2>4. CASE ~IsShared(old)
    <3>1. pte' = [pte EXCEPT ![p][v].prot = @ \cup {"w"}] /\ UNCHANGED <<ref_count, content>>
      BY <1>8, <2>4 DEF copy_on_write
    <3>2. [pte[p][v] EXCEPT !.prot = @ \cup {"w"}] \in Entries
      BY <2>2 DEF Entries
    <3>3. pte' \in [Procs -> [Pages -> Entries]]
      BY <1>1, <3>1, <3>2 DEF TypeOK
    <3>4. QED BY <1>1, <1>8, <3>1, <3>3 DEF copy_on_write, TypeOK
  <2>5. QED BY <2>3, <2>4
<1>9. ASSUME NEW p \in Procs, NEW v \in Pages, NEW d \in Data, store(p, v, d) PROVE TypeOK'
  <2>1. content' \in [Frames -> Contents]
    BY <1>1, <1>9 DEF store, TypeOK, Contents
  <2>2. QED BY <1>1, <1>9, <2>1 DEF store, TypeOK, Contents
<1>10. ASSUME NEW p \in Procs, NEW v \in Pages, NEW access \in Accesses, demand_page(p, v, access)
       PROVE  TypeOK'
  <2> DEFINE a == AreaAt(p, v)
  <2>1. PICK f \in Free :
          /\ content' = [content EXCEPT ![f] = Initially(a, v)]
          /\ ref_count' = [ref_count EXCEPT ![f] = 1]
          /\ faulting' = [faulting EXCEPT ![p] =
                 [page |-> v, frame |-> f, prot |-> PageProt(a.prot)]]
    BY <1>10 DEF demand_page
  <2>2. f \in Frames /\ HasArea(p, v)
    BY <1>10 DEF Free, demand_page, IsDemand
  <2>3. a \in AreasOf(p) /\ Initially(a, v) \in Contents
    BY <2>2, AreaAtFacts, InitiallyType
  <2>4. PageProt(a.prot) \in SUBSET Accesses
    BY <1>1, <2>3, AreaTypes, PageProtType
  <2> HIDE DEF a
  <2>5. content' \in [Frames -> Contents]
    BY <1>1, <2>1, <2>3 DEF TypeOK, Contents
  <2>6. ref_count' \in [Frames -> Nat]
    BY <1>1, <2>1 DEF TypeOK
  <2>7. faulting' \in [Procs -> [page : Pages, frame : Frames, prot : SUBSET Accesses] \cup {Unmapped}]
    BY <1>1, <2>1, <2>2, <2>4 DEF TypeOK
  <2>8. QED BY <1>1, <1>10, <2>5, <2>6, <2>7 DEF demand_page, TypeOK, Contents
<1>11. ASSUME NEW p \in Procs, demand_page_maps(p) PROVE TypeOK'
  <2> DEFINE e == faulting[p]
  <2>1. /\ e.page \in Pages /\ [frame |-> e.frame, prot |-> e.prot] \in Entries
    BY <1>1, <1>11, FaultFacts DEF demand_page_maps, Entries
  <2>2. pte' = [pte EXCEPT ![p][e.page] = [frame |-> e.frame, prot |-> e.prot]]
    BY <1>11 DEF demand_page_maps
  <2>3. tables' = [tables EXCEPT ![p] = @ \cup TablesOf(e.page)]
    BY <1>11 DEF demand_page_maps
  <2> HIDE DEF e
  <2>4. pte' \in [Procs -> [Pages -> Entries]]
    BY <1>1, <2>1, <2>2 DEF TypeOK
  <2>5. tables' \in [Procs -> SUBSET Tables]
    BY <1>1, <2>1, <2>3, TablesOfPage DEF TypeOK
  <2>6. QED BY <1>1, <1>11, <2>4, <2>5 DEF demand_page_maps, TypeOK
<1>12. ASSUME NEW p \in Procs, signal_check(p) PROVE TypeOK'
  <2>1. PICK f \in Free :
         /\ signal_stack' = [signal_stack EXCEPT ![p] = f]
         /\ content' = [content EXCEPT ![f] = Trampoline]
         /\ ref_count' = [ref_count EXCEPT ![f] = 1]
         /\ pte' = [pte EXCEPT ![p][SIGNAL_PAGE] = [frame |-> f, prot |-> HandlerProt]]
    BY <1>12 DEF signal_check
  <2>2. [frame |-> f, prot |-> HandlerProt] \in Entries
    BY DEF Free, Entries, HandlerProt, Accesses
  <2>3. pte' \in [Procs -> [Pages -> Entries]]
    BY <1>1, <2>1, <2>2, SignalPageIsPage DEF TypeOK
  <2>4. tables' \in [Procs -> SUBSET Tables]
    BY <1>1, <1>12, SignalPageIsPage, TablesOfPage DEF signal_check, TypeOK
  <2>5. content' \in [Frames -> Contents] /\ ref_count' \in [Frames -> Nat]
    BY <1>1, <2>1 DEF TypeOK, Contents
  <2>6. /\ signal_stack' \in [Procs -> Frames \cup {NoFrame}]
        /\ is_handling_signal' \in [Procs -> BOOLEAN]
    BY <1>1, <1>12, <2>1 DEF signal_check, TypeOK, Free
  <2>7. QED BY <1>1, <1>12, <2>3, <2>4, <2>5, <2>6 DEF signal_check, TypeOK, Contents
<1>13. ASSUME NEW p \in Procs, do_sigreturn(p) PROVE TypeOK'
  <2>1. pte' \in [Procs -> [Pages -> Entries]]
    BY <1>1, <1>13, SignalPageIsPage DEF do_sigreturn, unmap_page, TypeOK, Entries
  <2>2. ref_count' \in [Frames -> Nat]
    <3>1. DOMAIN ref_count' = Frames /\ ref_count' = [f \in DOMAIN ref_count' |-> ref_count'[f]]
      BY <1>1, <1>13 DEF TypeOK, do_sigreturn
    <3>2. QED BY <1>1, <3>1, CountsAreNumbers
  <2>3. QED BY <1>1, <1>13, <2>1, <2>2 DEF do_sigreturn, TypeOK
<1>14. ASSUME NEW p \in Procs, free_user_space(p) PROVE TypeOK'
  <2>1. pte' \in [Procs -> [Pages -> Entries]]
    BY <1>1, <1>14 DEF free_user_space, TypeOK, Entries
  <2>2. ref_count' \in [Frames -> Nat]
    BY <1>1, <1>14, CountsAreNumbers DEF free_user_space, Released
  <2>3. QED BY <1>1, <1>14, <2>1, <2>2 DEF free_user_space, TypeOK
<1>15. ASSUME NEW p \in Procs, reaped(p) PROVE TypeOK'
  <2>1. vma_list' \in [Procs -> Seq(AreaType)]
    <3>1. <<>> \in Seq(AreaType)
      OBVIOUS
    <3>2. QED BY <1>1, <1>15, <3>1 DEF reaped, TypeOK, AreaType
  <2>2. QED BY <1>1, <1>15, <2>1 DEF reaped, TypeOK, AreaType
<1>16. ASSUME NEW p \in Procs, thread_exit(p) \/ do_stop(p) \/ fault_kills(p) PROVE TypeOK'
  BY <1>1, <1>16 DEF thread_exit, Ends, do_stop, fault_kills, TypeOK
<1>17. QED
  BY <1>2, <1>3, <1>4, <1>5, <1>6, <1>7, <1>8, <1>9, <1>10, <1>11, <1>12, <1>13, <1>14, <1>15,
     <1>16 DEF Next

-----------------------------------------------------------------------------
(* Layout *)

\* What the invariant says of a process is left alone by the steps of others.
Same(q) ==
    /\ status'[q] = status[q] /\ vma_list'[q] = vma_list[q] /\ pte'[q] = pte[q]
    /\ signal_stack'[q] = signal_stack[q] /\ is_handling_signal'[q] = is_handling_signal[q]
    /\ faulting'[q] = faulting[q]

LEMMA SameLayout ==
    ASSUME NEW q \in Procs, LayoutOf(q), Same(q)
    PROVE  LayoutOf(q)'
<1>1. FreeIsClean(q)'
  BY DEF LayoutOf, FreeIsClean, Same, Present
<1>2. AreasOK(q)'
  BY DEF LayoutOf, AreasOK, Same, AreasOf, AreaOK, Covers
<1>3. PagesOK(q)'
  BY DEF LayoutOf, PagesOK, Same, AreasOf, Present
<1>4. HandlersOK(q)'
  BY DEF LayoutOf, HandlersOK, Same
<1>5. FaultsOK(q)'
  BY DEF LayoutOf, FaultsOK, Same, AreasOf, Present
<1>6. QED
  BY <1>1, <1>2, <1>3, <1>4, <1>5 DEF LayoutOf

LEMMA ProgramLayout ==
    ASSUME NEW p \in Procs, NEW program \in Programs, vma_list'[p] = CodeAndStack(program)
    PROVE  AreasOK(p)'
<1> DEFINE a == Area(STACK_START, USER_TOP, {"r", "w"}, Nothing)
           b == Area(0, CODE_PAGES, {"r", "x"}, program)
<1>1. AreasOf(p)' = {a, b}
  BY NewAreaTypes DEF AreasOf
<1>2. /\ a.start = STACK_START /\ a.end = USER_TOP /\ a.file = Nothing
      /\ b.start = 0 /\ b.end = CODE_PAGES /\ b.file = program
  BY DEF Area
<1> HIDE DEF a, b
<1>3. AreaOK(a) /\ AreaOK(b) /\ Apart(a, b) /\ Apart(b, a)
  BY <1>2, MemoryAssumption DEF AreaOK, Apart, Covers
<1>4. QED
  BY <1>1, <1>3 DEF AreasOK

LEMMA ExecuteLayout ==
    ASSUME ~AreasRunOut, IInv, NEW p \in Procs, user_program_execute(p)
    PROVE  LayoutOf(p)'
<1>1. PICK program \in Programs : vma_list' = [vma_list EXCEPT ![p] = CodeAndStack(program)]
  BY AreasGiven
<1>2. TypeOK /\ LayoutOf(p) /\ status[p] = "free"
  BY DEF IInv, Layout, user_program_execute
<1>3. /\ status'[p] = "live" /\ pte' = pte /\ is_handling_signal' = is_handling_signal
      /\ faulting' = faulting /\ vma_list'[p] = CodeAndStack(program)
  BY <1>1, <1>2 DEF TypeOK, user_program_execute
<1>4. ~is_handling_signal[p] /\ \A v \in Pages : ~Present(p, v)
  BY <1>2 DEF LayoutOf, FreeIsClean
<1>5. faulting[p] = Unmapped
  BY <1>2 DEF LayoutOf, FaultsOK
<1>6. AreasOK(p)'
  BY <1>3, ProgramLayout
<1>7. FreeIsClean(p)' /\ PagesOK(p)' /\ HandlersOK(p)' /\ FaultsOK(p)'
  BY <1>3, <1>4, <1>5 DEF FreeIsClean, PagesOK, HandlersOK, FaultsOK, Present
<1>8. QED
  BY <1>6, <1>7 DEF LayoutOf

LEMMA ExecLayout ==
    ASSUME Unruly = {}, ~AreasRunOut, IInv, NEW p \in Procs, do_exec(p)
    PROVE  LayoutOf(p)'
<1>1. PICK program \in Programs : vma_list' = [vma_list EXCEPT ![p] = CodeAndStack(program)]
  BY AreasGiven
<1>2. TypeOK /\ status[p] = "live" /\ faulting[p] = Unmapped /\ ~is_handling_signal[p]
  BY DEF IInv, do_exec, Live, Rule
<1>3. /\ status'[p] = "live" /\ is_handling_signal'[p] = FALSE /\ faulting'[p] = Unmapped
      /\ vma_list'[p] = CodeAndStack(program) /\ \A v \in Pages : pte'[p][v] = Unmapped
  BY <1>1, <1>2 DEF TypeOK, do_exec
<1>4. AreasOK(p)'
  BY <1>3, ProgramLayout
<1>5. FreeIsClean(p)' /\ PagesOK(p)' /\ HandlersOK(p)' /\ FaultsOK(p)'
  BY <1>3 DEF FreeIsClean, PagesOK, HandlersOK, FaultsOK, Present
<1>6. QED
  BY <1>4, <1>5 DEF LayoutOf

\* fork: parent and child have the parent's areas, and what is mapped in
\* either was in the parent, where only the right to write is gone.
LEMMA ForkLayout ==
    ASSUME Unruly = {}, ~AreasRunOut, IInv, NEW p \in Procs, NEW c \in Procs, do_fork(p, c)
    PROVE  LayoutOf(p)' /\ LayoutOf(c)' /\ \A q \in Procs \ {p, c} : Same(q)
<1>1. PICK copied \in {tables[p]} \cup
             (IF TablesRunOut THEN {{s \in tables[p] : Before(s, t)} : t \in tables[p]} ELSE {}) :
        LET shared == {v \in Pages : Present(p, v) /\ TablesOf(v) \subseteq copied}
        IN /\ pte' = [pte EXCEPT
                ![p] = [v \in Pages |-> IF v \in shared THEN WriteProtected(@[v]) ELSE @[v]],
                ![c] = [v \in Pages |-> IF v \in shared THEN WriteProtected(pte[p][v]) ELSE @[v]]]
           /\ ref_count' = [f \in Frames |->
                ref_count[f] + Cardinality({v \in shared : pte[p][v].frame = f})]
           /\ status' = [status EXCEPT ![c] = IF copied = tables[p] THEN "live" ELSE "half_built"]
  BY DEF do_fork
<1> DEFINE shared == {v \in Pages : Present(p, v) /\ TablesOf(v) \subseteq copied}
<1>2. /\ TypeOK /\ LayoutOf(p) /\ LayoutOf(c) /\ p # c
      /\ status[p] = "live" /\ faulting[p] = Unmapped /\ ~is_handling_signal[p] /\ status[c] = "free"
  BY DEF IInv, Layout, do_fork, Live, Rule
<1>3. /\ pte'[p] = [v \in Pages |-> IF v \in shared THEN WriteProtected(pte[p][v]) ELSE pte[p][v]]
      /\ pte'[c] = [v \in Pages |-> IF v \in shared THEN WriteProtected(pte[p][v]) ELSE pte[c][v]]
      /\ \A q \in Procs \ {p, c} : pte'[q] = pte[q]
  BY <1>1, <1>2 DEF TypeOK
<1>4. /\ status'[p] = "live" /\ status'[c] \in {"live", "half_built"}
      /\ \A q \in Procs \ {p, c} : status'[q] = status[q]
  BY <1>1, <1>2 DEF TypeOK
<1>5. /\ vma_list'[p] = vma_list[p] /\ vma_list'[c] = vma_list[p]
      /\ \A q \in Procs \ {p, c} : vma_list'[q] = vma_list[q]
      /\ signal_stack' = signal_stack /\ is_handling_signal' = is_handling_signal
      /\ faulting' = faulting
  <2>1. vma_list' = [vma_list EXCEPT ![c] = vma_list[p]]
    BY AreasGiven
  <2>2. QED BY <1>2, <2>1 DEF do_fork, TypeOK
<1>6. ~is_handling_signal[c] /\ faulting[c] = Unmapped /\ \A v \in Pages : pte[c][v] = Unmapped
  BY <1>2 DEF LayoutOf, FreeIsClean, FaultsOK, Present
<1>7. AreasOK(p)' /\ AreasOK(c)'
  BY <1>2, <1>5 DEF LayoutOf, AreasOK, AreasOf, AreaOK, Covers
<1>8. \A v \in Pages : Present(p, v) =>
        /\ v # SIGNAL_PAGE
        /\ \A a \in AreasOf(p) : Covers(a, v) => PageProt(a.prot) \ {"w"} \subseteq pte[p][v].prot
  BY <1>2 DEF LayoutOf, PagesOK
<1>9. \A v \in shared : /\ v \in Pages /\ Present(p, v)
                        /\ WriteProtected(pte[p][v]).prot = pte[p][v].prot \ {"w"}
  <2>1. \A v \in shared : v \in Pages /\ Present(p, v)
    OBVIOUS
  <2>2. \A v \in shared : pte[p][v] \in [frame : Frames, prot : SUBSET Accesses]
    BY <1>2, <2>1, EntryFacts
  <2>3. QED BY <2>1, <2>2 DEF WriteProtected
<1> HIDE DEF shared
<1>10. AreasOf(p)' = AreasOf(p) /\ AreasOf(c)' = AreasOf(p)
  BY <1>5 DEF AreasOf
<1>11. PagesOK(p)'
  <2> SUFFICES ASSUME NEW v \in Pages, pte'[p][v] # Unmapped
               PROVE  /\ v # SIGNAL_PAGE
                      /\ \A a \in AreasOf(p) :
                           Covers(a, v) => PageProt(a.prot) \ {"w"} \subseteq pte'[p][v].prot
    BY <1>10 DEF PagesOK, Present
  <2>1. Present(p, v)
    BY <1>3, <1>9 DEF Present
  <2>2. pte[p][v].prot \ {"w"} \subseteq pte'[p][v].prot
    BY <1>3, <1>9
  <2>3. QED BY <1>8, <2>1, <2>2
<1>12. PagesOK(c)'
  <2> SUFFICES ASSUME NEW v \in Pages, pte'[c][v] # Unmapped
               PROVE  /\ v # SIGNAL_PAGE
                      /\ \A a \in AreasOf(p) :
                           Covers(a, v) => PageProt(a.prot) \ {"w"} \subseteq pte'[c][v].prot
    BY <1>10 DEF PagesOK, Present
  <2>1. v \in shared
    BY <1>3, <1>6
  <2>2. Present(p, v) /\ pte'[c][v].prot = pte[p][v].prot \ {"w"}
    BY <1>3, <1>9, <2>1
  <2>3. QED BY <1>8, <2>2
<1>13. /\ FreeIsClean(p)' /\ HandlersOK(p)' /\ FaultsOK(p)'
       /\ FreeIsClean(c)' /\ HandlersOK(c)' /\ FaultsOK(c)'
  BY <1>2, <1>4, <1>5, <1>6 DEF FreeIsClean, HandlersOK, FaultsOK
<1>14. QED
  BY <1>3, <1>4, <1>5, <1>7, <1>11, <1>12, <1>13 DEF LayoutOf, Same

\* A new area that mmap found a place for joins the others.
LEMMA MmapLayout ==
    ASSUME IInv, NEW p \in Procs, NEW hint \in Hints, NEW length \in Lengths, NEW prot \in Prots,
           MmapStart(p, hint, length) + length <= SIGNAL_PAGE,
           vma_list' = [vma_list EXCEPT ![p] =
               <<Area(MmapStart(p, hint, length), MmapStart(p, hint, length) + length,
                      prot, Nothing)>> \o @]
    PROVE  /\ AreasOK(p)'
           /\ AreasOf(p)' = AreasOf(p) \cup
                {Area(MmapStart(p, hint, length), MmapStart(p, hint, length) + length, prot, Nothing)}
<1> DEFINE start == MmapStart(p, hint, length)
           a == Area(start, start + length, prot, Nothing)
<1>1. hint \in Nat /\ length \in Nat \ {0}
  BY MemoryAssumption
<1>2. start \in Nat /\ \A b \in AreasOf(p) : ~Overlaps(start, length, b)
  BY <1>1, MmapStartFacts
<1>3. a \in AreaType
  BY NewAreaType
<1>4. vma_list' = [vma_list EXCEPT ![p] = <<a>> \o @] /\ start + length <= SIGNAL_PAGE
  OBVIOUS
<1>5. a.start = start /\ a.end = start + length /\ a.file = Nothing
  BY DEF Area
<1> HIDE DEF a, start
<1>6. vma_list'[p] = <<a>> \o vma_list[p] /\ vma_list[p] \in Seq(AreaType)
  BY <1>4 DEF IInv, TypeOK, AreaType
<1>7. AreasOf(p)' = AreasOf(p) \cup {a}
  BY <1>3, <1>6, PushArea DEF AreasOf
<1>8. AreaOK(a)
  BY <1>1, <1>2, <1>4, <1>5, MemoryAssumption DEF AreaOK, Covers
<1>9. \A b \in AreasOf(p) : Apart(a, b) /\ Apart(b, a)
  <2>1. \A b \in AreasOf(p) : b.start \in Nat /\ b.end \in Nat
    BY AreaTypes DEF IInv
  <2>2. QED BY <1>1, <1>2, <1>5, <2>1 DEF Apart, Overlaps
<1>10. AreasOK(p)
  BY DEF IInv, Layout, LayoutOf
<1>11. AreasOK(p)'
  BY <1>7, <1>8, <1>9, <1>10 DEF AreasOK
<1>12. QED
  BY <1>7, <1>11 DEF a, start

LEMMA PopulateLayout ==
    ASSUME Unruly = {}, ~AreasRunOut, IInv, NEW p \in Procs, NEW hint \in Hints, NEW length \in Lengths,
           NEW prot \in Prots, do_mmap_populate(p, hint, length, prot)
    PROVE  LayoutOf(p)'
<1> DEFINE start == MmapStart(p, hint, length)
           a == Area(start, start + length, prot, Nothing)
           new == Populated(p, hint, length)
<1>1. /\ TypeOK /\ LayoutOf(p) /\ status[p] = "live" /\ faulting[p] = Unmapped
      /\ start + length <= SIGNAL_PAGE
  BY DEF IInv, Layout, do_mmap_populate, Live
<1>2. PICK frame \in Injection(new, Free) :
        pte' = [pte EXCEPT ![p] = [v \in Pages |->
                  IF v \in new THEN [frame |-> frame[v], prot |-> PageProt(prot)] ELSE @[v]]]
  BY DEF do_mmap_populate, Populated
<1>3. \A v \in new : v \in Pages /\ v # SIGNAL_PAGE /\ ~HasArea(p, v)
  BY PopulateFacts
<1>4. \/ vma_list' = vma_list
       \/ /\ vma_list' = [vma_list EXCEPT ![p] = <<a>> \o @]
          /\ new = start..(start + length - 1)
  BY PopulateFacts
<1>5. vma_list' = [vma_list EXCEPT ![p] = <<a>> \o @] =>
         AreasOK(p)' /\ AreasOf(p)' = AreasOf(p) \cup {a}
  BY <1>1, MmapLayout
<1>6. /\ start \in Nat /\ length \in Nat
      /\ a.start = start /\ a.end = start + length /\ a.prot = prot
  BY MemoryAssumption, MmapStartFacts DEF Area
<1>7. \A b \in AreasOf(p), v \in Pages : Covers(b, v) => HasArea(p, v)
  BY DEF HasArea, AreasOf, Range
<1> HIDE DEF new, a, start
<1>8. /\ AreasOK(p)'
      /\ \A b \in AreasOf(p)' : \/ b \in AreasOf(p)
                                \/ b = a /\ \A v \in Pages : Covers(a, v) => v \in new
  <2>1. CASE vma_list' = vma_list
    <3>1. AreasOf(p)' = AreasOf(p)
      BY <2>1 DEF AreasOf
    <3>2. AreasOK(p)'
      BY <1>1, <3>1 DEF LayoutOf, AreasOK
    <3>3. QED BY <3>1, <3>2
  <2>2. CASE /\ vma_list' = [vma_list EXCEPT ![p] = <<a>> \o @]
             /\ new = start..(start + length - 1)
    <3>1. AreasOK(p)' /\ AreasOf(p)' = AreasOf(p) \cup {a}
      BY <1>5, <2>2
    <3>2. \A v \in Pages : Covers(a, v) => v \in new
      BY <1>6, <2>2 DEF Covers, Pages
    <3>3. QED BY <3>1, <3>2
  <2>3. QED BY <1>4, <2>1, <2>2
<1>9. /\ \A v \in new : pte'[p][v] = [frame |-> frame[v], prot |-> PageProt(prot)]
      /\ \A v \in Pages \ new : pte'[p][v] = pte[p][v]
  BY <1>1, <1>2, <1>3 DEF TypeOK
<1>10. /\ status'[p] = "live" /\ faulting'[p] = Unmapped
      /\ is_handling_signal' = is_handling_signal /\ signal_stack' = signal_stack
  BY <1>1 DEF do_mmap_populate
<1>11. PagesOK(p)'
  <2> SUFFICES ASSUME NEW v \in Pages, pte'[p][v] # Unmapped
               PROVE  IF v = SIGNAL_PAGE THEN is_handling_signal[p]
                      ELSE \A b \in AreasOf(p)' :
                             Covers(b, v) => PageProt(b.prot) \ {"w"} \subseteq pte'[p][v].prot
    BY <1>10 DEF PagesOK, Present
  <2>1. CASE v \in new
    <3>0. pte'[p][v] = [frame |-> frame[v], prot |-> PageProt(a.prot)]
      BY <1>6, <1>9, <2>1
    <3>1. pte'[p][v].prot = PageProt(a.prot) /\ v # SIGNAL_PAGE /\ ~HasArea(p, v)
      BY <1>3, <2>1, <3>0
    <3>2. \A b \in AreasOf(p)' : Covers(b, v) => b = a
      BY <1>8, <1>7, <3>1
    <3>3. QED BY <3>1, <3>2
  <2>2. CASE v \notin new
    <3>1. pte'[p][v] = pte[p][v] /\ Present(p, v)
      BY <1>9, <2>2 DEF Present
    <3>2. \A b \in AreasOf(p)' : Covers(b, v) => b \in AreasOf(p)
      BY <1>8, <2>2
    <3>3. QED BY <1>1, <3>1, <3>2 DEF LayoutOf, PagesOK
  <2>3. QED BY <2>1, <2>2
<1>12. HandlersOK(p)'
  <2>1. SIGNAL_PAGE \in Pages \ new
    BY <1>3, SignalPageIsPage
  <2>2. pte'[p][SIGNAL_PAGE] = pte[p][SIGNAL_PAGE]
    BY <1>9, <2>1
  <2>3. QED BY <1>1, <1>10, <2>2 DEF LayoutOf, HandlersOK
<1>13. FreeIsClean(p)' /\ FaultsOK(p)'
  BY <1>10 DEF FreeIsClean, FaultsOK
<1>14. QED
  BY <1>8, <1>11, <1>12, <1>13 DEF LayoutOf

LEMMA JustMmapLayout ==
    ASSUME Unruly = {}, IInv, NEW p \in Procs, NEW hint \in Hints, NEW length \in Lengths,
           NEW prot \in Prots, do_mmap(p, hint, length, prot)
    PROVE  LayoutOf(p)'
<1> DEFINE start == MmapStart(p, hint, length)
           a == Area(start, start + length, prot, Nothing)
<1>1. /\ LayoutOf(p) /\ status[p] = "live" /\ faulting[p] = Unmapped
      /\ start + length <= SIGNAL_PAGE
      /\ vma_list' = [vma_list EXCEPT ![p] = <<a>> \o @]
  BY DEF IInv, Layout, do_mmap, Live
<1>2. AreasOK(p)' /\ AreasOf(p)' = AreasOf(p) \cup {a}
  BY <1>1, MmapLayout
<1> HIDE DEF a, start
<1>3. /\ status' = status /\ faulting' = faulting /\ pte' = pte
      /\ is_handling_signal' = is_handling_signal /\ signal_stack' = signal_stack
  BY DEF do_mmap
<1>4. PagesOK(p)'
  <2> SUFFICES ASSUME NEW v \in Pages, Present(p, v), v # SIGNAL_PAGE
               PROVE  ~Covers(a, v)
    BY <1>1, <1>2, <1>3 DEF LayoutOf, PagesOK, Present
  <2>1. length \in Nat \ {0} /\ hint \in Nat
    BY MemoryAssumption
  <2>2. start \in Nat /\ a.start = start /\ a.end = start + length
    BY <2>1, MmapStartFacts DEF Area, a, start
  <2>3. v \notin start..(start + length - 1)
    BY <1>1, <2>1, MmapFindsRoom DEF do_mmap, Rule, start
  <2>4. QED BY <2>1, <2>2, <2>3 DEF Covers, Pages
<1>5. FreeIsClean(p)' /\ HandlersOK(p)' /\ FaultsOK(p)'
  BY <1>1, <1>3 DEF LayoutOf, FreeIsClean, HandlersOK, FaultsOK
<1>6. QED
  BY <1>2, <1>4, <1>5 DEF LayoutOf

LEMMA CopyLayout ==
    ASSUME IInv, NEW p \in Procs, NEW v \in Pages, copy_on_write(p, v)
    PROVE  LayoutOf(p)'
<1>1. /\ TypeOK /\ LayoutOf(p) /\ status[p] = "live" /\ faulting[p] = Unmapped
      /\ Present(p, v) /\ HasArea(p, v) /\ "w" \notin pte[p][v].prot
  BY DEF IInv, Layout, copy_on_write, Faults, HalfBuilt, Live, IsCow
<1>2. pte[p][v] \in [frame : Frames, prot : SUBSET Accesses]
  BY <1>1, EntryFacts
<1>3. /\ pte'[p][v].prot = pte[p][v].prot \cup {"w"}
      /\ \A u \in Pages : u # v => pte'[p][u] = pte[p][u]
  <2>1. pte \in [Procs -> [Pages -> Entries]]
    BY <1>1 DEF TypeOK
  <2>2. CASE IsShared(pte[p][v].frame)
    BY <1>2, <2>1, <2>2 DEF copy_on_write
  <2>3. CASE ~IsShared(pte[p][v].frame)
    BY <1>2, <2>1, <2>3 DEF copy_on_write
  <2>4. QED BY <2>2, <2>3
<1>4. /\ status' = status /\ faulting' = faulting /\ vma_list' = vma_list
      /\ is_handling_signal' = is_handling_signal /\ signal_stack' = signal_stack
  BY DEF copy_on_write
<1>5. \A u \in Pages : /\ pte'[p][u] # Unmapped => Present(p, u)
                       /\ pte[p][u].prot \subseteq pte'[p][u].prot
  BY <1>1, <1>3 DEF Present
<1>6. AreasOf(p)' = AreasOf(p)
  BY <1>4 DEF AreasOf
<1>7. AreasOK(p)'
  BY <1>1, <1>6 DEF LayoutOf, AreasOK
<1>8. PagesOK(p)'
  <2> SUFFICES ASSUME NEW u \in Pages, pte'[p][u] # Unmapped
               PROVE  IF u = SIGNAL_PAGE THEN is_handling_signal[p]
                      ELSE \A b \in AreasOf(p) :
                             Covers(b, u) => PageProt(b.prot) \ {"w"} \subseteq pte'[p][u].prot
    BY <1>4, <1>6 DEF PagesOK, Present
  <2>1. IF u = SIGNAL_PAGE THEN is_handling_signal[p]
        ELSE \A b \in AreasOf(p) :
               Covers(b, u) => PageProt(b.prot) \ {"w"} \subseteq pte[p][u].prot
    BY <1>1, <1>5 DEF LayoutOf, PagesOK
  <2>2. QED BY <1>5, <2>1
<1>9. HandlersOK(p)'
  <2> SUFFICES ASSUME is_handling_signal[p]
               PROVE  signal_stack[p] \in Frames
                      /\ pte'[p][SIGNAL_PAGE] = [frame |-> signal_stack[p], prot |-> HandlerProt]
    BY <1>4 DEF HandlersOK
  <2>1. /\ signal_stack[p] \in Frames
        /\ pte[p][SIGNAL_PAGE] = [frame |-> signal_stack[p], prot |-> HandlerProt]
    BY <1>1 DEF LayoutOf, HandlersOK
  <2>2. v # SIGNAL_PAGE
    BY <1>1, <2>1 DEF HandlerProt
  <2>3. QED BY <1>3, <2>1, <2>2, SignalPageIsPage
<1>10. FreeIsClean(p)' /\ FaultsOK(p)'
  BY <1>1, <1>4 DEF FreeIsClean, FaultsOK
<1>11. QED
  BY <1>7, <1>8, <1>9, <1>10 DEF LayoutOf

LEMMA DemandLayout ==
    ASSUME IInv, NEW p \in Procs, NEW v \in Pages, NEW access \in Accesses,
           demand_page(p, v, access)
    PROVE  LayoutOf(p)'
<1> DEFINE a == AreaAt(p, v)
<1>1. TypeOK /\ LayoutOf(p) /\ HasArea(p, v)
  BY DEF IInv, Layout, demand_page, IsDemand
<1>2. \/ status[p] = "live" /\ ~Present(p, v)
      \/ status[p] = "half_built" /\ v = 0
  BY DemandedIsUnmapped DEF demand_page, Faults, HalfBuilt, Live
<1>3. PICK f \in Free : faulting' = [faulting EXCEPT ![p] =
                            [page |-> v, frame |-> f, prot |-> PageProt(a.prot)]]
  BY DEF demand_page
<1>4. a \in AreasOf(p) /\ Covers(a, v)
  BY <1>1, AreaAtFacts
<1> HIDE DEF a
<1>5. /\ status' = status /\ pte' = pte /\ vma_list' = vma_list
      /\ is_handling_signal' = is_handling_signal /\ signal_stack' = signal_stack
  BY DEF demand_page
<1>6. faulting'[p].page = v /\ faulting'[p].prot = PageProt(a.prot)
  BY <1>1, <1>3 DEF TypeOK
<1>7. AreasOf(p)' = AreasOf(p)
  BY <1>5 DEF AreasOf
<1>8. AreasOK(p)'
  BY <1>1, <1>7 DEF LayoutOf, AreasOK
<1>9. FreeIsClean(p)' /\ PagesOK(p)' /\ HandlersOK(p)'
  BY <1>1, <1>5, <1>7 DEF LayoutOf, FreeIsClean, PagesOK, HandlersOK, Present
<1>10. FaultsOK(p)'
  BY <1>2, <1>4, <1>5, <1>6, <1>7 DEF FaultsOK, Present
<1>11. QED
  BY <1>8, <1>9, <1>10 DEF LayoutOf

LEMMA MapsLayout ==
    ASSUME IInv, NEW p \in Procs, demand_page_maps(p)
    PROVE  LayoutOf(p)'
<1> DEFINE e == faulting[p]
<1>1. TypeOK /\ LayoutOf(p) /\ e # Unmapped /\ status[p] # "free"
  BY DEF IInv, Layout, demand_page_maps
<1>2. /\ e.page \in Pages
      /\ \E a \in AreasOf(p) : Covers(a, e.page) /\ e.prot = PageProt(a.prot)
  BY <1>1, FaultFacts DEF LayoutOf, FaultsOK
<1>3. /\ pte'[p][e.page] = [frame |-> e.frame, prot |-> e.prot]
      /\ \A u \in Pages : u # e.page => pte'[p][u] = pte[p][u]
      /\ faulting'[p] = Unmapped
  BY <1>1, <1>2 DEF demand_page_maps, TypeOK
<1>4. /\ status' = status /\ vma_list' = vma_list
      /\ is_handling_signal' = is_handling_signal /\ signal_stack' = signal_stack
  BY DEF demand_page_maps
<1> HIDE DEF e
<1>5. AreasOf(p)' = AreasOf(p)
  BY <1>4 DEF AreasOf
<1>6. AreasOK(p)'
  BY <1>1, <1>5 DEF LayoutOf, AreasOK
<1>7. PagesOK(p)'
  <2> SUFFICES ASSUME NEW u \in Pages, pte'[p][u] # Unmapped
               PROVE  IF u = SIGNAL_PAGE THEN is_handling_signal[p]
                      ELSE \A b \in AreasOf(p) :
                             Covers(b, u) => PageProt(b.prot) \ {"w"} \subseteq pte'[p][u].prot
    BY <1>4, <1>5 DEF PagesOK, Present
  <2>1. CASE u = e.page
    <3>1. pte'[p][u].prot = e.prot
      BY <1>3, <2>1
    <3>2. PICK a \in AreasOf(p) : Covers(a, u) /\ e.prot = PageProt(a.prot)
      BY <1>2, <2>1
    <3>3. u # SIGNAL_PAGE /\ HasArea(p, u)
      BY <1>1, <3>2 DEF LayoutOf, AreasOK, AreaOK, HasArea, AreasOf, Range
    <3>4. \A b \in AreasOf(p) : Covers(b, u) => b = a
      BY <3>2, <3>3, AreaAtFacts
    <3>5. QED BY <3>1, <3>2, <3>3, <3>4
  <2>2. CASE u # e.page
    <3>1. pte'[p][u] = pte[p][u] /\ Present(p, u)
      BY <1>3, <2>2 DEF Present
    <3>2. QED BY <1>1, <3>1 DEF LayoutOf, PagesOK
  <2>3. QED BY <2>1, <2>2
<1>8. HandlersOK(p)'
  <2> SUFFICES ASSUME status[p] = "live", is_handling_signal[p]
               PROVE  signal_stack[p] \in Frames
                      /\ pte'[p][SIGNAL_PAGE] = [frame |-> signal_stack[p], prot |-> HandlerProt]
    BY <1>4 DEF HandlersOK
  <2>1. /\ signal_stack[p] \in Frames
        /\ pte[p][SIGNAL_PAGE] = [frame |-> signal_stack[p], prot |-> HandlerProt]
    BY <1>1 DEF LayoutOf, HandlersOK
  <2>2. e.page # SIGNAL_PAGE
    BY <1>1, <1>2 DEF LayoutOf, AreasOK, AreaOK
  <2>3. QED BY <1>3, <2>1, <2>2, SignalPageIsPage
<1>9. FreeIsClean(p)' /\ FaultsOK(p)'
  BY <1>1, <1>3, <1>4 DEF FreeIsClean, FaultsOK
<1>10. QED
  BY <1>6, <1>7, <1>8, <1>9 DEF LayoutOf

LEMMA SignalLayout ==
    ASSUME IInv, NEW p \in Procs, signal_check(p)
    PROVE  LayoutOf(p)'
<1>1. PICK f \in Free :
         /\ signal_stack' = [signal_stack EXCEPT ![p] = f]
         /\ pte' = [pte EXCEPT ![p][SIGNAL_PAGE] = [frame |-> f, prot |-> HandlerProt]]
  BY DEF signal_check
<1>2. TypeOK /\ LayoutOf(p) /\ status[p] = "live" /\ faulting[p] = Unmapped
  BY DEF IInv, Layout, signal_check, Live
<1>3. /\ signal_stack'[p] = f /\ f \in Frames
      /\ pte'[p][SIGNAL_PAGE] = [frame |-> f, prot |-> HandlerProt]
      /\ \A u \in Pages : u # SIGNAL_PAGE => pte'[p][u] = pte[p][u]
  BY <1>1, <1>2, SignalPageIsPage DEF TypeOK, Free
<1>4. /\ status' = status /\ vma_list' = vma_list /\ faulting' = faulting
      /\ is_handling_signal'[p] = TRUE
  BY <1>2 DEF signal_check, TypeOK
<1>5. AreasOf(p)' = AreasOf(p)
  BY <1>4 DEF AreasOf
<1>6. AreasOK(p)'
  BY <1>2, <1>5 DEF LayoutOf, AreasOK
<1>7. PagesOK(p)'
  <2> SUFFICES ASSUME NEW u \in Pages, pte'[p][u] # Unmapped, u # SIGNAL_PAGE
               PROVE  \A b \in AreasOf(p) :
                         Covers(b, u) => PageProt(b.prot) \ {"w"} \subseteq pte'[p][u].prot
    BY <1>4, <1>5 DEF PagesOK, Present
  <2>1. pte'[p][u] = pte[p][u] /\ Present(p, u)
    BY <1>3 DEF Present
  <2>2. QED BY <1>2, <2>1 DEF LayoutOf, PagesOK
<1>8. FreeIsClean(p)' /\ HandlersOK(p)' /\ FaultsOK(p)'
  BY <1>2, <1>3, <1>4 DEF FreeIsClean, HandlersOK, FaultsOK
<1>9. QED
  BY <1>6, <1>7, <1>8 DEF LayoutOf

LEMMA SigreturnLayout ==
    ASSUME IInv, NEW p \in Procs, do_sigreturn(p)
    PROVE  LayoutOf(p)'
<1>1. TypeOK /\ LayoutOf(p) /\ status[p] = "live" /\ faulting[p] = Unmapped
  BY DEF IInv, Layout, do_sigreturn, Live
<1>2. /\ pte'[p][SIGNAL_PAGE] = Unmapped
      /\ \A u \in Pages : u # SIGNAL_PAGE => pte'[p][u] = pte[p][u]
      /\ status' = status /\ vma_list' = vma_list /\ faulting' = faulting
      /\ is_handling_signal'[p] = FALSE
  BY <1>1, SignalPageIsPage DEF do_sigreturn, unmap_page, TypeOK
<1>3. AreasOf(p)' = AreasOf(p)
  BY <1>2 DEF AreasOf
<1>4. AreasOK(p)'
  BY <1>1, <1>3 DEF LayoutOf, AreasOK
<1>5. PagesOK(p)'
  <2> SUFFICES ASSUME NEW u \in Pages, pte'[p][u] # Unmapped
               PROVE  /\ u # SIGNAL_PAGE
                      /\ \A b \in AreasOf(p) :
                           Covers(b, u) => PageProt(b.prot) \ {"w"} \subseteq pte'[p][u].prot
    BY <1>2, <1>3 DEF PagesOK, Present
  <2>1. pte'[p][u] = pte[p][u] /\ Present(p, u) /\ u # SIGNAL_PAGE
    BY <1>2 DEF Present
  <2>2. QED BY <1>1, <2>1 DEF LayoutOf, PagesOK
<1>6. FreeIsClean(p)' /\ HandlersOK(p)' /\ FaultsOK(p)'
  BY <1>1, <1>2 DEF FreeIsClean, HandlersOK, FaultsOK
<1>7. QED
  BY <1>4, <1>5, <1>6 DEF LayoutOf

LEMMA FreeLayout ==
    ASSUME IInv, NEW p \in Procs, free_user_space(p)
    PROVE  LayoutOf(p)'
<1>1. TypeOK /\ LayoutOf(p) /\ status[p] = "zombie"
  BY DEF IInv, Layout, free_user_space
<1>2. PICK v \in Pages : pte' = [pte EXCEPT ![p][v] = Unmapped]
  BY DEF free_user_space
<1>3. /\ pte'[p][v] = Unmapped /\ \A u \in Pages : u # v => pte'[p][u] = pte[p][u]
      /\ status' = status /\ vma_list' = vma_list /\ faulting' = faulting
      /\ is_handling_signal' = is_handling_signal
  BY <1>1, <1>2 DEF free_user_space, TypeOK
<1>4. faulting[p] = Unmapped
  BY <1>1 DEF LayoutOf, FaultsOK
<1>5. AreasOf(p)' = AreasOf(p)
  BY <1>3 DEF AreasOf
<1>6. AreasOK(p)'
  BY <1>1, <1>5 DEF LayoutOf, AreasOK
<1>7. PagesOK(p)'
  <2> SUFFICES ASSUME NEW u \in Pages, pte'[p][u] # Unmapped
               PROVE  IF u = SIGNAL_PAGE THEN is_handling_signal[p]
                      ELSE \A b \in AreasOf(p) :
                             Covers(b, u) => PageProt(b.prot) \ {"w"} \subseteq pte'[p][u].prot
    BY <1>3, <1>5 DEF PagesOK, Present
  <2>1. pte'[p][u] = pte[p][u] /\ Present(p, u)
    BY <1>3 DEF Present
  <2>2. QED BY <1>1, <2>1 DEF LayoutOf, PagesOK
<1>8. FreeIsClean(p)' /\ HandlersOK(p)' /\ FaultsOK(p)'
  BY <1>1, <1>3, <1>4 DEF FreeIsClean, HandlersOK, FaultsOK
<1>9. QED
  BY <1>6, <1>7, <1>8 DEF LayoutOf

LEMMA ReapedLayout ==
    ASSUME IInv, NEW p \in Procs, reaped(p)
    PROVE  LayoutOf(p)'
<1>1. TypeOK /\ \A v \in Pages : pte[p][v] = Unmapped
  BY DEF IInv, reaped, Present
<1>2. /\ status'[p] = "free" /\ vma_list'[p] = <<>> /\ pte' = pte
      /\ is_handling_signal'[p] = FALSE /\ faulting'[p] = Unmapped
  BY <1>1 DEF reaped, TypeOK
<1>3. AreasOf(p)' = {}
  BY <1>2 DEF AreasOf, Range
<1>4. AreasOK(p)'
  BY <1>3 DEF AreasOK
<1>5. FreeIsClean(p)' /\ PagesOK(p)' /\ HandlersOK(p)' /\ FaultsOK(p)'
  BY <1>1, <1>2 DEF FreeIsClean, PagesOK, HandlersOK, FaultsOK, Present
<1>6. QED
  BY <1>4, <1>5 DEF LayoutOf

\* A process that ends does so between its faults.
LEMMA EndLayout ==
    ASSUME Unruly = {}, ~AreasRunOut, IInv, NEW p \in Procs, thread_exit(p) \/ do_stop(p) \/ fault_kills(p)
    PROVE  LayoutOf(p)'
<1>1. TypeOK /\ LayoutOf(p) /\ status[p] \in {"live", "half_built"} /\ Ends(p)
  BY DEF IInv, Layout, thread_exit, do_stop, fault_kills, Fatal, Faults, Live, HalfBuilt
<1>1a. faulting[p] = Unmapped
  BY DEF thread_exit, do_stop, fault_kills, Fatal, Faults, Live, HalfBuilt, Rule
<1>2. /\ status'[p] = "zombie" /\ vma_list' = vma_list /\ pte' = pte
      /\ is_handling_signal' = is_handling_signal /\ faulting' = faulting
  BY <1>1 DEF Ends, TypeOK
<1>3. AreasOf(p)' = AreasOf(p)
  BY <1>2 DEF AreasOf
<1>4. AreasOK(p)'
  BY <1>1, <1>3 DEF LayoutOf, AreasOK
<1>5. FreeIsClean(p)' /\ PagesOK(p)' /\ HandlersOK(p)' /\ FaultsOK(p)'
  BY <1>1, <1>1a, <1>2, <1>3 DEF LayoutOf, FreeIsClean, PagesOK, HandlersOK, FaultsOK, Present
<1>6. QED
  BY <1>4, <1>5 DEF LayoutOf

LEMMA StoreSame ==
    ASSUME NEW p \in Procs, NEW v \in Pages, NEW d \in Data, store(p, v, d), NEW q \in Procs
    PROVE  Same(q)
BY DEF store, Same

\* The steps of one process.
LEMMA OthersSame ==
    ASSUME TypeOK, NEW p \in Procs, NEW q \in Procs, q # p,
           \/ user_program_execute(p) \/ do_exec(p) \/ thread_exit(p) \/ do_stop(p)
           \/ \E hint \in Hints, length \in Lengths, prot \in Prots :
                  do_mmap(p, hint, length, prot) \/ do_mmap_populate(p, hint, length, prot)
           \/ \E v \in Pages : copy_on_write(p, v)
           \/ \E v \in Pages, access \in Accesses : demand_page(p, v, access)
           \/ demand_page_maps(p) \/ fault_kills(p) \/ signal_check(p) \/ do_sigreturn(p)
           \/ free_user_space(p) \/ reaped(p)
    PROVE  Same(q)
<1>1. CASE user_program_execute(p) \/ do_exec(p) \/ thread_exit(p) \/ do_stop(p) \/ fault_kills(p)
  BY <1>1 DEF user_program_execute, do_exec, thread_exit, do_stop, fault_kills, Ends, Same, TypeOK
<1>2. CASE \E hint \in Hints, length \in Lengths, prot \in Prots :
              do_mmap(p, hint, length, prot) \/ do_mmap_populate(p, hint, length, prot)
  <2>1. PICK hint \in Hints, length \in Lengths, prot \in Prots :
               do_mmap(p, hint, length, prot) \/ do_mmap_populate(p, hint, length, prot)
    BY <1>2
  <2>2. UNCHANGED <<status, signal_stack, is_handling_signal, faulting>>
    BY <2>1 DEF do_mmap, do_mmap_populate
  <2>3. DOMAIN pte = Procs /\ DOMAIN vma_list = Procs
    BY DEF TypeOK
  <2>4. pte'[q] = pte[q]
    BY <2>1, <2>3 DEF do_mmap, do_mmap_populate
  <2>5. vma_list'[q] = vma_list[q]
    BY <2>1, <2>3 DEF do_mmap, do_mmap_populate
  <2>6. QED BY <2>2, <2>4, <2>5 DEF Same
<1>3. CASE \E v \in Pages : copy_on_write(p, v)
  <2>1. PICK v \in Pages : copy_on_write(p, v)
    BY <1>3
  <2>2. UNCHANGED <<status, vma_list, signal_stack, is_handling_signal, faulting>>
    BY <2>1 DEF copy_on_write
  <2>3. pte \in [Procs -> [Pages -> Entries]]
    BY DEF TypeOK
  <2>4. pte'[q] = pte[q]
    BY <2>1, <2>3 DEF copy_on_write
  <2>5. QED BY <2>2, <2>4 DEF Same
<1>4. CASE \E v \in Pages, access \in Accesses : demand_page(p, v, access)
  BY <1>4 DEF demand_page, Same, TypeOK
<1>5. CASE demand_page_maps(p) \/ signal_check(p) \/ do_sigreturn(p)
  BY <1>5 DEF demand_page_maps, signal_check, do_sigreturn, Same, TypeOK
<1>6. CASE free_user_space(p) \/ reaped(p)
  BY <1>6 DEF free_user_space, reaped, Same, TypeOK
<1>7. QED
  BY <1>1, <1>2, <1>3, <1>4, <1>5, <1>6

LEMMA NextLayout ==
    ASSUME Unruly = {}, ~AreasRunOut, IInv, [Next]_vars
    PROVE  Layout'
<1>1. TypeOK /\ \A q \in Procs : LayoutOf(q)
  BY DEF IInv, Layout
<1>2. CASE UNCHANGED vars
  <2>1. \A q \in Procs : Same(q)
    BY <1>2 DEF vars, Same
  <2>2. QED BY <1>1, <2>1, SameLayout DEF Layout
<1>3. ASSUME NEW p \in Procs, NEW c \in Procs, do_fork(p, c) PROVE Layout'
  BY <1>1, <1>3, ForkLayout, SameLayout DEF Layout
<1>4. ASSUME NEW p \in Procs, NEW v \in Pages, NEW d \in Data, store(p, v, d) PROVE Layout'
  BY <1>1, <1>4, StoreSame, SameLayout DEF Layout
<1>5. ASSUME NEW p \in Procs,
           \/ user_program_execute(p) \/ do_exec(p) \/ thread_exit(p) \/ do_stop(p)
           \/ \E hint \in Hints, length \in Lengths, prot \in Prots :
                  do_mmap(p, hint, length, prot) \/ do_mmap_populate(p, hint, length, prot)
           \/ \E v \in Pages : copy_on_write(p, v)
           \/ \E v \in Pages, access \in Accesses : demand_page(p, v, access)
           \/ demand_page_maps(p) \/ fault_kills(p) \/ signal_check(p) \/ do_sigreturn(p)
           \/ free_user_space(p) \/ reaped(p)
      PROVE  Layout'
  <2>1. LayoutOf(p)'
    BY <1>5, ExecuteLayout, ExecLayout, EndLayout, PopulateLayout, JustMmapLayout, CopyLayout,
       DemandLayout, MapsLayout, SignalLayout, SigreturnLayout, FreeLayout, ReapedLayout
  <2>2. \A q \in Procs : q # p => Same(q)
    BY <1>1, <1>5, OthersSame
  <2>3. QED BY <1>1, <2>1, <2>2, SameLayout DEF Layout
<1>6. QED
  BY <1>2, <1>3, <1>4, <1>5 DEF Next

-----------------------------------------------------------------------------
LEMMA InitIInv == Init => IInv
<1> SUFFICES ASSUME Init PROVE IInv
  OBVIOUS
<1>1. \A p \in Procs : vma_list[p] = <<>> /\ \A v \in Pages : pte[p][v] = Unmapped
  BY DEF Init
<1>2. TypeOK
  <2>1. <<>> \in Seq(AreaType)
    OBVIOUS
  <2>2. vma_list \in [Procs -> Seq(AreaType)]
    BY <2>1 DEF Init
  <2>3. pte \in [Procs -> [Pages -> Entries]]
    BY DEF Init, Entries
  <2>4. QED BY <2>2, <2>3 DEF Init, TypeOK, AreaType
<1>3. Counted
  <2> SUFFICES ASSUME NEW f \in Frames
               PROVE  /\ ref_count[f] \in Nat
                      /\ ref_count[f] >= MapCount(pte, f) + FaultCount(faulting, f)
    BY DEF Counted
  <2>1. \A e \in Procs \X Pages : pte[e[1]][e[2]].frame # f
    BY <1>1, MemoryAssumption DEF Unmapped
  <2>2. \A p \in Procs : faulting[p].frame # f
    BY MemoryAssumption DEF Init, Unmapped
  <2>3. Maps(pte, f) = {} /\ {p \in Procs : faulting[p].frame = f} = {}
    BY <2>1, <2>2 DEF Maps
  <2>4. MapCount(pte, f) = 0 /\ FaultCount(faulting, f) = 0
    BY <2>3, FS_EmptySet DEF MapCount, FaultCount
  <2>5. ref_count[f] = 0
    BY DEF Init
  <2>6. QED BY <2>4, <2>5
<1>4. Layout
  <2>1. \A p \in Procs : AreasOf(p) = {}
    BY <1>1 DEF AreasOf, Range
  <2>2. QED BY <1>1, <2>1 DEF Init, Layout, LayoutOf, FreeIsClean, AreasOK, PagesOK, HandlersOK,
                              FaultsOK, Present
<1>5. QED
  BY <1>2, <1>3, <1>4 DEF IInv

\* The invariant holds throughout, for every number of processes, frames and
\* pages and whatever is asked of mmap, as long as programs keep the rules.
THEOREM Invariance ==
    ASSUME Unruly = {}, ~AreasRunOut
    PROVE  Spec => []IInv
<1>1. Init => IInv
  BY InitIInv
<1>2. IInv /\ [Next]_vars => IInv'
  BY NextCounted, NextType, NextLayout DEF IInv
<1>3. QED
  BY <1>1, <1>2, PTL DEF Spec

\* No frame has fewer references than there are entries that map it and faults
\* about to, so put_page gives no frame back that somebody has; and a reference
\* is lost only where a half-built child maps a page over another.
THEOREM CountsAreRight ==
    ASSUME Unruly = {}, ~AreasRunOut
    PROVE  Spec => FramesAreCounted
<1>1. ASSUME IInv PROVE NoneTooFew
  <2> SUFFICES ASSUME NEW f \in Frames PROVE Lost(f) >= 0
    BY <1>1 DEF NoneTooFew, IInv
  <2>1. Users(f) = MapCount(pte, f) + FaultCount(faulting, f)
    BY DEF Users, MapCount, Maps, FaultCount
  <2>2. ref_count[f] \in Nat /\ ref_count[f] >= MapCount(pte, f) + FaultCount(faulting, f)
    BY <1>1 DEF IInv, Counted
  <2>3. MapCount(pte, f) \in Nat /\ FaultCount(faulting, f) \in Nat
    BY MapCountType, FaultCountType
  <2>4. QED BY <2>1, <2>2, <2>3 DEF Lost
<1>2. ASSUME IInv, Next PROVE LostToHalfBuilt
  <2> SUFFICES ASSUME NEW f \in Frames, Lost(f)' # Lost(f)
               PROVE  Lost(f)' = Lost(f) + 1 /\ MapsOver(f)
    BY DEF LostToHalfBuilt, MapsOver
  <2>1. /\ Lost(f) = ref_count[f] - (MapCount(pte, f) + FaultCount(faulting, f))
        /\ Lost(f)' = ref_count'[f] - (MapCount(pte', f) + FaultCount(faulting', f))
    BY DEF Lost, Users, MapCount, Maps, FaultCount
  <2>2. /\ MapCount(pte, f) \in Nat /\ FaultCount(faulting, f) \in Nat
        /\ MapCount(pte', f) \in Nat /\ FaultCount(faulting', f) \in Nat
    BY MapCountType, FaultCountType
  <2>3. ref_count[f] \in Nat
    BY <1>2 DEF IInv, TypeOK
  <2>4. ASSUME NEW d \in Nat, Balances(f, d) PROVE Lost(f)' = Lost(f) + d
    BY <2>1, <2>2, <2>3, <2>4 DEF Balances
  <2>5. ~Balances(f, 0)
    BY <2>1, <2>2, <2>3, <2>4 DEF Balances
  <2>6. Balances(f, 1) /\ MapsOver(f)
    BY <1>2, <2>5, NextBalances
  <2>7. QED BY <2>4, <2>6
<1>3. IInv /\ [Next]_vars => [LostToHalfBuilt]_vars
  BY <1>2
<1>4. QED
  BY <1>1, <1>3, Invariance, PTL DEF Spec, FramesAreCounted

-----------------------------------------------------------------------------
(* Faults that a process survives *)

\* No program asks for an area it may write and not read.
ProtsAreReadable == \A prot \in Prots : "w" \in prot => "r" \in prot

AreasAreReadable == \A p \in Procs : \A a \in AreasOf(p) : "w" \in a.prot => "r" \in a.prot

LEMMA NextReadable ==
    ASSUME Unruly = {}, ~AreasRunOut, ProtsAreReadable, IInv, AreasAreReadable, [Next]_vars
    PROVE  AreasAreReadable'
<1>1. TypeOK
  BY DEF IInv
<1>2. CASE vma_list' = vma_list
  BY <1>2 DEF AreasAreReadable, AreasOf
<1>3. ASSUME NEW p \in Procs, NEW program \in Programs,
             vma_list' = [vma_list EXCEPT ![p] = CodeAndStack(program)]
      PROVE  AreasAreReadable'
  <2>1. vma_list'[p] = CodeAndStack(program) /\ \A q \in Procs : q # p => vma_list'[q] = vma_list[q]
    BY <1>1, <1>3 DEF TypeOK
  <2>2. \A a \in Range(CodeAndStack(program)) : "w" \in a.prot => "r" \in a.prot
    BY NewAreaTypes DEF Area
  <2>3. QED BY <2>1, <2>2 DEF AreasAreReadable, AreasOf
<1>4. ASSUME NEW p \in Procs, NEW c \in Procs, do_fork(p, c) PROVE AreasAreReadable'
  <2>1. vma_list'[c] = vma_list[p] /\ \A q \in Procs : q # c => vma_list'[q] = vma_list[q]
    BY <1>1, <1>4, AreasGiven DEF TypeOK
  <2>2. QED BY <2>1 DEF AreasAreReadable, AreasOf
<1>5. ASSUME NEW p \in Procs, NEW hint \in Hints, NEW length \in Lengths, NEW prot \in Prots,
             do_mmap(p, hint, length, prot) \/ do_mmap_populate(p, hint, length, prot)
      PROVE  AreasAreReadable'
  <2> DEFINE a == Area(MmapStart(p, hint, length), MmapStart(p, hint, length) + length, prot, Nothing)
  <2>1. MmapStart(p, hint, length) + length <= SIGNAL_PAGE
    BY <1>5 DEF do_mmap, do_mmap_populate
  <2>2. CASE vma_list' = vma_list
    BY <1>2, <2>2
  <2> SUFFICES ASSUME vma_list' = [vma_list EXCEPT ![p] = <<a>> \o @]
               PROVE  AreasAreReadable'
    BY <1>5, <2>2, PopulateFacts DEF do_mmap
  <2>3. AreasOf(p)' = AreasOf(p) \cup {a}
    BY <2>1, MmapLayout
  <2>4. a.prot = prot
    BY DEF Area
  <2> HIDE DEF a
  <2>5. \A q \in Procs : q # p => AreasOf(q)' = AreasOf(q)
    BY <1>1 DEF TypeOK, AreasOf
  <2>6. QED BY <2>3, <2>4, <2>5 DEF AreasAreReadable, ProtsAreReadable
<1>6. ASSUME NEW p \in Procs, reaped(p) PROVE AreasAreReadable'
  <2>1. vma_list'[p] = <<>> /\ \A q \in Procs : q # p => vma_list'[q] = vma_list[q]
    BY <1>1, <1>6 DEF TypeOK, reaped
  <2>2. AreasOf(p)' = {} /\ \A q \in Procs : q # p => AreasOf(q)' = AreasOf(q)
    BY <2>1 DEF AreasOf, Range
  <2>3. QED BY <2>2 DEF AreasAreReadable
<1>7. ASSUME NEW p \in Procs, user_program_execute(p) \/ do_exec(p) PROVE AreasAreReadable'
  BY <1>3, <1>7, AreasGiven
<1>8. ASSUME NEW p \in Procs, thread_exit(p) \/ do_stop(p) \/ fault_kills(p)
      PROVE  vma_list' = vma_list
  BY <1>8 DEF thread_exit, do_stop, fault_kills, Ends
<1>9. ASSUME NEW p \in Procs, NEW v \in Pages,
             \/ copy_on_write(p, v)
             \/ \E d \in Data : store(p, v, d)
             \/ \E access \in Accesses : demand_page(p, v, access)
      PROVE  vma_list' = vma_list
  BY <1>9 DEF copy_on_write, store, demand_page
<1>10. ASSUME NEW p \in Procs,
              demand_page_maps(p) \/ signal_check(p) \/ do_sigreturn(p) \/ free_user_space(p)
       PROVE  vma_list' = vma_list
  BY <1>10 DEF demand_page_maps, signal_check, do_sigreturn, free_user_space
<1>11. CASE UNCHANGED vars
  BY <1>2, <1>11 DEF vars
<1>12. QED
  BY <1>2, <1>4, <1>5, <1>6, <1>7, <1>8, <1>9, <1>10, <1>11 DEF Next

\* No fault ends a process for an access that one of its areas allows, or for
\* one to the stack of the handler it is in, as long as nobody asks mmap for
\* memory to write and not to read.
THEOREM AllowedAreServed ==
    ASSUME Unruly = {}, ~AreasRunOut, ProtsAreReadable
    PROVE  Spec => []AllowedAccessesSucceed
<1>1. Init => AreasAreReadable
  <2>1. Init => \A p \in Procs : AreasOf(p) = {}
    BY DEF Init, AreasOf, Range
  <2>2. QED BY <2>1 DEF AreasAreReadable
<1>2. IInv /\ AreasAreReadable /\ [Next]_vars => AreasAreReadable'
  BY NextReadable
<1>3. IInv /\ AreasAreReadable => AllowedAccessesSucceed
  <2> SUFFICES ASSUME IInv, AreasAreReadable, NEW p \in Procs, NEW v \in Pages,
                      NEW access \in Accesses, Allowed(p, v, access), IsSegfault(p, v, access)
               PROVE  FALSE
    BY DEF AllowedAccessesSucceed
  <2>1. /\ status[p] = "live" /\ access \notin pte[p][v].prot
        /\ ~IsCow(p, v, access) /\ ~IsDemand(p, v, access)
    BY DEF IsSegfault, Faults, HalfBuilt, Live
  <2>2. CASE is_handling_signal[p] /\ v = SIGNAL_PAGE
    <3>1. pte[p][v] = [frame |-> signal_stack[p], prot |-> HandlerProt]
      BY <2>1, <2>2 DEF IInv, Layout, LayoutOf, HandlersOK
    <3>2. QED BY <2>1, <3>1 DEF HandlerProt, Accesses
  <2>3. CASE \E a \in AreasOf(p) : Covers(a, v) /\ access \in PageProt(a.prot)
    <3>1. PICK a \in AreasOf(p) : Covers(a, v) /\ access \in PageProt(a.prot)
      BY <2>3
    <3>2. access \in a.prot
      BY <3>1 DEF AreasAreReadable, PageProt
    <3>3. HasArea(p, v) /\ a = AreaAt(p, v)
      <4>1. HasArea(p, v)
        BY <3>1 DEF HasArea, AreasOf, Range
      <4>2. QED BY <3>1, <4>1, AreaAtFacts
    <3>4. QED BY <2>1, <3>2, <3>3 DEF IsDemand
  <2>4. QED BY <2>2, <2>3 DEF Allowed, AreasOf
<1>4. Spec => []IInv
  BY Invariance
<1>5. QED
  BY <1>1, <1>2, <1>3, <1>4, PTL DEF Spec

-----------------------------------------------------------------------------
(* Private memory *)

\* Nobody else has the frame of a page that is mapped for writing.
WritersAreAlone ==
    \A p, q \in Procs, v, u \in Pages :
        "w" \in pte[p][v].prot /\ pte[q][u].frame = pte[p][v].frame => q = p /\ u = v

\* Nobody has a frame that a fault is about to map, and it is filled.
PendingIsAlone(p) ==
    faulting[p] # Unmapped =>
        /\ \A q \in Procs, u \in Pages : pte[q][u].frame # faulting[p].frame
        /\ \A q \in Procs : q # p => faulting[q].frame # faulting[p].frame
        /\ \E a \in AreasOf(p) : /\ Covers(a, faulting[p].page)
                                 /\ content[faulting[p].frame] = Initially(a, faulting[p].page)
PendingAreAlone == \A p \in Procs : PendingIsAlone(p)

\* A living process has an area, and the tables of its pages.
StacksExist ==
    \A p \in Procs : status[p] = "live" => \E a \in AreasOf(p) : Covers(a, STACK_START)
TablesExist == \A p \in Procs, v \in Pages : Present(p, v) => TablesOf(v) \subseteq tables[p]

Private == WritersAreAlone /\ PendingAreAlone /\ StacksExist /\ TablesExist

\* One reference is one entry.
LEMMA OneReference ==
    ASSUME IInv, NEW p \in Procs, NEW v \in Pages, Present(p, v), ~IsShared(pte[p][v].frame)
    PROVE  \A q \in Procs, u \in Pages : pte[q][u].frame = pte[p][v].frame => q = p /\ u = v
<1> DEFINE f == pte[p][v].frame
<1>1. f \in Frames
  BY EntryFacts DEF IInv
<1>2. /\ ref_count[f] \in Nat /\ ref_count[f] <= 1
      /\ ref_count[f] >= MapCount(pte, f) + FaultCount(faulting, f)
      /\ MapCount(pte, f) \in Nat /\ FaultCount(faulting, f) \in Nat
  <2>1. ref_count[f] \in Nat /\ ref_count[f] >= MapCount(pte, f) + FaultCount(faulting, f)
    BY <1>1 DEF IInv, TypeOK, Counted
  <2>2. ref_count[f] <= 1
    BY <2>1 DEF IsShared
  <2> HIDE DEF f
  <2>3. QED BY <2>1, <2>2, MapCountType, FaultCountType
<1>3. <<p, v>> \in Maps(pte, f)
  BY DEF Maps
<1>4. IsFiniteSet(Maps(pte, f)) /\ Cardinality(Maps(pte, f)) = MapCount(pte, f)
  BY MapCountType DEF MapCount
<1>5. MapCount(pte, f) # 0
  BY <1>3, <1>4, FS_EmptySet
<1>6. Cardinality(Maps(pte, f)) = 1
  BY <1>2, <1>4, <1>5
<1>7. PICK e : Maps(pte, f) = {e}
  BY <1>4, <1>6, FS_Singleton
<1>8. \A q \in Procs, u \in Pages : pte[q][u].frame = f => <<q, u>> = <<p, v>>
  <2> SUFFICES ASSUME NEW q \in Procs, NEW u \in Pages, pte[q][u].frame = f
               PROVE  <<q, u>> = <<p, v>>
    OBVIOUS
  <2>1. <<q, u>> \in Maps(pte, f)
    BY DEF Maps
  <2>2. QED BY <1>3, <1>7, <2>1
<1>9. QED
  BY <1>8

\* A writable entry names a frame.
LEMMA WriterHasFrame ==
    ASSUME TypeOK, NEW p \in Procs, NEW v \in Pages, "w" \in pte[p][v].prot
    PROVE  Present(p, v) /\ pte[p][v].frame \in Frames
BY EntryFacts

\* Entries that go away, or lose rights, disturb no writer.
LEMMA WritersKept ==
    ASSUME IInv, WritersAreAlone,
           \A q \in Procs, u \in Pages :
               \/ pte'[q][u] = pte[q][u]
               \/ pte'[q][u] = Unmapped
    PROVE  WritersAreAlone'
<1> SUFFICES ASSUME NEW p \in Procs, NEW q \in Procs, NEW v \in Pages, NEW u \in Pages,
                    "w" \in pte'[p][v].prot, pte'[q][u].frame = pte'[p][v].frame
             PROVE  q = p /\ u = v
  BY DEF WritersAreAlone
<1>1. pte'[p][v] = pte[p][v]
  BY DEF Unmapped
<1>2. pte[p][v].frame \in Frames
  BY <1>1, WriterHasFrame DEF IInv
<1>3. pte'[q][u] = pte[q][u]
  BY <1>1, <1>2, MemoryAssumption DEF Unmapped
<1>4. QED
  BY <1>1, <1>3 DEF WritersAreAlone

\* An entry for a frame that nobody maps disturbs none either.
LEMMA WriterJoins ==
    ASSUME IInv, WritersAreAlone, NEW p \in Procs, NEW v \in Pages, NEW f \in Frames,
           \A q \in Procs, u \in Pages : pte[q][u].frame # f,
           pte'[p][v].frame = f,
           \A q \in Procs, u \in Pages : ~(q = p /\ u = v) => pte'[q][u] = pte[q][u]
    PROVE  WritersAreAlone'
<1> SUFFICES ASSUME NEW x \in Procs, NEW q \in Procs, NEW y \in Pages, NEW u \in Pages,
                    "w" \in pte'[x][y].prot, pte'[q][u].frame = pte'[x][y].frame
             PROVE  q = x /\ u = y
  BY DEF WritersAreAlone
<1>1. CASE x = p /\ y = v
  BY <1>1
<1>2. CASE ~(x = p /\ y = v)
  <2>1. pte'[x][y] = pte[x][y] /\ pte[x][y].frame # f
    BY <1>2
  <2>2. pte'[q][u] = pte[q][u]
    BY <2>1
  <2>3. QED BY <2>1, <2>2 DEF WritersAreAlone
<1>3. QED
  BY <1>1, <1>2

LEMMA ForkWriters ==
    ASSUME Unruly = {}, ~AreasRunOut, IInv, WritersAreAlone, NEW p \in Procs, NEW c \in Procs, do_fork(p, c)
    PROVE  /\ WritersAreAlone'
           /\ \A q \in Procs, u \in Pages : \/ pte'[q][u].frame = pte[q][u].frame
                                            \/ pte'[q][u].frame = pte[p][u].frame
<1>1. PICK copied \in {tables[p]} \cup
             (IF TablesRunOut THEN {{s \in tables[p] : Before(s, t)} : t \in tables[p]} ELSE {}) :
        LET shared == {v \in Pages : Present(p, v) /\ TablesOf(v) \subseteq copied}
        IN /\ pte' = [pte EXCEPT
                ![p] = [v \in Pages |-> IF v \in shared THEN WriteProtected(@[v]) ELSE @[v]],
                ![c] = [v \in Pages |-> IF v \in shared THEN WriteProtected(pte[p][v]) ELSE @[v]]]
           /\ ref_count' = [f \in Frames |->
                ref_count[f] + Cardinality({v \in shared : pte[p][v].frame = f})]
           /\ status' = [status EXCEPT ![c] = IF copied = tables[p] THEN "live" ELSE "half_built"]
  BY DEF do_fork
<1> DEFINE shared == {v \in Pages : Present(p, v) /\ TablesOf(v) \subseteq copied}
<1>2. TypeOK /\ LayoutOf(c) /\ p # c /\ status[c] = "free"
  BY DEF IInv, Layout, do_fork, Live
<1>3. /\ pte'[p] = [v \in Pages |-> IF v \in shared THEN WriteProtected(pte[p][v]) ELSE pte[p][v]]
      /\ pte'[c] = [v \in Pages |-> IF v \in shared THEN WriteProtected(pte[p][v]) ELSE pte[c][v]]
      /\ \A q \in Procs \ {p, c} : pte'[q] = pte[q]
  BY <1>1, <1>2 DEF TypeOK
<1>4. \A v \in Pages : pte[c][v] = Unmapped
  BY <1>2 DEF LayoutOf, FreeIsClean, Present
<1>5. \A v \in shared : /\ v \in Pages /\ WriteProtected(pte[p][v]).frame = pte[p][v].frame
                        /\ "w" \notin WriteProtected(pte[p][v]).prot
  <2>1. \A v \in shared : v \in Pages /\ Present(p, v)
    OBVIOUS
  <2>2. \A v \in shared : pte[p][v] \in [frame : Frames, prot : SUBSET Accesses]
    BY <1>2, <2>1, EntryFacts
  <2>3. QED BY <2>1, <2>2 DEF WriteProtected
<1> HIDE DEF shared
\* A writable entry is an old one, and not shared.
<1>6. \A q \in Procs, u \in Pages : "w" \in pte'[q][u].prot =>
         pte'[q][u] = pte[q][u] /\ ~(q = p /\ u \in shared)
  BY <1>3, <1>4, <1>5 DEF Unmapped
<1>7. \A q \in Procs, u \in Pages :
         \/ pte'[q][u].frame = pte[q][u].frame
         \/ q = c /\ u \in shared /\ pte'[q][u].frame = pte[p][u].frame
  BY <1>3, <1>5
<1>8. WritersAreAlone'
  <2> SUFFICES ASSUME NEW x \in Procs, NEW q \in Procs, NEW y \in Pages, NEW u \in Pages,
                      "w" \in pte'[x][y].prot, pte'[q][u].frame = pte'[x][y].frame
               PROVE  q = x /\ u = y
    BY DEF WritersAreAlone
  <2>1. pte'[x][y] = pte[x][y] /\ ~(x = p /\ y \in shared)
    BY <1>6
  <2>2. CASE pte'[q][u].frame = pte[q][u].frame
    BY <2>1, <2>2 DEF WritersAreAlone
  <2>3. CASE u \in shared /\ pte'[q][u].frame = pte[p][u].frame
    BY <2>1, <2>3 DEF WritersAreAlone
  <2>4. QED BY <1>7, <2>2, <2>3
<1>9. QED
  BY <1>7, <1>8

LEMMA PopulateWriters ==
    ASSUME Unruly = {}, ~AreasRunOut, IInv, WritersAreAlone, NEW p \in Procs, NEW hint \in Hints,
           NEW length \in Lengths, NEW prot \in Prots, do_mmap_populate(p, hint, length, prot)
    PROVE  /\ WritersAreAlone'
           /\ \A q \in Procs, u \in Pages : \/ pte'[q][u].frame = pte[q][u].frame
                                            \/ pte'[q][u].frame \in Free
<1> DEFINE new == Populated(p, hint, length)
<1>1. PICK frame \in Injection(new, Free) :
        pte' = [pte EXCEPT ![p] = [v \in Pages |->
                  IF v \in new THEN [frame |-> frame[v], prot |-> PageProt(prot)] ELSE @[v]]]
  BY DEF do_mmap_populate, Populated
<1> HIDE DEF new
<1>2. frame \in [new -> Free] /\ \A u, v \in new : frame[u] = frame[v] => u = v
  BY <1>1 DEF Injection, IsInjective
<1>3. \A q \in Procs, u \in Pages :
         IF q = p /\ u \in new THEN pte'[q][u].frame = frame[u] /\ frame[u] \in Free
                               ELSE pte'[q][u] = pte[q][u]
  BY <1>1, <1>2 DEF IInv, TypeOK
<1>4. \A q \in Procs, u \in Pages : pte[q][u].frame \notin Free
  BY FreeIsUnused
<1>5. WritersAreAlone'
  <2> SUFFICES ASSUME NEW x \in Procs, NEW q \in Procs, NEW y \in Pages, NEW u \in Pages,
                      "w" \in pte'[x][y].prot, pte'[q][u].frame = pte'[x][y].frame
               PROVE  q = x /\ u = y
    BY DEF WritersAreAlone
  <2>1. CASE x = p /\ y \in new
    BY <1>2, <1>3, <1>4, <2>1
  <2>2. CASE ~(x = p /\ y \in new)
    <3>1. pte'[x][y] = pte[x][y] /\ pte'[q][u] = pte[q][u]
      BY <1>3, <1>4, <2>2
    <3>2. QED BY <3>1 DEF WritersAreAlone
  <2>3. QED BY <2>1, <2>2
<1>6. QED
  BY <1>3, <1>5

LEMMA CopyWriters ==
    ASSUME IInv, WritersAreAlone, NEW p \in Procs, NEW v \in Pages, copy_on_write(p, v)
    PROVE  /\ WritersAreAlone'
           /\ \A q \in Procs, u \in Pages : \/ pte'[q][u].frame = pte[q][u].frame
                                            \/ pte'[q][u].frame \in Free
<1>1. Present(p, v) /\ pte \in [Procs -> [Pages -> Entries]]
  BY DEF copy_on_write, IsCow, IInv, TypeOK
<1>2. pte[p][v] \in [frame : Frames, prot : SUBSET Accesses]
  BY <1>1, EntryFacts DEF IInv
<1>3. CASE IsShared(pte[p][v].frame)
  <2>1. PICK new \in Free :
           pte' = [pte EXCEPT ![p][v] = [frame |-> new, prot |-> @.prot \cup {"w"}]]
    BY <1>3 DEF copy_on_write
  <2>2. /\ pte'[p][v].frame = new
        /\ \A q \in Procs, u \in Pages : ~(q = p /\ u = v) => pte'[q][u] = pte[q][u]
    BY <1>1, <2>1
  <2>3. new \in Frames /\ \A q \in Procs, u \in Pages : pte[q][u].frame # new
    BY FreeIsUnused
  <2>4. WritersAreAlone'
    BY <2>2, <2>3, WriterJoins
  <2>5. QED BY <2>2, <2>4
<1>4. CASE ~IsShared(pte[p][v].frame)
  <2>1. pte' = [pte EXCEPT ![p][v].prot = @ \cup {"w"}]
    BY <1>4 DEF copy_on_write
  <2>2. /\ pte'[p][v].frame = pte[p][v].frame
        /\ \A q \in Procs, u \in Pages : ~(q = p /\ u = v) => pte'[q][u] = pte[q][u]
    BY <1>1, <1>2, <2>1
  <2>3. \A q \in Procs, u \in Pages : pte[q][u].frame = pte[p][v].frame => q = p /\ u = v
    BY <1>1, <1>4, OneReference
  <2>4. WritersAreAlone'
    <3> SUFFICES ASSUME NEW x \in Procs, NEW q \in Procs, NEW y \in Pages, NEW u \in Pages,
                        "w" \in pte'[x][y].prot, pte'[q][u].frame = pte'[x][y].frame
                 PROVE  q = x /\ u = y
      BY DEF WritersAreAlone
    <3>1. pte[q][u].frame = pte[x][y].frame
      BY <2>2
    <3>2. CASE x = p /\ y = v
      BY <2>3, <3>1, <3>2
    <3>3. CASE ~(x = p /\ y = v)
      BY <2>2, <3>1, <3>3 DEF WritersAreAlone
    <3>4. QED BY <3>2, <3>3
  <2>5. QED BY <2>2, <2>4
<1>5. QED
  BY <1>3, <1>4

LEMMA SignalWriters ==
    ASSUME IInv, WritersAreAlone, NEW p \in Procs, signal_check(p)
    PROVE  /\ WritersAreAlone'
           /\ \A q \in Procs, u \in Pages : \/ pte'[q][u].frame = pte[q][u].frame
                                            \/ pte'[q][u].frame \in Free
<1>1. PICK f \in Free :
         pte' = [pte EXCEPT ![p][SIGNAL_PAGE] = [frame |-> f, prot |-> HandlerProt]]
  BY DEF signal_check
<1>2. f \in Frames /\ \A q \in Procs, u \in Pages : pte[q][u].frame # f
  BY FreeIsUnused
<1>3. /\ pte'[p][SIGNAL_PAGE].frame = f
      /\ \A q \in Procs, u \in Pages : ~(q = p /\ u = SIGNAL_PAGE) => pte'[q][u] = pte[q][u]
  BY <1>1, SignalPageIsPage DEF IInv, TypeOK
<1>4. WritersAreAlone'
  BY <1>2, <1>3, SignalPageIsPage, WriterJoins
<1>5. QED
  BY <1>3, <1>4

LEMMA MapsWriters ==
    ASSUME IInv, Private, NEW p \in Procs, demand_page_maps(p)
    PROVE  /\ WritersAreAlone'
           /\ \A q \in Procs, u \in Pages : \/ pte'[q][u].frame = pte[q][u].frame
                                            \/ pte'[q][u].frame = faulting[p].frame
<1> DEFINE e == faulting[p]
<1>1. /\ e.page \in Pages /\ e.frame \in Frames
      /\ \A q \in Procs, u \in Pages : pte[q][u].frame # e.frame
  BY FaultFacts DEF IInv, Private, PendingAreAlone, PendingIsAlone, demand_page_maps
<1>2. /\ pte'[p][e.page].frame = e.frame
      /\ \A q \in Procs, u \in Pages : ~(q = p /\ u = e.page) => pte'[q][u] = pte[q][u]
  BY <1>1 DEF demand_page_maps, IInv, TypeOK
<1> HIDE DEF e
<1>3. WritersAreAlone'
  BY <1>1, <1>2, WriterJoins DEF Private
<1>4. QED
  BY <1>2, <1>3 DEF e

\* The steps that map nothing, or unmap.
Unmaps(p) ==
    \/ user_program_execute(p) \/ do_exec(p) \/ thread_exit(p) \/ do_stop(p) \/ fault_kills(p)
    \/ \E hint \in Hints, length \in Lengths, prot \in Prots : do_mmap(p, hint, length, prot)
    \/ \E v \in Pages, d \in Data : store(p, v, d)
    \/ \E v \in Pages, access \in Accesses : demand_page(p, v, access)
    \/ do_sigreturn(p) \/ free_user_space(p) \/ reaped(p)

LEMMA UnmapsWriters ==
    ASSUME IInv, WritersAreAlone, NEW p \in Procs, Unmaps(p)
    PROVE  /\ WritersAreAlone'
           /\ \A q \in Procs, u \in Pages : \/ pte'[q][u].frame = pte[q][u].frame
                                            \/ pte'[q][u].frame = NoFrame
<1>1. pte \in [Procs -> [Pages -> Entries]]
  BY DEF IInv, TypeOK
<1>2. \A q \in Procs, u \in Pages : pte'[q][u] = pte[q][u] \/ pte'[q][u] = Unmapped
  <2>1. CASE do_exec(p)
    BY <1>1, <2>1 DEF do_exec
  <2>2. CASE do_sigreturn(p)
    BY <1>1, <2>2 DEF do_sigreturn, unmap_page
  <2>3. CASE free_user_space(p)
    BY <1>1, <2>3 DEF free_user_space
  <2>4. CASE ~(do_exec(p) \/ do_sigreturn(p) \/ free_user_space(p))
    <3>1. pte' = pte
      BY <2>4 DEF Unmaps, user_program_execute, thread_exit, do_stop, fault_kills, Ends, do_mmap, store,
                  demand_page, reaped
    <3>2. QED BY <3>1
  <2>5. QED BY <2>1, <2>2, <2>3, <2>4
<1>3. WritersAreAlone'
  BY <1>2, WritersKept
<1>4. QED
  BY <1>2, <1>3 DEF Unmapped

-----------------------------------------------------------------------------
(* Pages that faults are about to map *)

\* A process that waits to map a page takes no other step, and no rule lets
\* another end it.
LEMMA PendingWaits ==
    ASSUME Unruly = {}, ~AreasRunOut, IInv, NEW p \in Procs, faulting[p] # Unmapped
    PROVE  /\ ~user_program_execute(p) /\ ~do_exec(p) /\ ~thread_exit(p) /\ ~do_stop(p)
           /\ \A c \in Procs : ~do_fork(p, c) /\ ~do_fork(c, p)
           /\ \A hint, length, prot : ~do_mmap(p, hint, length, prot)
                                      /\ ~do_mmap_populate(p, hint, length, prot)
           /\ \A v \in Pages : ~copy_on_write(p, v) /\ \A d : ~store(p, v, d)
           /\ \A v \in Pages : \A access : ~demand_page(p, v, access)
           /\ ~fault_kills(p) /\ ~signal_check(p) /\ ~do_sigreturn(p)
           /\ ~free_user_space(p) /\ ~reaped(p)
<1>1. status[p] \in {"live", "half_built"} /\ ~Live(p) /\ ~HalfBuilt(p)
  BY DEF IInv, Layout, LayoutOf, FaultsOK, Live, HalfBuilt
<1>2. QED
  BY <1>1 DEF user_program_execute, do_exec, thread_exit, do_stop, do_fork, do_mmap,
     do_mmap_populate, copy_on_write, Faults, store, demand_page, fault_kills, Fatal, signal_check,
     do_sigreturn, free_user_space, reaped, Rule

\* The frame of such a fault has been given out, and nobody writes to it.
LEMMA PendingFrame ==
    ASSUME IInv, Private, NEW p \in Procs, faulting[p] # Unmapped
    PROVE  /\ faulting[p].frame \in Frames /\ faulting[p].frame # NoFrame
           /\ faulting[p].frame \notin Free
           /\ \A q \in Procs, u \in Pages : pte[q][u].frame # faulting[p].frame
<1>1. faulting[p].frame \in Frames
  BY FaultFacts DEF IInv
<1>2. faulting[p].frame \notin Free
  BY FreeIsUnused
<1>3. QED
  BY <1>1, <1>2, MemoryAssumption DEF Private, PendingAreAlone, PendingIsAlone

\* What becomes of the contents of frames.
LEMMA ContentsChange ==
    ASSUME IInv, NEW f \in Frames, f \notin Free, NEW p \in Procs,
           content'[f] # content[f],
           \/ Unmaps(p) \/ \E c \in Procs : do_fork(p, c)
           \/ \E hint \in Hints, length \in Lengths, prot \in Prots :
                  do_mmap_populate(p, hint, length, prot)
           \/ \E v \in Pages : copy_on_write(p, v)
           \/ demand_page_maps(p) \/ signal_check(p)
    PROVE  \E v \in Pages, d \in Data : store(p, v, d) /\ "w" \in pte[p][v].prot /\ pte[p][v].frame = f
<1>1. content \in [Frames -> Contents]
  BY DEF IInv, TypeOK, Contents
<1>2. CASE \E c \in Procs : do_fork(p, c)
  BY <1>2 DEF do_fork
<1>3. CASE \E hint \in Hints, length \in Lengths, prot \in Prots :
              do_mmap_populate(p, hint, length, prot)
  <2>1. PICK hint \in Hints, length \in Lengths, prot \in Prots :
               do_mmap_populate(p, hint, length, prot)
    BY <1>3
  <2> DEFINE new == Populated(p, hint, length)
  <2>2. PICK frame \in Injection(new, Free) :
               content' = [g \in Frames |-> IF g \in Range(frame) THEN Zero ELSE content[g]]
    BY <2>1 DEF do_mmap_populate, Populated
  <2>3. Range(frame) \subseteq Free
    BY <2>2 DEF Injection, Range
  <2>4. QED BY <2>2, <2>3
<1>4. CASE \E v \in Pages : copy_on_write(p, v)
  <2>1. PICK v \in Pages : copy_on_write(p, v)
    BY <1>4
  <2>2. CASE IsShared(pte[p][v].frame)
    BY <1>1, <2>1, <2>2 DEF copy_on_write
  <2>3. CASE ~IsShared(pte[p][v].frame)
    BY <2>1, <2>3 DEF copy_on_write
  <2>4. QED BY <2>2, <2>3
<1>5. CASE demand_page_maps(p) \/ signal_check(p)
  BY <1>1, <1>5 DEF demand_page_maps, signal_check
<1>6. CASE \E v \in Pages, access \in Accesses : demand_page(p, v, access)
  BY <1>1, <1>6 DEF demand_page
<1>7. CASE \E v \in Pages, d \in Data : store(p, v, d)
  BY <1>1, <1>7 DEF store
<1>8. CASE /\ Unmaps(p) /\ ~(\E v \in Pages, d \in Data : store(p, v, d))
           /\ ~(\E v \in Pages, access \in Accesses : demand_page(p, v, access))
  BY <1>8 DEF Unmaps, user_program_execute, do_exec, thread_exit, do_stop, fault_kills, Ends, do_mmap,
     do_sigreturn, free_user_space, reaped
<1>9. QED
  BY <1>2, <1>3, <1>4, <1>5, <1>6, <1>7, <1>8

\* A fault that still waits keeps its frame to itself.
LEMMA PendingKept ==
    ASSUME IInv, Private, NEW p \in Procs, faulting[p] # Unmapped, Same(p),
           content'[faulting[p].frame] = content[faulting[p].frame],
           \A q \in Procs, u \in Pages : pte'[q][u].frame # faulting[p].frame,
           \A q \in Procs : q # p => faulting'[q].frame # faulting[p].frame
    PROVE  PendingIsAlone(p)'
BY DEF Private, PendingAreAlone, PendingIsAlone, Same, AreasOf

\* Every step is some process's.
Steps(p) ==
    \/ Unmaps(p) \/ \E c \in Procs : do_fork(p, c)
    \/ \E hint \in Hints, length \in Lengths, prot \in Prots : do_mmap_populate(p, hint, length, prot)
    \/ \E v \in Pages : copy_on_write(p, v)
    \/ demand_page_maps(p) \/ signal_check(p)

LEMMA NextIsSteps == Next => \E p \in Procs : Steps(p)
BY DEF Next, Steps, Unmaps

\* A step that is no fork concerns one process.
LEMMA StepsSame ==
    ASSUME TypeOK, NEW p \in Procs, Steps(p), ~(\E c \in Procs : do_fork(p, c)),
           NEW q \in Procs, q # p
    PROVE  Same(q)
<1>1. CASE \E v \in Pages, d \in Data : store(p, v, d)
  BY <1>1, StoreSame
<1>2. CASE ~(\E v \in Pages, d \in Data : store(p, v, d))
  BY <1>2, OthersSame DEF Steps, Unmaps
<1>3. QED
  BY <1>1, <1>2

LEMMA FaultsChange ==
    ASSUME IInv, NEW p \in Procs, Steps(p), NEW q \in Procs
    PROVE  \/ faulting'[q] = faulting[q] \/ faulting'[q] = Unmapped
           \/ \E v \in Pages, access \in Accesses : q = p /\ demand_page(p, v, access)
<1>1. faulting \in [Procs -> [page : Pages, frame : Frames, prot : SUBSET Accesses] \cup {Unmapped}]
  BY DEF IInv, TypeOK
<1>2. CASE \E v \in Pages, access \in Accesses : demand_page(p, v, access)
  BY <1>1, <1>2 DEF demand_page
<1>3. CASE demand_page_maps(p) \/ reaped(p)
  BY <1>1, <1>3 DEF demand_page_maps, reaped
<1>4. CASE /\ ~(\E v \in Pages, access \in Accesses : demand_page(p, v, access))
           /\ ~demand_page_maps(p) /\ ~reaped(p)
  BY <1>4 DEF Steps, Unmaps, user_program_execute, do_exec, thread_exit, do_stop, fault_kills, Ends,
     do_mmap, store, do_sigreturn, free_user_space, do_fork, do_mmap_populate, copy_on_write,
     signal_check
<1>5. QED
  BY <1>2, <1>3, <1>4

LEMMA NextPending ==
    ASSUME Unruly = {}, ~AreasRunOut, IInv, Private, NEW p0 \in Procs, Steps(p0)
    PROVE  PendingAreAlone'
<1> SUFFICES ASSUME NEW p \in Procs, faulting'[p] # Unmapped PROVE PendingIsAlone(p)'
  BY DEF PendingAreAlone, PendingIsAlone
<1>1. CASE faulting[p] # Unmapped
  <2>1. p # p0
    <3>1. ~demand_page_maps(p)
      BY DEF demand_page_maps, IInv, TypeOK
    <3>2. QED BY <1>1, <3>1, PendingWaits DEF Steps, Unmaps
  <2>2. Same(p)
    <3>1. CASE \E c \in Procs : do_fork(p0, c)
      <4>1. PICK c \in Procs : do_fork(p0, c)
        BY <3>1
      <4>2. p # c
        BY <1>1, <4>1, PendingWaits
      <4>3. QED BY <2>1, <4>1, <4>2, ForkLayout
    <3>2. CASE ~(\E c \in Procs : do_fork(p0, c))
      BY <2>1, <3>2, StepsSame DEF IInv
    <3>3. QED BY <3>1, <3>2
  <2> DEFINE f == faulting[p].frame
  <2>3. /\ f \in Frames /\ f # NoFrame /\ f \notin Free
        /\ \A q \in Procs, u \in Pages : pte[q][u].frame # f
        /\ \A q \in Procs : q # p => faulting[q].frame # f
    BY <1>1, PendingFrame DEF Private, PendingAreAlone, PendingIsAlone
  <2>4. content'[f] = content[f]
    BY <2>3, ContentsChange DEF Steps
  <2>5. \A q \in Procs, u \in Pages : pte'[q][u].frame # f
    <3>1. CASE Unmaps(p0)
      BY <2>3, <3>1, UnmapsWriters DEF Private
    <3>2. CASE \E c \in Procs : do_fork(p0, c)
      BY <2>3, <3>2, ForkWriters DEF Private
    <3>3. CASE \E hint \in Hints, length \in Lengths, prot \in Prots :
                  do_mmap_populate(p0, hint, length, prot)
      BY <2>3, <3>3, PopulateWriters DEF Private
    <3>4. CASE \E v \in Pages : copy_on_write(p0, v)
      BY <2>3, <3>4, CopyWriters DEF Private
    <3>5. CASE demand_page_maps(p0)
      BY <2>1, <2>3, <3>5, MapsWriters
    <3>6. CASE signal_check(p0)
      BY <2>3, <3>6, SignalWriters DEF Private
    <3>7. QED BY <3>1, <3>2, <3>3, <3>4, <3>5, <3>6 DEF Steps
  <2>6. \A q \in Procs : q # p => faulting'[q].frame # f
    <3> SUFFICES ASSUME NEW q \in Procs, q # p PROVE faulting'[q].frame # f
      OBVIOUS
    <3>1. CASE faulting'[q] = faulting[q] \/ faulting'[q] = Unmapped
      BY <2>3, <3>1 DEF Unmapped
    <3>2. CASE \E v \in Pages, access \in Accesses : demand_page(q, v, access)
      <4>1. PICK g \in Free, v \in Pages, access \in Accesses : faulting' = [faulting EXCEPT ![q] =
                [page |-> v, frame |-> g, prot |-> PageProt(AreaAt(q, v).prot)]]
        BY <3>2 DEF demand_page
      <4>2. faulting'[q].frame = g
        BY <4>1 DEF IInv, TypeOK
      <4>3. QED BY <2>3, <4>2
    <3>3. QED BY <3>1, <3>2, FaultsChange
  <2> HIDE DEF f
  <2>7. QED BY <1>1, <2>2, <2>4, <2>5, <2>6, PendingKept DEF f
<1>2. CASE faulting[p] = Unmapped
  <2>1. PICK v \in Pages, access \in Accesses : demand_page(p, v, access)
    BY <1>2, FaultsChange
  <2> DEFINE a == AreaAt(p, v)
  <2>2. PICK f \in Free :
          /\ content' = [content EXCEPT ![f] = Initially(a, v)]
          /\ faulting' = [faulting EXCEPT ![p] =
                 [page |-> v, frame |-> f, prot |-> PageProt(a.prot)]]
    BY <2>1 DEF demand_page
  <2>3. a \in AreasOf(p) /\ Covers(a, v)
    BY <2>1, AreaAtFacts DEF demand_page, IsDemand
  <2> HIDE DEF a
  <2>4. /\ faulting'[p].frame = f /\ faulting'[p].page = v
        /\ \A q \in Procs : q # p => faulting'[q] = faulting[q]
        /\ content'[f] = Initially(a, v)
    BY <2>2 DEF IInv, TypeOK, Free
  <2>5. pte' = pte /\ AreasOf(p)' = AreasOf(p)
    BY <2>1 DEF demand_page, AreasOf
  <2>6. /\ \A q \in Procs, u \in Pages : pte[q][u].frame # f
        /\ \A q \in Procs : faulting[q].frame # f
    BY FreeIsUnused
  <2>7. QED BY <2>3, <2>4, <2>5, <2>6 DEF PendingIsAlone
<1>3. QED
  BY <1>1, <1>2

LEMMA NextWriters ==
    ASSUME Unruly = {}, ~AreasRunOut, IInv, Private, NEW p \in Procs, Steps(p)
    PROVE  WritersAreAlone'
BY UnmapsWriters, ForkWriters, PopulateWriters, CopyWriters, MapsWriters, SignalWriters
   DEF Steps, Private

LEMMA NextStacks ==
    ASSUME Unruly = {}, ~AreasRunOut, IInv, Private, NEW p \in Procs, Steps(p)
    PROVE  StacksExist'
<1>1. TypeOK /\ StacksExist
  BY DEF IInv, Private
<1>2. CASE \E c \in Procs : do_fork(p, c)
  <2>1. PICK c \in Procs : do_fork(p, c)
    BY <1>2
  <2>2. vma_list'[c] = vma_list[p] /\ \A q \in Procs : q # c => vma_list'[q] = vma_list[q]
    BY <1>1, <2>1, AreasGiven DEF TypeOK
  <2>3. status[p] = "live" /\ \A q \in Procs : q # c => status'[q] = status[q]
    BY <1>1, <2>1 DEF TypeOK, do_fork, Live
  <2>4. QED BY <1>1, <2>2, <2>3 DEF StacksExist, AreasOf
<1>3. CASE ~(\E c \in Procs : do_fork(p, c))
  <2>1. \A q \in Procs : q # p => Same(q)
    BY <1>1, <1>3, StepsSame
  <2>2. status'[p] = "live" => \E a \in AreasOf(p)' : Covers(a, STACK_START)
    <3>1. CASE user_program_execute(p) \/ do_exec(p)
      <4>1. PICK program \in Programs : vma_list' = [vma_list EXCEPT ![p] = CodeAndStack(program)]
        BY <3>1, AreasGiven
      <4> DEFINE a == Area(STACK_START, USER_TOP, {"r", "w"}, Nothing)
      <4>2. vma_list'[p] = CodeAndStack(program)
        BY <1>1, <4>1 DEF TypeOK
      <4>3. a \in AreasOf(p)'
        BY <4>2, NewAreaTypes DEF AreasOf
      <4>4. Covers(a, STACK_START)
        BY MemoryAssumption DEF Covers, Area
      <4>5. QED BY <4>3, <4>4
    <3>2. CASE \E hint \in Hints, length \in Lengths, prot \in Prots :
                  do_mmap(p, hint, length, prot) \/ do_mmap_populate(p, hint, length, prot)
      <4>1. PICK hint \in Hints, length \in Lengths, prot \in Prots :
                  do_mmap(p, hint, length, prot) \/ do_mmap_populate(p, hint, length, prot)
        BY <3>2
      <4>2. status[p] = "live" /\ MmapStart(p, hint, length) + length <= SIGNAL_PAGE
        BY <4>1 DEF do_mmap, do_mmap_populate, Live
      <4>3. \/ vma_list' = vma_list
            \/ vma_list' = [vma_list EXCEPT ![p] =
                  <<Area(MmapStart(p, hint, length), MmapStart(p, hint, length) + length,
                         prot, Nothing)>> \o @]
        BY <4>1, PopulateFacts DEF do_mmap
      <4>4. AreasOf(p) \subseteq AreasOf(p)'
        <5>1. CASE vma_list' = vma_list
          BY <5>1 DEF AreasOf
        <5>2. CASE vma_list' # vma_list
          BY <4>2, <4>3, <5>2, MmapLayout
        <5>3. QED BY <5>1, <5>2
      <4>5. QED BY <1>1, <4>2, <4>4 DEF StacksExist
    <3>3. CASE thread_exit(p) \/ do_stop(p) \/ fault_kills(p) \/ reaped(p)
      BY <1>1, <3>3 DEF thread_exit, do_stop, fault_kills, Ends, reaped, TypeOK
    <3>4. CASE \/ \E v \in Pages, d \in Data : store(p, v, d)
               \/ \E v \in Pages, access \in Accesses : demand_page(p, v, access)
               \/ do_sigreturn(p) \/ free_user_space(p)
               \/ \E v \in Pages : copy_on_write(p, v)
               \/ demand_page_maps(p) \/ signal_check(p)
      <4>1. status' = status /\ vma_list' = vma_list
        BY <3>4 DEF store, demand_page, do_sigreturn, free_user_space, copy_on_write,
           demand_page_maps, signal_check
      <4>2. QED BY <1>1, <4>1 DEF StacksExist, AreasOf
    <3>5. QED BY <1>3, <3>1, <3>2, <3>3, <3>4 DEF Steps, Unmaps
  <2>3. QED BY <1>1, <2>1, <2>2 DEF StacksExist, Same, AreasOf
<1>4. QED
  BY <1>2, <1>3

LEMMA TablesKept ==
    ASSUME TablesExist, \A q \in Procs : tables[q] \subseteq tables'[q],
           \A q \in Procs, u \in Pages :
               pte'[q][u] # Unmapped => Present(q, u) \/ TablesOf(u) \subseteq tables'[q]
    PROVE  TablesExist'
<1> SUFFICES ASSUME NEW q \in Procs, NEW u \in Pages, pte'[q][u] # Unmapped
             PROVE  TablesOf(u) \subseteq tables'[q]
  BY DEF TablesExist, Present
<1>1. CASE Present(q, u)
  <2>1. TablesOf(u) \subseteq tables[q] /\ tables[q] \subseteq tables'[q]
    BY <1>1 DEF TablesExist
  <2>2. QED BY <2>1
<1>2. QED
  BY <1>1

LEMMA NextTables ==
    ASSUME Unruly = {}, ~AreasRunOut, IInv, TablesExist, NEW p \in Procs, Steps(p)
    PROVE  TablesExist'
<1>1. pte \in [Procs -> [Pages -> Entries]] /\ tables \in [Procs -> SUBSET Tables]
  BY DEF IInv, TypeOK
<1>2. CASE \E c \in Procs : do_fork(p, c)
  <2>1. PICK c \in Procs : do_fork(p, c)
    BY <1>2
  <2>2. PICK copied \in {tables[p]} \cup
             (IF TablesRunOut THEN {{s \in tables[p] : Before(s, t)} : t \in tables[p]} ELSE {}) :
        LET shared == {v \in Pages : Present(p, v) /\ TablesOf(v) \subseteq copied}
        IN /\ tables' = [tables EXCEPT ![c] = copied]
           /\ pte' = [pte EXCEPT
                ![p] = [v \in Pages |-> IF v \in shared THEN WriteProtected(@[v]) ELSE @[v]],
                ![c] = [v \in Pages |-> IF v \in shared THEN WriteProtected(pte[p][v]) ELSE @[v]]]
           /\ ref_count' = [f \in Frames |->
                ref_count[f] + Cardinality({v \in shared : pte[p][v].frame = f})]
           /\ status' = [status EXCEPT ![c] = IF copied = tables[p] THEN "live" ELSE "half_built"]
    BY <2>1 DEF do_fork
  <2> DEFINE shared == {v \in Pages : Present(p, v) /\ TablesOf(v) \subseteq copied}
  <2>3. p # c /\ \A v \in Pages : pte[c][v] = Unmapped
    BY <2>1 DEF do_fork, Live, IInv, Layout, LayoutOf, FreeIsClean, Present
  <2>4. \A v \in shared : Present(p, v) /\ TablesOf(v) \subseteq copied
    OBVIOUS
  <2>5. /\ tables'[c] = copied /\ \A q \in Procs : q # c => tables'[q] = tables[q]
        /\ pte'[p] = [v \in Pages |-> IF v \in shared THEN WriteProtected(pte[p][v]) ELSE pte[p][v]]
        /\ pte'[c] = [v \in Pages |-> IF v \in shared THEN WriteProtected(pte[p][v]) ELSE pte[c][v]]
        /\ \A q \in Procs \ {p, c} : pte'[q] = pte[q]
    BY <1>1, <2>2, <2>3
  <2> HIDE DEF shared
  <2> SUFFICES ASSUME NEW q \in Procs, NEW u \in Pages, pte'[q][u] # Unmapped
               PROVE  TablesOf(u) \subseteq tables'[q]
    BY DEF TablesExist, Present
  <2>6. CASE q = c
    BY <2>3, <2>4, <2>5, <2>6
  <2>7. CASE q # c
    <3>1. Present(q, u)
      BY <2>4, <2>5, <2>7 DEF Present
    <3>2. QED BY <2>5, <2>7, <3>1 DEF TablesExist
  <2>8. QED BY <2>6, <2>7
<1>3. CASE do_exec(p) \/ reaped(p)
  <2>1. /\ \A u \in Pages : pte'[p][u] = Unmapped
        /\ \A q \in Procs : q # p => pte'[q] = pte[q] /\ tables'[q] = tables[q]
    <3>1. CASE do_exec(p)
      BY <1>1, <3>1 DEF do_exec
    <3>2. CASE reaped(p)
      BY <1>1, <3>2 DEF reaped, Present
    <3>3. QED BY <1>3, <3>1, <3>2
  <2>2. QED BY <2>1 DEF TablesExist, Present
<1>4. CASE \E hint \in Hints, length \in Lengths, prot \in Prots :
              do_mmap_populate(p, hint, length, prot)
  <2>1. PICK hint \in Hints, length \in Lengths, prot \in Prots :
               do_mmap_populate(p, hint, length, prot)
    BY <1>4
  <2> DEFINE new == Populated(p, hint, length)
  <2>2. PICK frame \in Injection(new, Free) :
           /\ pte' = [pte EXCEPT ![p] = [v \in Pages |->
                  IF v \in new THEN [frame |-> frame[v], prot |-> PageProt(prot)] ELSE @[v]]]
           /\ ref_count' = [f \in Frames |-> IF f \in Range(frame) THEN 1 ELSE ref_count[f]]
           /\ content' = [f \in Frames |-> IF f \in Range(frame) THEN Zero ELSE content[f]]
    BY <2>1 DEF do_mmap_populate, Populated
  <2>3. tables' = [tables EXCEPT ![p] = @ \cup UNION {TablesOf(v) : v \in new}]
    BY <2>1 DEF do_mmap_populate, Populated
  <2> HIDE DEF new
  <2>4. \A q \in Procs : tables[q] \subseteq tables'[q]
    BY <1>1, <2>3
  <2>5. \A u \in new : TablesOf(u) \subseteq tables'[p]
    BY <1>1, <2>3
  <2>6. \A q \in Procs, u \in Pages : ~(q = p /\ u \in new) => pte'[q][u] = pte[q][u]
    BY <1>1, <2>2
  <2>7. QED BY <2>4, <2>5, <2>6, TablesKept DEF Present
<1>5. CASE demand_page_maps(p)
  <2> DEFINE e == faulting[p]
  <2>1. e.page \in Pages
    BY <1>5, FaultFacts DEF demand_page_maps, IInv
  <2>2. /\ tables' = [tables EXCEPT ![p] = @ \cup TablesOf(e.page)]
        /\ pte' = [pte EXCEPT ![p][e.page] = [frame |-> e.frame, prot |-> e.prot]]
    BY <1>5 DEF demand_page_maps
  <2> HIDE DEF e
  <2>3. /\ \A q \in Procs : tables[q] \subseteq tables'[q]
        /\ TablesOf(e.page) \subseteq tables'[p]
        /\ \A q \in Procs, u \in Pages : ~(q = p /\ u = e.page) => pte'[q][u] = pte[q][u]
    BY <1>1, <2>1, <2>2
  <2>4. QED BY <2>3, TablesKept DEF Present
<1>6. CASE signal_check(p)
  <2>1. /\ \A q \in Procs : tables[q] \subseteq tables'[q]
        /\ TablesOf(SIGNAL_PAGE) \subseteq tables'[p]
        /\ \A q \in Procs, u \in Pages : ~(q = p /\ u = SIGNAL_PAGE) => pte'[q][u] = pte[q][u]
    <3>1. PICK f \in Free :
             pte' = [pte EXCEPT ![p][SIGNAL_PAGE] = [frame |-> f, prot |-> HandlerProt]]
      BY <1>6 DEF signal_check
    <3>2. tables' = [tables EXCEPT ![p] = @ \cup TablesOf(SIGNAL_PAGE)]
      BY <1>6 DEF signal_check
    <3>3. QED BY <1>1, <3>1, <3>2, SignalPageIsPage
  <2>2. QED BY <2>1, TablesKept DEF Present
<1>7. CASE \E v \in Pages : copy_on_write(p, v)
  <2>1. PICK v \in Pages : copy_on_write(p, v)
    BY <1>7
  <2>2. tables' = tables /\ Present(p, v)
    BY <2>1 DEF copy_on_write, IsCow
  <2>3. \A q \in Procs, u \in Pages : ~(q = p /\ u = v) => pte'[q][u] = pte[q][u]
    BY <1>1, <2>1 DEF copy_on_write
  <2>4. QED BY <2>2, <2>3, TablesKept DEF Present
<1>8. CASE do_sigreturn(p) \/ free_user_space(p)
  <2>1. tables' = tables /\ \A q \in Procs, u \in Pages : pte'[q][u] \in {pte[q][u], Unmapped}
    <3>1. CASE do_sigreturn(p)
      BY <1>1, <3>1 DEF do_sigreturn, unmap_page
    <3>2. CASE free_user_space(p)
      BY <1>1, <3>2 DEF free_user_space
    <3>3. QED BY <1>8, <3>1, <3>2
  <2>2. QED BY <2>1, TablesKept DEF Present
<1>9. CASE /\ Unmaps(p) /\ ~do_exec(p) /\ ~reaped(p) /\ ~do_sigreturn(p) /\ ~free_user_space(p)
  <2>1. tables' = tables /\ pte' = pte
    BY <1>9 DEF Unmaps, user_program_execute, thread_exit, do_stop, fault_kills, Ends, do_mmap, store,
       demand_page
  <2>2. QED BY <2>1 DEF TablesExist, Present
<1>10. QED
  BY <1>2, <1>3, <1>4, <1>5, <1>6, <1>7, <1>8, <1>9 DEF Steps

LEMMA NextPrivate ==
    ASSUME Unruly = {}, ~AreasRunOut, IInv, Private, [Next]_vars
    PROVE  Private'
<1>1. CASE UNCHANGED vars
  <2>1. /\ WritersAreAlone' /\ StacksExist' /\ TablesExist'
    BY <1>1 DEF vars, Private, WritersAreAlone, StacksExist, TablesExist, Present, AreasOf
  <2>2. PendingAreAlone'
    BY <1>1 DEF vars, Private, PendingAreAlone, PendingIsAlone, AreasOf
  <2>3. QED BY <2>1, <2>2 DEF Private
<1>2. CASE Next
  <2>1. PICK p \in Procs : Steps(p)
    BY <1>2, NextIsSteps
  <2>2. TablesExist
    BY DEF Private
  <2>3. QED BY <2>1, <2>2, NextWriters, NextPending, NextStacks, NextTables DEF Private
<1>3. QED
  BY <1>1, <1>2

LEMMA InitPrivate == Init => Private
<1> SUFFICES ASSUME Init PROVE Private
  OBVIOUS
<1>1. \A p \in Procs, v \in Pages : pte[p][v] = Unmapped
  BY DEF Init
<1>2. QED
  BY <1>1 DEF Init, Private, WritersAreAlone, PendingAreAlone, PendingIsAlone, StacksExist,
     TablesExist, Present, Unmapped

-----------------------------------------------------------------------------
(* What processes see *)

View(p) == [v \in Pages |-> Sees(p, v)]

\* Sees, case by case.
Seen ==
    \A p \in Procs, v \in Pages :
        /\ status[p] # "live" => Sees(p, v) = Nothing
        /\ status[p] = "live" /\ Present(p, v) => Sees(p, v) = content[pte[p][v].frame]
        /\ \A a \in AreasOf(p) : status[p] = "live" /\ ~Present(p, v) /\ Covers(a, v) =>
              Sees(p, v) = Initially(a, v)
        /\ status[p] = "live" /\ ~Present(p, v) /\ (\A a \in AreasOf(p) : ~Covers(a, v)) =>
              Sees(p, v) = Nothing

LEMMA SeenCases == IInv => Seen
<1> SUFFICES ASSUME IInv, NEW p \in Procs, NEW v \in Pages
    PROVE
        /\ status[p] # "live" => Sees(p, v) = Nothing
        /\ status[p] = "live" /\ Present(p, v) => Sees(p, v) = content[pte[p][v].frame]
        /\ \A a \in AreasOf(p) : status[p] = "live" /\ ~Present(p, v) /\ Covers(a, v) =>
              Sees(p, v) = Initially(a, v)
        /\ status[p] = "live" /\ ~Present(p, v) /\ (\A a \in AreasOf(p) : ~Covers(a, v)) =>
              Sees(p, v) = Nothing
  BY DEF Seen
<1>1. HasArea(p, v) <=> \E a \in AreasOf(p) : Covers(a, v)
  BY DEF HasArea, AreasOf, Range
<1>2. HasArea(p, v) => \A a \in AreasOf(p) : Covers(a, v) => a = AreaAt(p, v)
  BY AreaAtFacts
<1>3. QED
  BY <1>1, <1>2 DEF Sees

\* Every page of a living process's areas holds something.
LEMMA SeenIsThere ==
    ASSUME IInv, NEW p \in Procs, NEW v \in Pages, status[p] = "live",
           Present(p, v) \/ \E a \in AreasOf(p) : Covers(a, v)
    PROVE  Sees(p, v) \in Contents /\ Sees(p, v) # Nothing
<1>1. Nothing \notin Contents
  BY DataAssumption DEF Contents
<1>2. CASE Present(p, v)
  <2>1. content[pte[p][v].frame] \in Contents
    BY <1>2, EntryFacts DEF IInv, TypeOK, Contents
  <2>2. QED BY <1>1, <1>2, <2>1 DEF Sees
<1>3. CASE ~Present(p, v)
  <2>1. HasArea(p, v)
    BY <1>3 DEF HasArea, AreasOf, Range
  <2>2. Initially(AreaAt(p, v), v) \in Contents
    BY <2>1, InitiallyType
  <2>3. QED BY <1>1, <1>3, <2>1, <2>2 DEF Sees
<1>4. QED
  BY <1>2, <1>3

\* A process whose own state stays sees the same, if its frames hold the same.
LEMMA SameView ==
    ASSUME NEW p \in Procs, Seen, Seen', Same(p),
           \A v \in Pages : Present(p, v) => content'[pte[p][v].frame] = content[pte[p][v].frame]
    PROVE  View(p)' = View(p)
<1> SUFFICES ASSUME NEW v \in Pages PROVE Sees(p, v)' = Sees(p, v)
  BY DEF View
<1>1. /\ status'[p] = status[p] /\ pte'[p] = pte[p] /\ AreasOf(p)' = AreasOf(p)
      /\ Present(p, v)' = Present(p, v)
  BY DEF Same, AreasOf, Present
<1>2. CASE status[p] # "live"
  BY <1>1, <1>2 DEF Seen
<1>3. CASE status[p] = "live" /\ Present(p, v)
  <2>1. status'[p] = "live" /\ Present(p, v)'
    BY <1>1, <1>3 DEF Present
  <2>2. Sees(p, v)' = content'[pte'[p][v].frame]
    BY <2>1 DEF Seen
  <2>3. Sees(p, v) = content[pte[p][v].frame]
    BY <1>3 DEF Seen
  <2>4. QED BY <1>1, <1>3, <2>2, <2>3
<1>4. CASE status[p] = "live" /\ ~Present(p, v)
  BY <1>1, <1>4 DEF Seen
<1>5. QED
  BY <1>2, <1>3, <1>4

\* Nobody sees another process's step.
LEMMA OthersView ==
    ASSUME Unruly = {}, ~AreasRunOut, IInv, Private, Seen, Seen', NEW p \in Procs, Steps(p),
           NEW q \in Procs, q # p, Same(q)
    PROVE  View(q)' = View(q)
<1> SUFFICES ASSUME NEW v \in Pages, Present(q, v)
             PROVE  content'[pte[q][v].frame] = content[pte[q][v].frame]
  BY SameView
<1>1. pte[q][v].frame \in Frames /\ pte[q][v].frame \notin Free
  BY EntryFacts, FreeIsUnused DEF IInv
<1>2. ~(\E u \in Pages : "w" \in pte[p][u].prot /\ pte[p][u].frame = pte[q][v].frame)
  BY DEF Private, WritersAreAlone
<1>3. QED
  BY <1>1, <1>2, ContentsChange DEF Steps

\* One process's view changes in one of the ways PrivateMemory has.
OneView(p) ==
    \/ View(p)' = View(p)
    \/ Memory!Start(View(p), View(p)') \/ Memory!Exec(View(p), View(p)')
    \/ Memory!End(View(p), View(p)') \/ Memory!Store(View(p), View(p)')
    \/ Memory!Map(View(p), View(p)') \/ Memory!Deliver(View(p), View(p)')
    \/ Memory!Return(View(p), View(p)')
    \/ View(p) = Memory!Nowhere /\ \E parent \in Procs : View(p)' = View(parent)

LEMMA OneViewIsAStep ==
    ASSUME NEW p \in Procs, OneView(p), \A q \in Procs : q # p => View(q)' = View(q)
    PROVE  [Memory!Next]_views
<1>1. \A q \in Procs : views[q] = View(q) /\ views'[q] = View(q)'
  BY DEF View, views
<1>2. CASE View(p)' = View(p)
  <2>1. views' = views
    BY <1>2 DEF View, views
  <2>2. QED BY <2>1
<1>3. CASE View(p)' # View(p)
  <2>1. Memory!Fork(View(p), View(p)')
          <=> View(p) = Memory!Nowhere /\ \E parent \in Procs : View(p)' = views[parent]
    BY DEF Memory!Fork
  <2>2. Memory!Next
    BY <1>1, <1>3, <2>1 DEF OneView, Memory!Next
  <2>3. QED BY <2>2
<1>4. QED
  BY <1>2, <1>3

LEMMA ProgramView ==
    ASSUME Seen', NEW p \in Procs, NEW program \in Programs,
           vma_list'[p] = CodeAndStack(program), status'[p] = "live",
           \A v \in Pages : pte'[p][v] = Unmapped
    PROVE  View(p)' = Memory!Image(program)
<1> DEFINE a == Area(STACK_START, USER_TOP, {"r", "w"}, Nothing)
           b == Area(0, CODE_PAGES, {"r", "x"}, program)
<1>1. AreasOf(p)' = {a, b}
  BY NewAreaTypes DEF AreasOf
<1>2. /\ a.start = STACK_START /\ a.end = USER_TOP /\ a.file = Nothing
      /\ b.start = 0 /\ b.end = CODE_PAGES /\ b.file = program
  BY DEF Area
<1> HIDE DEF a, b
<1>3. ASSUME NEW v \in Pages
      PROVE  Sees(p, v)' = IF v < CODE_PAGES THEN <<program, v>>
                           ELSE IF v >= STACK_START THEN Zero ELSE Nothing
  <2>1. v \in Nat /\ v < USER_TOP /\ v - 0 = v
    BY MemoryAssumption DEF Pages
  <2>2. (Covers(a, v) <=> v >= STACK_START) /\ (Covers(b, v) <=> v < CODE_PAGES)
    BY <1>2, <2>1, MemoryAssumption DEF Covers
  <2>3. Initially(a, v) = Zero /\ Initially(b, v) = <<program, v>>
    BY <1>2, <2>1, DataAssumption DEF Initially
  <2>4. status'[p] = "live" /\ ~Present(p, v)'
    BY DEF Present
  <2>5. CASE v < CODE_PAGES
    BY <1>1, <2>2, <2>3, <2>4, <2>5 DEF Seen
  <2>6. CASE v >= STACK_START
    <3>1. ~(v < CODE_PAGES)
      BY <2>1, <2>6, MemoryAssumption
    <3>2. QED BY <1>1, <2>2, <2>3, <2>4, <2>6, <3>1 DEF Seen
  <2>7. CASE ~(v < CODE_PAGES) /\ ~(v >= STACK_START)
    BY <1>1, <2>2, <2>4, <2>7 DEF Seen
  <2>8. QED BY <2>5, <2>6, <2>7
<1>4. QED
  BY <1>3 DEF View, Memory!Image, Memory!Pages, Pages

\* A process that is not living sees nothing, one that is has something.
LEMMA Nowheres ==
    ASSUME IInv, Private, Seen, NEW p \in Procs
    PROVE  /\ status[p] # "live" => View(p) = Memory!Nowhere
           /\ status[p] = "live" => View(p) # Memory!Nowhere
<1>1. status[p] # "live" => View(p) = Memory!Nowhere
  BY DEF Seen, View, Memory!Nowhere, Memory!Pages, Pages
<1>2. ASSUME status[p] = "live" PROVE View(p) # Memory!Nowhere
  <2>1. STACK_START \in Pages
    BY MemoryAssumption DEF Pages
  <2>2. Sees(p, STACK_START) # Nothing
    BY <1>2, <2>1, SeenIsThere DEF Private, StacksExist
  <2>3. View(p)[STACK_START] # Nothing
    BY <2>1, <2>2 DEF View
  <2>4. Memory!Nowhere[STACK_START] = Nothing
    BY <2>1 DEF Memory!Nowhere, Memory!Pages, Pages
  <2>5. QED BY <2>3, <2>4
<1>3. QED
  BY <1>1, <1>2

\* Start, exec and the ways to end.
LEMMA StartView ==
    ASSUME ~AreasRunOut, IInv, Private, Seen, Seen', NEW p \in Procs, user_program_execute(p) \/ do_exec(p)
    PROVE  OneView(p)
<1>1. PICK program \in Programs : vma_list' = [vma_list EXCEPT ![p] = CodeAndStack(program)]
  BY AreasGiven
<1>2. vma_list'[p] = CodeAndStack(program)
  BY <1>1 DEF IInv, TypeOK
<1>3. status'[p] = "live" /\ \A v \in Pages : pte'[p][v] = Unmapped
  <2>1. CASE user_program_execute(p)
    BY <2>1 DEF user_program_execute, IInv, TypeOK, Layout, LayoutOf, FreeIsClean, Present
  <2>2. CASE do_exec(p)
    BY <2>2 DEF do_exec, Live, IInv, TypeOK
  <2>3. QED BY <2>1, <2>2
<1>4. View(p)' = Memory!Image(program)
  BY <1>2, <1>3, ProgramView
<1>5. CASE user_program_execute(p)
  <2>1. View(p) = Memory!Nowhere
    BY <1>5, Nowheres DEF user_program_execute
  <2>2. QED BY <1>4, <2>1 DEF OneView, Memory!Start
<1>6. CASE do_exec(p)
  <2>1. View(p) # Memory!Nowhere
    BY <1>6, Nowheres DEF do_exec, Live
  <2>2. QED BY <1>4, <2>1 DEF OneView, Memory!Exec
<1>7. QED
  BY <1>5, <1>6

LEMMA EndView ==
    ASSUME Seen', NEW p \in Procs, status'[p] # "live"
    PROVE  OneView(p)
BY DEF OneView, Memory!End, Memory!Nowhere, Memory!Pages, Pages, View, Seen

\* mmap: what was there stays, and the new pages are empty.
LEMMA MmapView ==
    ASSUME Unruly = {}, ~AreasRunOut, IInv, Seen, Seen', NEW p \in Procs, NEW hint \in Hints,
           NEW length \in Lengths, NEW prot \in Prots,
           do_mmap(p, hint, length, prot) \/ do_mmap_populate(p, hint, length, prot)
    PROVE  OneView(p)
<1> DEFINE start == MmapStart(p, hint, length)
           a == Area(start, start + length, prot, Nothing)
<1>1. /\ status[p] = "live" /\ status'[p] = "live" /\ start + length <= SIGNAL_PAGE
      /\ vma_list' = vma_list \/ vma_list' = [vma_list EXCEPT ![p] = <<a>> \o @]
  <2>1. CASE do_mmap(p, hint, length, prot)
    BY <2>1 DEF do_mmap, Live
  <2>2. CASE do_mmap_populate(p, hint, length, prot)
    <3>1. status[p] = "live" /\ status' = status /\ start + length <= SIGNAL_PAGE
      BY <2>2 DEF do_mmap_populate, Live
    <3>2. vma_list' = vma_list \/ vma_list' = [vma_list EXCEPT ![p] = <<a>> \o @]
      BY <2>2, PopulateFacts
    <3>3. QED BY <3>1, <3>2
  <2>3. QED BY <2>1, <2>2
<1>2. AreasOf(p)' = AreasOf(p) \/ AreasOf(p)' = AreasOf(p) \cup {a}
  <2>1. CASE vma_list' = vma_list
    BY <2>1 DEF AreasOf
  <2>2. CASE vma_list' # vma_list
    BY <1>1, <2>2, MmapLayout
  <2>3. QED BY <2>1, <2>2
<1>3. a.file = Nothing
  BY DEF Area
\* A page keeps its entry, or it was no page of the process and is mapped now.
<1>4. ASSUME NEW v \in Pages
      PROVE  \/ pte'[p][v] = pte[p][v] /\ (Present(p, v) => content'[pte[p][v].frame] = content[pte[p][v].frame])
             \/ /\ ~Present(p, v) /\ \A b \in AreasOf(p) : ~Covers(b, v)
                /\ pte'[p][v] # Unmapped /\ content'[pte'[p][v].frame] = Zero
  <2>1. CASE do_mmap(p, hint, length, prot)
    BY <2>1 DEF do_mmap
  <2>2. CASE do_mmap_populate(p, hint, length, prot)
    <3> DEFINE new == Populated(p, hint, length)
    <3>1. PICK frame \in Injection(new, Free) :
             /\ pte' = [pte EXCEPT ![p] = [u \in Pages |->
                    IF u \in new THEN [frame |-> frame[u], prot |-> PageProt(prot)] ELSE @[u]]]
             /\ ref_count' = [f \in Frames |-> IF f \in Range(frame) THEN 1 ELSE ref_count[f]]
             /\ content' = [f \in Frames |-> IF f \in Range(frame) THEN Zero ELSE content[f]]
      BY <2>2 DEF do_mmap_populate, Populated
    <3>2. v \in new => ~HasArea(p, v) /\ ~Present(p, v)
      BY <2>2, PopulateFacts
    <3> HIDE DEF new, a, start
    <3>3. frame \in [new -> Frames] /\ Range(frame) \subseteq Free
      BY <3>1 DEF Injection, Range, Free
    <3>4. CASE v \in new
      <4>1. ~Present(p, v) /\ \A b \in AreasOf(p) : ~Covers(b, v)
        BY <3>2, <3>4 DEF HasArea, AreasOf, Range
      <4>2. pte'[p][v] = [frame |-> frame[v], prot |-> PageProt(prot)]
        BY <3>1, <3>4 DEF IInv, TypeOK
      <4>3. frame[v] \in Frames /\ frame[v] \in Range(frame)
        BY <3>3, <3>4 DEF Range
      <4>4. pte'[p][v].frame = frame[v] /\ pte'[p][v] # Unmapped
        BY <4>2, <4>3, MemoryAssumption DEF Unmapped
      <4>5. QED BY <3>1, <4>1, <4>3, <4>4
    <3>5. CASE v \notin new
      <4>1. pte'[p][v] = pte[p][v]
        BY <3>1, <3>5 DEF IInv, TypeOK
      <4>2. Present(p, v) => pte[p][v].frame \in Frames /\ pte[p][v].frame \notin Free
        BY EntryFacts, FreeIsUnused DEF IInv
      <4>3. Present(p, v) => content'[pte[p][v].frame] = content[pte[p][v].frame]
        BY <3>1, <3>3, <4>2
      <4>4. QED BY <4>1, <4>3
    <3>6. QED BY <3>4, <3>5
  <2>3. QED BY <2>1, <2>2
<1> HIDE DEF a, start
<1>5. ASSUME NEW v \in Pages
      PROVE  Sees(p, v)' = Sees(p, v) \/ (Sees(p, v) = Nothing /\ Sees(p, v)' = Zero)
  <2>1. CASE /\ ~Present(p, v) /\ \A b \in AreasOf(p) : ~Covers(b, v)
             /\ pte'[p][v] # Unmapped /\ content'[pte'[p][v].frame] = Zero
    <3>1. Sees(p, v) = Nothing
      BY <1>1, <2>1 DEF Seen
    <3>2. Sees(p, v)' = content'[pte'[p][v].frame]
      BY <1>1, <2>1 DEF Seen, Present
    <3>3. QED BY <2>1, <3>1, <3>2
  <2>2. CASE /\ pte'[p][v] = pte[p][v] /\ Present(p, v)
             /\ content'[pte[p][v].frame] = content[pte[p][v].frame]
    <3>1. Sees(p, v)' = content'[pte'[p][v].frame]
      BY <1>1, <2>2 DEF Seen, Present
    <3>2. Sees(p, v) = content[pte[p][v].frame]
      BY <1>1, <2>2 DEF Seen
    <3>3. QED BY <2>2, <3>1, <3>2
  <2>3. CASE pte'[p][v] = pte[p][v] /\ ~Present(p, v) /\ \E b \in AreasOf(p) : Covers(b, v)
    <3>1. PICK b \in AreasOf(p) : Covers(b, v)
      BY <2>3
    <3>2. Sees(p, v)' = Initially(b, v)
      BY <1>1, <1>2, <2>3, <3>1 DEF Seen, Present
    <3>3. Sees(p, v) = Initially(b, v)
      BY <1>1, <2>3, <3>1 DEF Seen
    <3>4. QED BY <3>2, <3>3
  <2>4. CASE pte'[p][v] = pte[p][v] /\ ~Present(p, v) /\ \A b \in AreasOf(p) : ~Covers(b, v)
    <3>1. Sees(p, v) = Nothing
      BY <1>1, <2>4 DEF Seen
    <3>2. CASE a \in AreasOf(p)' /\ Covers(a, v)
      <4>1. Sees(p, v)' = Initially(a, v)
        BY <1>1, <2>4, <3>2 DEF Seen, Present
      <4>2. QED BY <1>3, <3>1, <4>1 DEF Initially
    <3>3. CASE ~(a \in AreasOf(p)' /\ Covers(a, v))
      <4>1. Sees(p, v)' = Nothing
        BY <1>1, <1>2, <2>4, <3>3 DEF Seen, Present
      <4>2. QED BY <3>1, <4>1
    <3>4. QED BY <3>2, <3>3
  <2>5. QED BY <1>4, <2>1, <2>2, <2>3, <2>4
<1>6. Memory!Map(View(p), View(p)')
  BY <1>5 DEF Memory!Map, Memory!Pages, Pages, View
<1>7. QED
  BY <1>6 DEF OneView

\* A process sees a page the same if its entry is the same, or has the same
\* content, and its areas are.
LEMMA SameSight ==
    ASSUME Seen, Seen', NEW p \in Procs, NEW v \in Pages,
           status'[p] = status[p], AreasOf(p)' = AreasOf(p),
           Present(p, v)' <=> Present(p, v),
           Present(p, v) => content'[pte'[p][v].frame] = content[pte[p][v].frame]
    PROVE  Sees(p, v)' = Sees(p, v)
<1>1. CASE status[p] # "live"
  BY <1>1 DEF Seen
<1>2. CASE status[p] = "live" /\ Present(p, v)
  <2>1. status'[p] = "live" /\ Present(p, v)'
    BY <1>2
  <2>2. Sees(p, v)' = content'[pte'[p][v].frame]
    BY <2>1 DEF Seen
  <2>3. Sees(p, v) = content[pte[p][v].frame]
    BY <1>2 DEF Seen
  <2>4. QED BY <1>2, <2>2, <2>3
<1>3. CASE status[p] = "live" /\ ~Present(p, v)
  <2>1. status'[p] = "live" /\ ~Present(p, v)'
    BY <1>3
  <2>2. CASE \E a \in AreasOf(p) : Covers(a, v)
    <3>1. PICK a \in AreasOf(p) : Covers(a, v)
      BY <2>2
    <3>2. Sees(p, v)' = Initially(a, v)
      BY <2>1, <3>1 DEF Seen
    <3>3. Sees(p, v) = Initially(a, v)
      BY <1>3, <3>1 DEF Seen
    <3>4. QED BY <3>2, <3>3
  <2>3. CASE \A a \in AreasOf(p) : ~Covers(a, v)
    BY <1>3, <2>1, <2>3 DEF Seen
  <2>4. QED BY <2>2, <2>3
<1>4. QED
  BY <1>1, <1>2, <1>3

LEMMA StoreView ==
    ASSUME IInv, Private, Seen, Seen', NEW p \in Procs, NEW v \in Pages, NEW d \in Data,
           store(p, v, d)
    PROVE  OneView(p)
<1>1. /\ status[p] = "live" /\ "w" \in pte[p][v].prot /\ status' = status /\ pte' = pte
      /\ AreasOf(p)' = AreasOf(p)
  BY DEF store, Live, AreasOf
<1>2. Present(p, v) /\ pte[p][v].frame \in Frames
  BY <1>1, WriterHasFrame DEF IInv
<1>3. content' = [content EXCEPT ![pte[p][v].frame] = d] /\ content \in [Frames -> Contents]
  BY DEF store, IInv, TypeOK, Contents
<1>4. Sees(p, v)' = d
  <2>1. Sees(p, v)' = content'[pte'[p][v].frame]
    BY <1>1, <1>2 DEF Seen, Present
  <2>2. QED BY <1>1, <1>2, <1>3, <2>1
<1>5. ASSUME NEW u \in Pages, u # v PROVE Sees(p, u)' = Sees(p, u)
  <2>1. Present(p, u) => pte[p][u].frame \in Frames /\ pte[p][u].frame # pte[p][v].frame
    BY <1>1, <1>5, EntryFacts DEF IInv, Private, WritersAreAlone
  <2>2. Present(p, u) => content'[pte'[p][u].frame] = content[pte[p][u].frame]
    BY <1>1, <1>3, <2>1
  <2>3. Present(p, u)' <=> Present(p, u)
    BY <1>1 DEF Present
  <2>4. QED BY <1>1, <2>2, <2>3, SameSight
<1>6. Sees(p, v) # Nothing
  BY <1>1, <1>2, SeenIsThere
<1>7. Memory!Store(View(p), View(p)')
  BY <1>4, <1>5, <1>6 DEF Memory!Store, Memory!SameBut, Memory!Pages, Pages, View
<1>8. QED
  BY <1>7 DEF OneView

\* Copy-on-write and demand paging are not seen.
LEMMA FaultView ==
    ASSUME IInv, Private, Seen, Seen', NEW p \in Procs,
           \/ \E v \in Pages : copy_on_write(p, v)
           \/ \E v \in Pages, access \in Accesses : demand_page(p, v, access)
           \/ demand_page_maps(p)
    PROVE  OneView(p)
<1> SUFFICES ASSUME NEW u \in Pages PROVE Sees(p, u)' = Sees(p, u)
  BY DEF OneView, View
<1>1. /\ pte \in [Procs -> [Pages -> Entries]] /\ content \in [Frames -> Contents]
      /\ Present(p, u) => pte[p][u].frame \in Frames /\ pte[p][u].frame \notin Free
  BY EntryFacts, FreeIsUnused DEF IInv, TypeOK, Contents
<1>2. ASSUME NEW v \in Pages, copy_on_write(p, v) PROVE Sees(p, u)' = Sees(p, u)
  <2>1. Present(p, v) /\ status' = status /\ AreasOf(p)' = AreasOf(p)
    BY <1>2 DEF copy_on_write, IsCow, AreasOf
  <2>2. pte[p][v] \in [frame : Frames, prot : SUBSET Accesses]
    BY <2>1, EntryFacts DEF IInv
  <2>3. /\ Present(p, u)' <=> Present(p, u)
        /\ Present(p, u) => content'[pte'[p][u].frame] = content[pte[p][u].frame]
    <3>1. CASE IsShared(pte[p][v].frame)
      <4>1. PICK new \in Free :
               /\ content' = [content EXCEPT ![new] = content[pte[p][v].frame]]
               /\ pte' = [pte EXCEPT ![p][v] = [frame |-> new, prot |-> @.prot \cup {"w"}]]
               /\ ref_count' = [ref_count EXCEPT ![new] = 1, ![pte[p][v].frame] = @ - 1]
        BY <1>2, <3>1 DEF copy_on_write
      <4>2. new \in Frames
        BY DEF Free
      <4>3. CASE u = v
        <5>1. pte'[p][u].frame = new /\ content'[new] = content[pte[p][u].frame]
          BY <1>1, <4>1, <4>2, <4>3
        <5>2. pte'[p][u] # Unmapped
          BY <4>2, <5>1, MemoryAssumption DEF Unmapped
        <5>3. QED BY <2>1, <4>3, <5>1, <5>2 DEF Present
      <4>4. CASE u # v
        <5>1. pte'[p][u] = pte[p][u]
          BY <1>1, <4>1, <4>4
        <5>2. Present(p, u) => content'[pte[p][u].frame] = content[pte[p][u].frame]
          BY <1>1, <4>1, <4>2
        <5>3. QED BY <5>1, <5>2 DEF Present
      <4>5. QED BY <4>3, <4>4
    <3>2. CASE ~IsShared(pte[p][v].frame)
      <4>1. pte' = [pte EXCEPT ![p][v].prot = @ \cup {"w"}] /\ content' = content
        BY <1>2, <3>2 DEF copy_on_write
      <4>2. pte'[p][u].frame = pte[p][u].frame
        BY <1>1, <2>2, <4>1
      <4>3. Present(p, u)' <=> Present(p, u)
        <5>1. CASE u = v
          <6>1. pte'[p][u].frame \in Frames
            BY <2>2, <4>2, <5>1
          <6>2. QED BY <2>1, <5>1, <6>1, MemoryAssumption DEF Present, Unmapped
        <5>2. CASE u # v
          <6>1. pte'[p][u] = pte[p][u]
            BY <1>1, <4>1, <5>2
          <6>2. QED BY <6>1 DEF Present
        <5>3. QED BY <5>1, <5>2
      <4>4. QED BY <4>1, <4>2, <4>3
    <3>3. QED BY <3>1, <3>2
  <2>4. status'[p] = status[p]
    BY <2>1
  <2>5. QED BY <2>1, <2>3, <2>4, SameSight
<1>3. ASSUME NEW v \in Pages, NEW access \in Accesses, demand_page(p, v, access)
      PROVE  Sees(p, u)' = Sees(p, u)
  <2>1. PICK f \in Free : content' = [content EXCEPT ![f] = Initially(AreaAt(p, v), v)]
    BY <1>3 DEF demand_page
  <2>2. pte' = pte /\ status' = status /\ AreasOf(p)' = AreasOf(p)
    BY <1>3 DEF demand_page, AreasOf
  <2>3. Present(p, u) => content'[pte[p][u].frame] = content[pte[p][u].frame]
    BY <1>1, <2>1
  <2>4. Present(p, u)' <=> Present(p, u)
    BY <2>2 DEF Present
  <2>5. QED BY <2>2, <2>3, <2>4, SameSight
<1>4. ASSUME demand_page_maps(p) PROVE Sees(p, u)' = Sees(p, u)
  <2> DEFINE e == faulting[p]
  <2>1. /\ e # Unmapped /\ content' = content /\ status' = status
        /\ AreasOf(p)' = AreasOf(p)
        /\ pte' = [pte EXCEPT ![p][e.page] = [frame |-> e.frame, prot |-> e.prot]]
    BY <1>4 DEF demand_page_maps, AreasOf
  <2>2. PICK a \in AreasOf(p) : Covers(a, e.page) /\ content[e.frame] = Initially(a, e.page)
    BY <2>1 DEF Private, PendingAreAlone, PendingIsAlone
  <2>3. e.page \in Pages /\ e.frame \in Frames /\ (status[p] = "live" => ~Present(p, e.page))
    BY <2>1, FaultFacts DEF IInv, Layout, LayoutOf, FaultsOK
  <2> HIDE DEF e
  <2>4. CASE u = e.page /\ status[p] = "live"
    <3>1. Sees(p, u) = Initially(a, u)
      BY <2>1, <2>2, <2>3, <2>4 DEF Seen
    <3>2. pte'[p][u].frame = e.frame
      BY <1>1, <2>1, <2>3, <2>4
    <3>3. pte'[p][u] # Unmapped
      BY <2>3, <3>2, MemoryAssumption DEF Unmapped
    <3>4. Sees(p, u)' = content'[pte'[p][u].frame]
      BY <2>1, <2>4, <3>3 DEF Seen, Present
    <3>5. QED BY <2>1, <2>2, <2>4, <3>1, <3>2, <3>4
  <2>5. CASE u # e.page
    <3>1. pte'[p][u] = pte[p][u]
      BY <1>1, <2>1, <2>5
    <3>2. Present(p, u)' <=> Present(p, u)
      BY <3>1 DEF Present
    <3>3. QED BY <2>1, <3>1, <3>2, SameSight
  <2>6. CASE status[p] # "live"
    BY <2>1, <2>6 DEF Seen
  <2>7. QED BY <2>4, <2>5, <2>6
<1>5. QED
  BY <1>2, <1>3, <1>4

LEMMA SignalView ==
    ASSUME Unruly = {}, ~AreasRunOut, IInv, Private, Seen, Seen', NEW p \in Procs, signal_check(p)
    PROVE  OneView(p)
<1>1. PICK f \in Free :
         /\ content' = [content EXCEPT ![f] = Trampoline]
         /\ pte' = [pte EXCEPT ![p][SIGNAL_PAGE] = [frame |-> f, prot |-> HandlerProt]]
  BY DEF signal_check
<1>2. /\ status[p] = "live" /\ status' = status /\ AreasOf(p)' = AreasOf(p)
      /\ ~Present(p, SIGNAL_PAGE) /\ f \in Frames
      /\ content \in [Frames -> Contents] /\ pte \in [Procs -> [Pages -> Entries]]
  BY DEF signal_check, Live, AreasOf, Rule, Free, IInv, TypeOK, Contents
<1>3. \A a \in AreasOf(p) : ~Covers(a, SIGNAL_PAGE)
  BY DEF IInv, Layout, LayoutOf, AreasOK, AreaOK
<1>4. Sees(p, SIGNAL_PAGE) = Nothing
  BY <1>2, <1>3, SignalPageIsPage DEF Seen
<1>5. Sees(p, SIGNAL_PAGE)' = Trampoline
  <2>1. pte'[p][SIGNAL_PAGE].frame = f
    BY <1>1, <1>2, SignalPageIsPage
  <2>2. pte'[p][SIGNAL_PAGE] # Unmapped
    BY <1>2, <2>1, MemoryAssumption DEF Unmapped
  <2>3. Sees(p, SIGNAL_PAGE)' = content'[pte'[p][SIGNAL_PAGE].frame]
    BY <1>2, <2>2, SignalPageIsPage DEF Seen, Present
  <2>4. QED BY <1>1, <1>2, <2>1, <2>3
<1>6. ASSUME NEW u \in Pages, u # SIGNAL_PAGE PROVE Sees(p, u)' = Sees(p, u)
  <2>1. pte'[p][u] = pte[p][u]
    BY <1>1, <1>2, <1>6
  <2>2. Present(p, u) => pte[p][u].frame \in Frames /\ pte[p][u].frame # f
    BY EntryFacts, FreeIsUnused DEF IInv
  <2>3. Present(p, u) => content'[pte'[p][u].frame] = content[pte[p][u].frame]
    BY <1>1, <1>2, <2>1, <2>2
  <2>4. Present(p, u)' <=> Present(p, u)
    BY <2>1 DEF Present
  <2>5. QED BY <1>2, <2>3, <2>4, SameSight
<1>7. View(p) # Memory!Nowhere
  BY <1>2, Nowheres
<1>8. Memory!Deliver(View(p), View(p)')
  BY <1>4, <1>5, <1>6, <1>7, SignalPageIsPage
     DEF Memory!Deliver, Memory!SameBut, Memory!Pages, Pages, View
<1>9. QED
  BY <1>8 DEF OneView

LEMMA SigreturnView ==
    ASSUME IInv, Seen, Seen', NEW p \in Procs, do_sigreturn(p)
    PROVE  OneView(p)
<1>1. /\ status[p] = "live" /\ status' = status /\ AreasOf(p)' = AreasOf(p) /\ content' = content
      /\ pte'[p][SIGNAL_PAGE] = Unmapped
      /\ \A u \in Pages : u # SIGNAL_PAGE => pte'[p][u] = pte[p][u]
  BY SignalPageIsPage DEF do_sigreturn, Live, AreasOf, unmap_page, IInv, TypeOK
<1>2. \A a \in AreasOf(p) : ~Covers(a, SIGNAL_PAGE)
  BY DEF IInv, Layout, LayoutOf, AreasOK, AreaOK
<1>3. Sees(p, SIGNAL_PAGE)' = Nothing
  BY <1>1, <1>2, SignalPageIsPage DEF Seen, Present
<1>4. ASSUME NEW u \in Pages, u # SIGNAL_PAGE PROVE Sees(p, u)' = Sees(p, u)
  <2>1. pte'[p][u] = pte[p][u]
    BY <1>1, <1>4
  <2>2. Present(p, u)' <=> Present(p, u)
    BY <2>1 DEF Present
  <2>3. QED BY <1>1, <2>1, <2>2, SameSight
<1>5. Memory!Return(View(p), View(p)')
  BY <1>3, <1>4, SignalPageIsPage DEF Memory!Return, Memory!SameBut, Memory!Pages, Pages, View
<1>6. QED
  BY <1>5 DEF OneView

\* fork: the child sees what its parent does, and the parent what it did.
LEMMA ForkView ==
    ASSUME Unruly = {}, ~AreasRunOut, IInv, Private, Seen, Seen', NEW p \in Procs, NEW c \in Procs, do_fork(p, c)
    PROVE  OneView(c) /\ \A q \in Procs : q # c => View(q)' = View(q)
<1>1. PICK copied \in {tables[p]} \cup
             (IF TablesRunOut THEN {{s \in tables[p] : Before(s, t)} : t \in tables[p]} ELSE {}) :
        LET shared == {v \in Pages : Present(p, v) /\ TablesOf(v) \subseteq copied}
        IN /\ pte' = [pte EXCEPT
                ![p] = [v \in Pages |-> IF v \in shared THEN WriteProtected(@[v]) ELSE @[v]],
                ![c] = [v \in Pages |-> IF v \in shared THEN WriteProtected(pte[p][v]) ELSE @[v]]]
           /\ ref_count' = [f \in Frames |->
                ref_count[f] + Cardinality({v \in shared : pte[p][v].frame = f})]
           /\ status' = [status EXCEPT ![c] = IF copied = tables[p] THEN "live" ELSE "half_built"]
  BY DEF do_fork
<1> DEFINE shared == {v \in Pages : Present(p, v) /\ TablesOf(v) \subseteq copied}
<1>2. /\ TypeOK /\ LayoutOf(c) /\ TablesExist /\ p # c
      /\ status[p] = "live" /\ status[c] = "free" /\ content' = content
  BY DEF IInv, Layout, Private, do_fork, Live
<1>3. /\ pte'[p] = [v \in Pages |-> IF v \in shared THEN WriteProtected(pte[p][v]) ELSE pte[p][v]]
      /\ pte'[c] = [v \in Pages |-> IF v \in shared THEN WriteProtected(pte[p][v]) ELSE pte[c][v]]
  BY <1>1, <1>2 DEF TypeOK
<1>4. /\ status'[c] = IF copied = tables[p] THEN "live" ELSE "half_built"
      /\ \A q \in Procs : q # c => status'[q] = status[q]
  BY <1>1, <1>2 DEF TypeOK
<1>5. AreasOf(p)' = AreasOf(p) /\ AreasOf(c)' = AreasOf(p)
  BY <1>2, AreasGiven DEF TypeOK, AreasOf
<1>6. \A v \in Pages : pte[c][v] = Unmapped
  BY <1>2 DEF LayoutOf, FreeIsClean, Present
<1>7. \A v \in shared : /\ Present(p, v) /\ pte[p][v].frame \in Frames
                        /\ WriteProtected(pte[p][v]).frame = pte[p][v].frame
  <2>1. \A v \in shared : v \in Pages /\ Present(p, v)
    OBVIOUS
  <2>2. \A v \in shared : pte[p][v] \in [frame : Frames, prot : SUBSET Accesses]
    BY <1>2, <2>1, EntryFacts
  <2>3. QED BY <2>1, <2>2 DEF WriteProtected
<1>8. copied = tables[p] => \A v \in Pages : Present(p, v) => v \in shared
  BY <1>2 DEF TablesExist
<1> HIDE DEF shared
<1>9. View(p)' = View(p)
  <2> SUFFICES ASSUME NEW v \in Pages PROVE Sees(p, v)' = Sees(p, v)
    BY DEF View
  <2>1. pte'[p][v].frame = pte[p][v].frame
    BY <1>3, <1>7
  <2>2. Present(p, v)' <=> Present(p, v)
    <3>1. CASE v \in shared
      <4>1. pte'[p][v].frame # NoFrame
        BY <1>7, <2>1, <3>1, MemoryAssumption
      <4>2. pte'[p][v] # Unmapped
        BY <4>1 DEF Unmapped
      <4>3. Present(p, v)
        BY <1>7, <3>1
      <4>4. QED BY <4>2, <4>3 DEF Present
    <3>2. CASE v \notin shared
      <4>1. pte'[p][v] = pte[p][v]
        BY <1>3, <3>2
      <4>2. QED BY <4>1 DEF Present
    <3>3. QED BY <3>1, <3>2
  <2>3. Present(p, v) => content'[pte'[p][v].frame] = content[pte[p][v].frame]
    BY <1>2, <2>1
  <2>4. status'[p] = status[p]
    BY <1>2, <1>4
  <2>5. QED BY <1>5, <2>2, <2>3, <2>4, SameSight
<1>10. ASSUME NEW q \in Procs \ {p, c} PROVE View(q)' = View(q)
  <2>1. Same(q)
    BY ForkLayout
  <2>2. QED BY <1>2, <2>1, SameView
<1>11. OneView(c)
  <2>1. View(c) = Memory!Nowhere
    BY <1>2, Nowheres
  <2>2. CASE copied = tables[p]
    <3>1. status'[c] = "live"
      BY <1>4, <2>2
    <3>2. ASSUME NEW v \in Pages PROVE Sees(c, v)' = Sees(p, v)
      <4>1. CASE Present(p, v)
        <5>1. v \in shared
          BY <1>8, <2>2, <4>1
        <5>2. pte'[c][v].frame = pte[p][v].frame /\ pte[p][v].frame \in Frames
          BY <1>3, <1>7, <5>1
        <5>3. pte'[c][v] # Unmapped
          BY <5>2, MemoryAssumption DEF Unmapped
        <5>4. Sees(c, v)' = content'[pte'[c][v].frame]
          BY <3>1, <5>3 DEF Seen, Present
        <5>5. Sees(p, v) = content[pte[p][v].frame]
          BY <1>2, <4>1 DEF Seen
        <5>6. QED BY <1>2, <5>2, <5>4, <5>5
      <4>2. CASE ~Present(p, v)
        <5>1. v \notin shared
          BY <1>7, <4>2
        <5>2. pte'[c][v] = Unmapped
          BY <1>3, <1>6, <5>1
        <5>3. CASE \E a \in AreasOf(p) : Covers(a, v)
          <6>1. PICK a \in AreasOf(p) : Covers(a, v)
            BY <5>3
          <6>2. Sees(c, v)' = Initially(a, v)
            BY <1>5, <3>1, <5>2, <6>1 DEF Seen, Present
          <6>3. Sees(p, v) = Initially(a, v)
            BY <1>2, <4>2, <6>1 DEF Seen
          <6>4. QED BY <6>2, <6>3
        <5>4. CASE \A a \in AreasOf(p) : ~Covers(a, v)
          <6>1. Sees(c, v)' = Nothing
            BY <1>5, <3>1, <5>2, <5>4 DEF Seen, Present
          <6>2. Sees(p, v) = Nothing
            BY <1>2, <4>2, <5>4 DEF Seen
          <6>3. QED BY <6>1, <6>2
        <5>5. QED BY <5>3, <5>4
      <4>3. QED BY <4>1, <4>2
    <3>3. View(c)' = View(p)
      BY <3>2 DEF View
    <3>4. QED BY <2>1, <3>3 DEF OneView
  <2>3. CASE copied # tables[p]
    <3>1. status'[c] # "live"
      BY <1>4, <2>3
    <3>2. QED BY <3>1, EndView
  <2>4. QED BY <2>2, <2>3
<1>12. QED
  BY <1>9, <1>10, <1>11

LEMMA StepsView ==
    ASSUME Unruly = {}, ~AreasRunOut, IInv, Private, Seen, Seen', NEW p \in Procs, Steps(p),
           ~(\E c \in Procs : do_fork(p, c))
    PROVE  OneView(p)
<1>1. CASE user_program_execute(p) \/ do_exec(p)
  BY <1>1, StartView
<1>2. CASE thread_exit(p) \/ do_stop(p) \/ fault_kills(p) \/ free_user_space(p) \/ reaped(p)
  <2>1. status'[p] # "live"
    BY <1>2 DEF thread_exit, do_stop, fault_kills, Ends, free_user_space, reaped, IInv, TypeOK
  <2>2. QED BY <2>1, EndView
<1>3. CASE \E hint \in Hints, length \in Lengths, prot \in Prots :
              do_mmap(p, hint, length, prot) \/ do_mmap_populate(p, hint, length, prot)
  BY <1>3, MmapView
<1>4. CASE \E v \in Pages, d \in Data : store(p, v, d)
  BY <1>4, StoreView
<1>5. CASE \/ \E v \in Pages : copy_on_write(p, v)
           \/ \E v \in Pages, access \in Accesses : demand_page(p, v, access)
           \/ demand_page_maps(p)
  BY <1>5, FaultView
<1>6. CASE signal_check(p)
  BY <1>6, SignalView
<1>7. CASE do_sigreturn(p)
  BY <1>7, SigreturnView
<1>8. QED
  BY <1>1, <1>2, <1>3, <1>4, <1>5, <1>6, <1>7 DEF Steps, Unmaps

LEMMA NextIsPrivate ==
    ASSUME Unruly = {}, ~AreasRunOut, IInv, Private, Seen, Seen', [Next]_vars
    PROVE  [Memory!Next]_views
<1>1. CASE UNCHANGED vars
  <2>1. \A q \in Procs : Same(q) /\ content' = content
    BY <1>1 DEF vars, Same
  <2>2. \A q \in Procs : View(q)' = View(q)
    BY <2>1, SameView
  <2>3. QED BY <2>2 DEF View, views
<1>2. CASE Next
  <2>1. PICK p \in Procs : Steps(p)
    BY <1>2, NextIsSteps
  <2>2. CASE \E c \in Procs : do_fork(p, c)
    <3>1. PICK c \in Procs : do_fork(p, c)
      BY <2>2
    <3>2. QED BY <3>1, ForkView, OneViewIsAStep
  <2>3. CASE ~(\E c \in Procs : do_fork(p, c))
    <3>1. \A q \in Procs : q # p => View(q)' = View(q)
      BY <2>1, <2>3, StepsSame, OthersView DEF IInv
    <3>2. QED BY <2>1, <2>3, <3>1, StepsView, OneViewIsAStep
  <2>4. QED BY <2>2, <2>3
<1>3. QED
  BY <1>1, <1>2

\* Frames, sharing, copy-on-write and demand paging implement memory that is
\* private: what a page of a process holds changes by its own stores only, a
\* child starts with a copy of what its parent sees, and exec, mmap and the end
\* of a handler do what PrivateMemory says.
THEOREM MemoryIsPrivate ==
    ASSUME Unruly = {}, ~AreasRunOut
    PROVE  Spec => IsPrivateMemory
<1>1. Init => Memory!Init
  BY DEF Init, Memory!Init, Memory!Nowhere, Memory!Pages, Pages, Sees, views
<1>2. Init => Private
  BY InitPrivate
<1>3. IInv /\ Private /\ [Next]_vars => Private'
  BY NextPrivate
<1>4. IInv => Seen
  BY SeenCases
<1>5. IInv /\ Private /\ Seen /\ Seen' /\ [Next]_vars
        => [Memory!Next]_views
  BY NextIsPrivate
<1>6. Spec => []IInv
  BY Invariance
<1>7. QED
  BY <1>1, <1>2, <1>3, <1>4, <1>5, <1>6, PTL DEF Spec, IsPrivateMemory, Memory!Spec
=============================================================================
