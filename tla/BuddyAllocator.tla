-------------------------- MODULE BuddyAllocator ---------------------------
(***************************************************************************)
(* The buddy allocator of page frames (src/kernel/src/buddy.c) and the     *)
(* reference counts that copy-on-write keeps in it.  Every operation runs  *)
(* with interrupts disabled, so each is one step.                          *)
(*                                                                         *)
(* The callers are part of the model as the references they hold: they     *)
(* free only what they hold, by its first page, as vm.c, trap.c, thread.c  *)
(* and kmalloc.c do.                                                       *)
(***************************************************************************)
EXTENDS Integers, SequencesExt

CONSTANTS
    total_pages, \* buddy_total_pages
    MAX_ORDER,   \* 16 in the code
    Reserved,    \* pages of the reserved regions
    MaxRefs      \* bound: references to one page

ASSUME MemoryAssumption ==
    /\ total_pages \in Nat /\ MAX_ORDER \in Nat /\ MaxRefs \in Nat \ {0}
    /\ Reserved \subseteq 0..(total_pages - 1)

\* What the proofs need of powers of two, which the provers do not know: an
\* order fits into a tag, and a tag is not an order.
ASSUME PowersAssumption ==
    /\ 2^0 = 1 /\ \A k \in 0..MAX_ORDER : 2^(k + 1) = 2 * 2^k
    /\ 2^8 \in Nat /\ 2^30 \in Nat /\ 2^30 % 2^8 = 0
    /\ MAX_ORDER < 2^8 /\ MAX_ORDER < 2^30

VARIABLES
    frame_array, \* per page: the order of a free block, or one of the marks below
    ref_count,   \* per page
    free_list,   \* per order: the blocks in list order, first pages only
    held,        \* the callers' references
    ret          \* the last request and what it returned

vars == <<frame_array, ref_count, free_list, held, ret>>

Pages == 0..(total_pages - 1)
Orders == 0..MAX_ORDER
Block(i, k) == i..(i + 2^k - 1)

FRAME_FREE_PART == -1
\* The tag of an allocated page: bit 30, the block's first page, its order.
ALLOC_TAG(i, k) == 2^30 + i * 2^8 + k
GET_ALLOC_ORDER(tag) == tag % 2^8

Void == [pages |-> 0, start |-> -1]
Null(n) == [pages |-> n, start |-> -1]

-----------------------------------------------------------------------------
(* Operators *)

\* A list gets page i's node in front, and loses it again.
block_push(list, i) == <<i>> \o list
block_pop(list, i) == RemoveAt(list, CHOOSE n \in DOMAIN list : list[n] = i)

\* The smallest order whose block has n pages.
pages_to_order(n) ==
    CHOOSE k \in 0..(MAX_ORDER + 1) : 2^k >= n /\ \A j \in 0..(k - 1) : 2^j < n

\* Mutant: the buddy is always the next block.
BuddyOf_Next(i, k) == i + 2^k

\* i ^ (1 << k)
BuddyOf(i, k) == IF (i \div 2^k) % 2 = 0 THEN i + 2^k ELSE i - 2^k

\* The first page of the block of order k around i: what merging k times
\* makes of cur_idx.
Base(i, k) == (i \div 2^k) * 2^k

\* Mutant: a block is put back as it is.
Merged_Not(fa, i, k) == k

\* The order that a block of order k at i is merged to: as long as its buddy
\* is in the region and heads a free block of the same order.
Merged(fa, i, k) ==
    CHOOSE m \in k..MAX_ORDER :
        /\ \A j \in k..(m - 1) : LET b == BuddyOf(Base(i, j), j)
                                 IN b < total_pages /\ fa[b] = j
        /\ m < MAX_ORDER => LET b == BuddyOf(Base(i, m), m)
                            IN b >= total_pages \/ fa[b] # m

\* The largest aligned free block at page i.
LargestAt(i) ==
    CHOOSE k \in Orders :
        /\ i % 2^k = 0 /\ Block(i, k) \subseteq Pages \ Reserved
        /\ \A j \in (k + 1)..MAX_ORDER :
              i % 2^j # 0 \/ ~(Block(i, j) \subseteq Pages \ Reserved)

\* buddy_init walks over the pages and takes the largest block at each.
InitialHeads ==
    LET from[i \in Nat] ==
          IF i >= total_pages THEN {}
          ELSE IF i \in Reserved THEN from[i + 1]
          ELSE {i} \cup from[i + 2^LargestAt(i)]
    IN from[0]

\* The list that results when these pages are pushed in ascending order.
Pushed(S) ==
    CHOOSE q \in [1..Cardinality(S) -> S] :
        Range(q) = S /\ \A m, n \in 1..Cardinality(S) : m < n => q[m] > q[n]

-----------------------------------------------------------------------------
Init ==
    /\ frame_array = [i \in Pages |->
          IF i \in Reserved THEN ALLOC_TAG(i, 0)
          ELSE IF i \in InitialHeads THEN LargestAt(i)
          ELSE FRAME_FREE_PART]
    /\ ref_count = [i \in Pages |-> IF i \in Reserved THEN 1 ELSE 0]
    /\ free_list = [k \in Orders |-> Pushed({i \in InitialHeads : LargestAt(i) = k})]
    /\ held = {}
    /\ ret = Void

\* A block is taken from the first list that has one and split; the upper
\* halves go to the lists below.
buddy_alloc(n) ==
    LET target == pages_to_order(n)
        lists == {k \in target..MAX_ORDER : free_list[k] # <<>>}
    IN IF lists = {}
       THEN ret' = Null(n) /\ UNCHANGED <<frame_array, ref_count, free_list, held>>
       ELSE \E k \in lists :
             /\ \A j \in lists : k <= j
             /\ LET i == Head(free_list[k])
                    upper(j) == i + 2^j
                IN /\ free_list' = [j \in Orders |->
                          IF j = k THEN Tail(free_list[j])
                          ELSE IF target <= j /\ j < k THEN block_push(free_list[j], upper(j))
                          ELSE free_list[j]]
                   /\ frame_array' = [p \in Pages |->
                          IF p \in Block(i, target) THEN ALLOC_TAG(i, target)
                          ELSE IF \E j \in target..(k - 1) : p = upper(j)
                               THEN CHOOSE j \in target..(k - 1) : p = upper(j)
                          ELSE IF p \in Block(i, k) THEN FRAME_FREE_PART
                          ELSE frame_array[p]]
                   /\ ref_count' = [p \in Pages |-> IF p \in Block(i, target) THEN 1
                                                    ELSE ref_count[p]]
                   /\ held' = held \cup {[start |-> i, order |-> target, refs |-> 1]}
                   /\ ret' = [pages |-> n, start |-> i]

\* The holder of a reference to block b gives it back.
buddy_free(b) ==
    LET i == b.start
        order == GET_ALLOC_ORDER(frame_array[i])
        marked == [p \in Pages |-> IF p \in Block(i, order) THEN FRAME_FREE_PART
                                   ELSE frame_array[p]]
        m == Merged(marked, i, order)
        start == Base(i, m)
    IN /\ ref_count' = [ref_count EXCEPT ![i] = @ - 1]
       /\ IF ref_count[i] - 1 <= 0
          THEN /\ frame_array' = [p \in Pages |->
                     IF p = start THEN m
                     ELSE IF p \in Block(start, m) THEN FRAME_FREE_PART
                     ELSE frame_array[p]]
               /\ free_list' = [k \in Orders |->
                     IF order <= k /\ k < m
                     THEN block_pop(free_list[k], BuddyOf(Base(i, k), k))
                     ELSE IF k = m THEN block_push(free_list[k], start)
                     ELSE free_list[k]]
          ELSE UNCHANGED <<frame_array, free_list>>
       /\ held' = (held \ {b}) \cup
                  (IF b.refs = 1 THEN {} ELSE {[b EXCEPT !.refs = @ - 1]})
       /\ ret' = Void

get_page_ref(b) ==
    /\ b.order = 0 /\ b.refs < MaxRefs
    /\ ref_count' = [ref_count EXCEPT ![b.start] = @ + 1]
    /\ held' = (held \ {b}) \cup {[b EXCEPT !.refs = @ + 1]}
    /\ ret' = Void
    /\ UNCHANGED <<frame_array, free_list>>

Next ==
    \/ \E n \in 1..(2^MAX_ORDER + 1) : buddy_alloc(n)
    \/ \E b \in held : buddy_free(b) \/ get_page_ref(b)

Spec == Init /\ [][Next]_vars

-----------------------------------------------------------------------------
(* Properties *)

FreeBlocks == {b \in [start : Pages, order : Orders] : b.start \in Range(free_list[b.order])}

\* The types of the variables.
TypeOK ==
    /\ frame_array \in [Pages -> Int] /\ ref_count \in [Pages -> Nat]
    /\ free_list \in [Orders -> Seq(Pages)]
    /\ held \subseteq [start : Pages, order : Orders, refs : 1..MaxRefs]
    /\ ret \in [pages : Nat, start : Pages \cup {-1}]

\* Every page is reserved, in one block a caller holds, or in one free block,
\* and in no two of them: nothing is leaked or handed out twice.
EveryPageHasOnePlace ==
    LET places == {[start |-> i, order |-> 0, kind |-> "reserved"] : i \in Reserved}
                  \cup {[start |-> b.start, order |-> b.order, kind |-> "held"] : b \in held}
                  \cup {[start |-> b.start, order |-> b.order, kind |-> "free"] : b \in FreeBlocks}
    IN /\ TypeOK
       /\ \A i \in Pages : \E b \in places :
             /\ i \in Block(b.start, b.order)
             /\ \A c \in places : i \in Block(c.start, c.order) => c = b

\* The buddy allocator keeps the page allocator's promise.
Promise == INSTANCE PageAllocator
KeepsPromise == Promise!Spec
=============================================================================
