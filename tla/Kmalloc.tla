------------------------------ MODULE Kmalloc ------------------------------
(***************************************************************************)
(* The kernel's allocator of small objects (src/kernel/src/kmalloc.c) on   *)
(* top of the page allocator, of which it uses only what PageAllocator     *)
(* promises.  alloc_page's callers (vm.c) take pages from the same pool.   *)
(* An address is a number of units; a page has PAGE_SIZE of them.          *)
(***************************************************************************)
EXTENDS Integers, SequencesExt

CONSTANTS
    total_pages, MAX_ORDER, Reserved, \* as in PageAllocator
    PAGE_SIZE,  \* 4096 bytes in the code
    pool_sizes, \* the chunk sizes, ascending (16 .. 2048 in the code)
    Sizes,      \* the sizes asked for
    MaxObjects  \* bound: the most objects held at a time

ASSUME PoolsAssumption ==
    /\ total_pages \in Nat /\ MAX_ORDER \in Nat
    /\ Reserved \subseteq 0..(total_pages - 1)
    /\ PAGE_SIZE \in Nat \ {0} /\ Sizes \subseteq Nat \ {0} /\ MaxObjects \in Nat
    /\ pool_sizes \in Seq(1..PAGE_SIZE)
    /\ \A i \in DOMAIN pool_sizes : PAGE_SIZE % pool_sizes[i] = 0
    /\ \A i, j \in DOMAIN pool_sizes : i < j => pool_sizes[i] < pool_sizes[j]

\* Arithmetic of the block sizes.
ASSUME PowersAssumption == 2^0 = 1 /\ \A k \in 0..MAX_ORDER : 2^k \in Nat \ {0}

VARIABLES
    free_list,     \* per pool: the free chunks in list order
    page_pool_idx, \* per page: its pool, or LARGE
    held, ret,     \* the page allocator's state, see PageAllocator
    objects,       \* the callers' objects from kmalloc: address and size asked for
    page_users     \* the pages callers have got from alloc_page

vars == <<free_list, page_pool_idx, held, ret, objects, page_users>>

Buddy == INSTANCE PageAllocator

Pages == 0..(total_pages - 1)
Pools == DOMAIN pool_sizes
LARGE == -1

find_pool(size) ==
    LET fitting == {i \in Pools : size <= pool_sizes[i]}
    IN IF fitting = {} THEN LARGE ELSE CHOOSE i \in fitting : \A j \in fitting : i <= j

\* Mutant: the last page, filled in part, is not counted.
PagesFor_Floor(size) == size \div PAGE_SIZE

PagesFor(size) == (size + PAGE_SIZE - 1) \div PAGE_SIZE
PageOf(addr) == addr \div PAGE_SIZE

\* The chunks of a page as they stand on the list: the last one cut is first.
Sliced(page, size) ==
    [i \in 1..(PAGE_SIZE \div size) |-> page * PAGE_SIZE + (PAGE_SIZE \div size - i) * size]

-----------------------------------------------------------------------------
Init ==
    /\ Buddy!Init
    /\ free_list = [p \in Pools |-> <<>>]
    /\ page_pool_idx = [i \in Pages |-> LARGE]
    /\ objects = {} /\ page_users = {}

\* A request too large for every pool.
kmalloc_large(size) ==
    /\ find_pool(size) = LARGE
    /\ UNCHANGED <<free_list, page_users>>
    /\ \/ /\ Buddy!Alloc(PagesFor(size))
          /\ page_pool_idx' = [i \in Pages |->
                 IF i \in ret'.start..(ret'.start + PagesFor(size) - 1) THEN LARGE
                 ELSE page_pool_idx[i]]
          /\ objects' = objects \cup {[addr |-> ret'.start * PAGE_SIZE, size |-> size]}
       \/ /\ Buddy!Fail(PagesFor(size))
          /\ UNCHANGED <<page_pool_idx, objects>>

\* Mutant: the chunk handed out stays on the list.
pop_Keeps(pool, list, size) ==
    /\ free_list' = [free_list EXCEPT ![pool] = list]
    /\ objects' = objects \cup {[addr |-> Head(list), size |-> size]}

\* The first chunk of the list goes to the caller.
pop(pool, list, size) ==
    /\ free_list' = [free_list EXCEPT ![pool] = Tail(list)]
    /\ objects' = objects \cup {[addr |-> Head(list), size |-> size]}

\* Mutant: the new page's pool is not recorded.
Marked_Not(page, pool) == page_pool_idx

Marked(page, pool) == [page_pool_idx EXCEPT ![page] = pool]

\* A chunk from the pool's list, which a new page fills when it is empty.
kmalloc_small(size) ==
    LET pool == find_pool(size)
    IN /\ pool # LARGE
       /\ UNCHANGED page_users
       /\ IF free_list[pool] # <<>>
          THEN pop(pool, free_list[pool], size) /\ UNCHANGED <<page_pool_idx, held, ret>>
          ELSE \/ /\ Buddy!Alloc(1)
                  /\ page_pool_idx' = Marked(ret'.start, pool)
                  /\ pop(pool, Sliced(ret'.start, pool_sizes[pool]), size)
               \/ /\ Buddy!Fail(1)
                  /\ UNCHANGED <<free_list, page_pool_idx, objects>>

\* The page decides where the object goes back to.
kfree(obj) ==
    LET pool == page_pool_idx[PageOf(obj.addr)]
    IN /\ objects' = objects \ {obj}
       /\ UNCHANGED <<page_users, page_pool_idx>>
       /\ IF pool = LARGE
          THEN /\ \E b \in held : b.start = PageOf(obj.addr) /\ Buddy!Release(b)
               /\ UNCHANGED free_list
          ELSE /\ free_list' = [free_list EXCEPT ![pool] = <<obj.addr>> \o @]
               /\ UNCHANGED <<held, ret>>

\* vm.c's alloc_page, and its callers' buddy_free.
alloc_page ==
    /\ Buddy!Alloc(1)
    /\ page_users' = page_users \cup {ret'.start}
    /\ UNCHANGED <<free_list, page_pool_idx, objects>>

free_page(i) ==
    /\ \E b \in held : b.start = i /\ Buddy!Release(b)
    /\ page_users' = page_users \ {i}
    /\ UNCHANGED <<free_list, page_pool_idx, objects>>

Next ==
    \/ \E size \in Sizes :
           /\ Cardinality(objects) < MaxObjects
           /\ kmalloc_large(size) \/ kmalloc_small(size)
    \/ \E obj \in objects : kfree(obj)
    \/ alloc_page
    \/ \E i \in page_users : free_page(i)

Spec == Init /\ [][Next]_vars

-----------------------------------------------------------------------------
(* Properties *)

Extent(obj) == obj.addr..(obj.addr + obj.size - 1)
PageExtent(i) == (i * PAGE_SIZE)..(i * PAGE_SIZE + PAGE_SIZE - 1)

\* The types of the variables.
TypeOK ==
    /\ free_list \in [Pools -> Seq(Nat)]
    /\ page_pool_idx \in [Pages -> Pools \cup {LARGE}]
    /\ objects \subseteq [addr : 0..(total_pages * PAGE_SIZE - 1), size : Sizes]
    /\ page_users \subseteq Pages

\* An object overlaps neither another one nor a page of alloc_page's callers,
\* and lies in memory that the page allocator has given to this allocator.
ObjectsAreSound ==
    /\ TypeOK
    /\ \A a, b \in objects : a # b => Extent(a) \cap Extent(b) = {}
    /\ \A a \in objects, i \in page_users : Extent(a) \cap PageExtent(i) = {}
    /\ \A a \in objects : \E b \in held :
           Extent(a) \subseteq UNION {PageExtent(i) : i \in Buddy!PagesOf(b)}

\* Every chunk of a pool's page is free, in that pool, exactly once, or an
\* object: kfree puts a chunk back where kmalloc took it from.
ChunksAreConserved ==
    /\ \A p \in Pools : IsInjective(free_list[p])
    /\ \A i \in Pages : page_pool_idx[i] # LARGE =>
           LET pool == page_pool_idx[i]
               chunks == Range(Sliced(i, pool_sizes[pool]))
               free == {a \in Range(free_list[pool]) : PageOf(a) = i}
               used == {o.addr : o \in {x \in objects : PageOf(x.addr) = i}}
           IN free \cup used = chunks /\ free \cap used = {}

\* No block is lost: the page allocator's blocks are the pools' pages, the
\* large objects and the pages of alloc_page's callers.
NoBlockIsLost ==
    \A b \in held :
        \/ page_pool_idx[b.start] # LARGE
        \/ b.start \in page_users
        \/ \E a \in objects : a.addr = b.start * PAGE_SIZE
=============================================================================
