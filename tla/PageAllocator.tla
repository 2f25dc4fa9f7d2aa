--------------------------- MODULE PageAllocator ---------------------------
(***************************************************************************)
(* What the kernel's page allocator promises its callers.  Each of them    *)
(* holds references to blocks of 2^order pages; nothing is said of how     *)
(* free memory is kept.                                                    *)
(***************************************************************************)
EXTENDS Integers

CONSTANTS
    total_pages, \* pages in the managed region
    MAX_ORDER,   \* the largest block has 2^MAX_ORDER pages
    Reserved     \* page numbers that are never handed out

VARIABLES
    held,   \* the blocks the callers hold, with the references to each
    ret     \* what was last asked for and returned: a block, NULL (-1), or nothing

Pages == 0..(total_pages - 1)
Orders == 0..MAX_ORDER
Void == [pages |-> 0, start |-> -1]
Null(n) == [pages |-> n, start |-> -1]

Block(i, k) == i..(i + 2^k - 1)
PagesOf(b) == Block(b.start, b.order)
Taken == Reserved \cup UNION {PagesOf(b) : b \in held}

\* The smallest blocks that hold n pages.
Suits(n, k) == n <= 2^k /\ (k > 0 => 2^(k - 1) < n)

\* A block of order k may start at page i.
Fits(i, k) == i % 2^k = 0 /\ Block(i, k) \subseteq Pages \ Taken

Init == held = {} /\ ret = Void

\* A request for n pages gets some aligned free block of the smallest size
\* that holds them.
Alloc(n) ==
    \E k \in Orders, i \in Pages :
        /\ Suits(n, k) /\ Fits(i, k)
        /\ held' = held \cup {[start |-> i, order |-> k, refs |-> 1]}
        /\ ret' = [pages |-> n, start |-> i]

\* It fails only if there is no such block: neither fragmentation nor
\* bookkeeping loses memory.
Fail(n) ==
    \E k \in 0..(MAX_ORDER + 1) :
        /\ Suits(n, k)
        /\ k \in Orders => \A i \in Pages : ~Fits(i, k)
        /\ ret' = Null(n)
        /\ UNCHANGED held

\* One more reference to a block.
Share(b) ==
    /\ held' = (held \ {b}) \cup {[b EXCEPT !.refs = @ + 1]}
    /\ ret' = Void

\* A reference is given back, and with the last one the block.
Release(b) ==
    /\ held' = (held \ {b}) \cup (IF b.refs = 1 THEN {} ELSE {[b EXCEPT !.refs = @ - 1]})
    /\ ret' = Void

Next ==
    \/ \E n \in 1..(2^(MAX_ORDER + 1)) : Alloc(n) \/ Fail(n)
    \/ \E b \in held : Share(b) \/ Release(b)

Spec == Init /\ [][Next]_<<held, ret>>
=============================================================================
