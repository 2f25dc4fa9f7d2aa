---------------------------- MODULE DeviceTree ----------------------------
(***************************************************************************)
(* Lookups in the flattened device tree, src/kernel/src/dtb.c.  The tree   *)
(* is a record of whether its magic number is right and of its tokens; a   *)
(* property's value is a sequence of 32-bit cells.  A node's name is its   *)
(* part before '@', which is all that node_name_match looks at.            *)
(*                                                                         *)
(* Two scans over the tokens are translated, dtb_getprop and               *)
(* dtb_find_and_reserve_memory.  Each is a function of what its loop       *)
(* keeps (Places): the next token, the depth of the node it is in, and the *)
(* depth at which it found the node it looks for, or -1.  Lookup says what *)
(* a path means: the chain of nodes around the property, which no scan     *)
(* keeps.                                                                  *)
(***************************************************************************)
EXTENDS Integers, SequencesExt

CONSTANT CELL   \* values of a cell: 2^32

ASSUME CellAssumption == CELL \in Nat \ {0}

begin_node(name) == [t |-> "begin", name |-> name]
prop(name, cells) == [t |-> "prop", name |-> name, cells |-> cells]
end_node == [t |-> "end"]
nop == [t |-> "nop"]
fdt_end == [t |-> "stop"]

node_name_match(name, seg) == name = seg

-----------------------------------------------------------------------------
(* dtb_getprop.                                                            *)

\* The node at depth d is taken for the one the path leads to.  The names of
\* the nodes around it are not asked for again.
Reaches(d, name, path) ==
    /\ d = Len(path)
    /\ d > 0 => node_name_match(name, path[d])

\* Mutant: the scan stays in the node it found.
Leave_Stays(d, matched) == matched

Leave(d, matched) == IF matched = d THEN -1 ELSE matched

\* What a scan's loop keeps.
Places == [next : Nat, depth : Int, matched : Int]
Beginning == [next |-> 1, depth |-> -1, matched |-> -1]

\* Behind the token tok; hit: it begins the node looked for.
Advance(at, tok, hit) ==
    CASE tok.t = "begin" ->
           [next |-> at.next + 1, depth |-> at.depth + 1,
            matched |-> IF at.matched < 0 /\ hit THEN at.depth + 1 ELSE at.matched]
      [] tok.t = "end" ->
           [next |-> at.next + 1, depth |-> at.depth - 1, matched |-> Leave(at.depth, at.matched)]
      [] OTHER -> [next |-> at.next + 1, depth |-> at.depth, matched |-> at.matched]

\* No token is left, or only FDT_END.
Stops(tokens, at) == at.next > Len(tokens) \/ tokens[at.next].t = "stop"

\* The cells of the property, or <<>> for a null pointer: every caller treats
\* a property without a value like none.
dtb_getprop(tree, path, name) ==
    LET scan[at \in Places] ==
          LET tok == tree.tokens[at.next]
          IN  IF Stops(tree.tokens, at) THEN <<>>
              ELSE IF tok.t = "prop" /\ at.matched >= 0 /\ tok.name = name THEN tok.cells
              ELSE scan[Advance(at, tok, Reaches(at.depth + 1, tok.name, path))]
    IN  IF tree.magic THEN scan[Beginning] ELSE <<>>

u64(cells, i) == cells[i] * CELL + cells[i + 1]

\* Two cells or more are one 64-bit address; no property is address 0.
Address(cells) ==
    CASE Len(cells) = 0 -> 0
      [] Len(cells) = 1 -> cells[1]
      [] OTHER -> u64(cells, 1)

dtb_get_reg(tree, path) == Address(dtb_getprop(tree, path, "reg"))

dtb_load_initrd_addr(tree) ==
    Address(dtb_getprop(tree, <<"chosen">>, "linux,initrd-start"))

\* Start and size of a reg: 64-bit values if it is long enough for them.
Region(cells) ==
    CASE Len(cells) >= 4 -> [start |-> u64(cells, 1), size |-> u64(cells, 3)]
      [] Len(cells) \in 2..3 -> [start |-> cells[1], size |-> cells[2]]
      [] OTHER -> [start |-> 0, size |-> 0]

dtb_get_memory_region(tree) == Region(dtb_getprop(tree, <<"memory">>, "reg"))

-----------------------------------------------------------------------------
(* dtb_find_and_reserve_memory.                                            *)

\* The regions it gives to memory_reserve, in order; the depth it keeps is
\* that of /reserved-memory.
dtb_reserved_regions(tree) ==
    LET scan[at \in Places] ==
          LET tok == tree.tokens[at.next]
              region == IF tok.t = "prop" /\ at.matched >= 0 /\ at.depth = at.matched + 1
                           /\ tok.name = "reg" /\ Len(tok.cells) >= 2
                          THEN <<Region(tok.cells)>> ELSE <<>>
          IN  IF Stops(tree.tokens, at) THEN <<>>
              ELSE region \o scan[Advance(at, tok, at.depth = 0
                                          /\ node_name_match(tok.name, "reserved-memory"))]
    IN  IF tree.magic THEN scan[Beginning] ELSE <<>>

-----------------------------------------------------------------------------
(* What a path means.                                                      *)

\* The names of the nodes open before token i, the root's first.
Around(tokens) ==
    LET open[i \in 1..Len(tokens)] ==
          IF i = 1 THEN <<>>
          ELSE CASE tokens[i - 1].t = "begin" -> Append(open[i - 1], tokens[i - 1].name)
                 [] tokens[i - 1].t = "end" -> Front(open[i - 1])
                 [] OTHER -> open[i - 1]
    IN  open

\* The name of the root node is empty.
ROOT == ""

\* The first property of that name directly in a node of that path.
Lookup(tree, path, name) ==
    LET at == {i \in DOMAIN tree.tokens :
                 /\ tree.tokens[i].t = "prop"
                 /\ tree.tokens[i].name = name
                 /\ Around(tree.tokens)[i] = <<ROOT>> \o path}
    IN  IF at = {} THEN <<>> ELSE tree.tokens[Min(at)].cells

\* The regions of the children of /reserved-memory.
ReservedNodes(tree) ==
    {Region(tree.tokens[i].cells) :
       i \in {j \in DOMAIN tree.tokens :
                /\ tree.tokens[j].t = "prop"
                /\ tree.tokens[j].name = "reg"
                /\ LET around == Around(tree.tokens)[j]
                   IN  Len(around) = 3 /\ around[2] = "reserved-memory"}}
============================================================================
