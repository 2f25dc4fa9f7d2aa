------------------------------ MODULE MCBoot ------------------------------
(***************************************************************************)
(* Boot for TLC, in the proportions of the machine QEMU emulates, with     *)
(* eight bytes to a page, two pages to a huge page and 128 bytes to an      *)
(* entry of pg_dir.  Memory starts at 128, the kernel a page later.        *)
(*                                                                         *)
(* The device trees: /soc with a serial or a uart, next to or behind other *)
(* nodes; the initrd's address in one cell, in two, or missing; /memory in *)
(* either form, within the window or beyond it, or missing;                *)
(* /reserved-memory with children; nodes elsewhere whose names or          *)
(* properties are like those looked for; in several orders.                *)
(***************************************************************************)
EXTENDS Boot

\* "l" and "s" as letters, the two keys that delete, enter, and a character
\* parse does not know.
MCTyped == {108, 115, 127, 13, 200}
MCStray == {13}
MCLoadLine == <<108, 115>>

\* Every byte but those of the sizes may be a carriage return.
MCKernels == {<<13, 10, 13>>, <<7, 13, 8, 127, 66>>}
CrKernels == {<<1, 2, 3, 4, 5, 6, 7, 8, 9, 10, 11, 12, 13>>}
MCGivesUp == {9, 12}
Nowhere == {}

MCDevices == {16, 24}
MCFrameBuffers == {[start |-> 288, size |-> 8]}

Node(name, body) == <<begin_node(name)>> \o body \o <<end_node>>
Reg(cells) == <<prop("reg", cells)>>
Uart == Reg(<<0, 16, 0, 8>>)

Socs == {Node("soc", <<nop>> \o Node("plic", Reg(<<0, 24, 0, 8>>)) \o Node("serial", Uart)
                     \o Node("serial", Reg(<<0, 24, 0, 8>>))),
         Node("soc", <<prop("ranges", <<>>)>> \o Node("uart", Uart)),
         Node("soc", Node("serial", <<nop>>) \o Node("plic", Reg(<<0, 24, 0, 8>>))
                     \o Node("uart", Uart)),
         Node("soc", Node("bus", Node("serial", Reg(<<0, 24, 0, 8>>)))
                     \o Node("uart", Reg(<<0, 24, 0, 8>>)) \o Node("serial", <<nop>> \o Uart))}

Chosens == {Node("chosen", <<prop("bootargs", <<1>>), prop("linux,initrd-start", <<192>>)>>),
            Node("chosen", <<prop("linux,initrd-start", <<0, 204>>)>>),
            Node("chosen", <<prop("bootargs", <<1>>)>>)}

Memories == {Node("memory", <<prop("device_type", <<1>>)>> \o Reg(<<0, 128, 0, 188>>)),
             Node("memory", Reg(<<136, 176>>)),
             Node("memory", Reg(<<0, 128, 1, 0>>)),
             <<>>}

Reserved == {Node("reserved-memory", <<prop("ranges", <<>>)>>
                     \o Node("mmode", Reg(<<0, 128, 0, 8>>)) \o Node("dpu", <<nop>>)),
             <<>>}
Holes == {Node("reserved-memory", Node("dpu", Reg(<<1, 16, 0, 8>>)))}

Others == Node("aliases", <<prop("serial", <<5>>)>>)
          \o Node("cpus", Node("cpu", Reg(<<0>>) \o Node("serial", Reg(<<9>>))
                                                 \o Node("memory", Reg(<<64, 64>>))))
          \o Node("serial", Reg(<<0, 24, 0, 8>>))

Tree(body) ==
    [magic |-> TRUE, tokens |-> Node("", <<prop("reg", <<7>>)>> \o body) \o <<fdt_end>>]

TreesWith(socs, reserved) ==
    {Tree(Others \o s \o c \o m \o r) : s \in socs, c \in Chosens, m \in Memories, r \in reserved}
    \cup {Tree(m \o r \o c \o s \o Others) : s \in socs, c \in Chosens, m \in Memories, r \in reserved}

Archives == {<<[name |-> "a", namesize |-> 2, filesize |-> 5],
               [name |-> "b", namesize |-> 3, filesize |-> 0],
               [name |-> "a", namesize |-> 2, filesize |-> 4],
               [name |-> TRAILER, namesize |-> 2, filesize |-> 0]>>,
             <<[name |-> "b", namesize |-> 4, filesize |-> 3],
               [name |-> TRAILER, namesize |-> 2, filesize |-> 0]>>}

Each(trees) ==
    [tree : trees, at : {163, 180}, size : {10}, archive : Archives]

MCMachines == Each(TreesWith(Socs, Reserved))

\* A node of the right name and depth in front of the right one.
Decoys == Each({Tree(Node("spi", Node("serial", Reg(<<0, 24, 0, 8>>))) \o s) : s \in Socs})
\* A region in the tree that lies in memory nobody else uses.
Held == Each(TreesWith(Socs, Holes))
============================================================================
