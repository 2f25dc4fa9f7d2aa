------------------------------ MODULE Startup ------------------------------
(***************************************************************************)
(* The kernel from its first instruction to free lists of pages:           *)
(* src/kernel/src/a.S, setup_vm and drop_identity_map of vm.c, main.c,     *)
(* video_init of video.c, and memory_reserve, startup_alloc and buddy_init *)
(* of buddy.c.  It is one thread of control without interrupts; what makes *)
(* it delicate is that addresses are physical in the device tree, virtual  *)
(* in the kernel, mapped both ways for a while, and that the list of what  *)
(* must not be handed out is put together from all over memory.            *)
(*                                                                         *)
(* The machine's device tree, the place of its binary and the ramdisk are  *)
(* fixed before; they are chosen when the kernel first looks at them.      *)
(***************************************************************************)
EXTENDS DeviceTree, Ramdisk

CONSTANTS PAGE_SIZE, HPAGE_SIZE,
          PGD_SPAN,            \* what an entry of pg_dir covers: 1 GB
          PAGE_OFFSET,         \* the kernel's addresses of physical memory
          RAM_BASE, RAM_LIMIT, \* the window of memory setup_vm maps, 2 GB
          Devices,             \* physical addresses of the device pages it maps
          IMAGE_START, IMAGE_END, \* _start and _end, virtual
          INT_SIZE, MAX_RESERVED_REGIONS, INITRD_RESERVE,
          FrameBuffers,        \* what video_init reserves: at most one region
          Machines             \* [tree, at, size, archive]: tree and its place, ramdisk

ASSUME StartupAssumption ==
    /\ {PAGE_SIZE, HPAGE_SIZE, PGD_SPAN, PAGE_OFFSET, RAM_LIMIT, INT_SIZE} \subseteq Nat \ {0}
    /\ RAM_BASE \in Nat /\ RAM_BASE + RAM_LIMIT <= 4 * PGD_SPAN
    /\ 4 * PGD_SPAN <= PAGE_OFFSET
    /\ HPAGE_SIZE % PAGE_SIZE = 0 /\ PGD_SPAN % HPAGE_SIZE = 0 /\ PAGE_OFFSET % PGD_SPAN = 0
    /\ Devices \subseteq Nat
    /\ IMAGE_START \in Nat /\ IMAGE_END \in Nat /\ IMAGE_START < IMAGE_END
    /\ MAX_RESERVED_REGIONS \in Nat /\ INITRD_RESERVE \in Nat

VARIABLES stage,       \* how far main has come
          machine,     \* [tree, at, size, archive] once it has been looked at
          mapped,      \* pages of virtual addresses that are mapped
          dtb_addr, uart_base, cpio_addr,
          buddy_base_addr, buddy_total_pages,
          reserved_regions,
          frame_array, ref_count

found == <<machine, dtb_addr, uart_base, cpio_addr>>
pool == <<buddy_base_addr, buddy_total_pages>>
arrays == <<frame_array, ref_count>>
startupVars == <<stage, mapped, found, pool, reserved_regions, arrays>>

va(pa) == pa + PAGE_OFFSET
Page(a) == a \div PAGE_SIZE
Pages(a, size) == Page(a)..Page(a + size - 1)
NULL == 0

StartupInit ==
    /\ stage = "off"
    /\ machine = [at |-> NULL]
    /\ mapped = {}
    /\ dtb_addr = NULL /\ uart_base = NULL /\ cpio_addr = NULL
    /\ buddy_base_addr = NULL /\ buddy_total_pages = 0
    /\ reserved_regions = <<>>
    /\ frame_array = NULL /\ ref_count = NULL

switch_off ==
    /\ stage' = "off"
    /\ machine' = [at |-> NULL]
    /\ mapped' = {}
    /\ dtb_addr' = NULL /\ uart_base' = NULL /\ cpio_addr' = NULL
    /\ buddy_base_addr' = NULL /\ buddy_total_pages' = 0
    /\ reserved_regions' = <<>>
    /\ frame_array' = NULL /\ ref_count' = NULL

-----------------------------------------------------------------------------
(* Page tables.                                                            *)

map_pages_4k(a, size) == Pages(a, size)

\* Whole huge pages, from the one of the first byte to the one of the last.
map_pages_2m(a, size) ==
    LET first == HPAGE_SIZE * (a \div HPAGE_SIZE)
        last == HPAGE_SIZE * ((a + size - 1) \div HPAGE_SIZE)
    IN  Pages(first, last - first + HPAGE_SIZE)

\* Memory and devices, at their physical and at their kernel addresses; then
\* a.S goes on at the kernel address of the next instruction and of its stack.
setup_vm ==
    /\ stage = "entry"
    /\ mapped' = (UNION {map_pages_2m(a, RAM_LIMIT) : a \in {RAM_BASE, va(RAM_BASE)}})
                 \cup (UNION {map_pages_4k(a, PAGE_SIZE) : a \in Devices \cup {va(d) : d \in Devices}})
    /\ stage' = "main"
    /\ UNCHANGED <<found, pool, reserved_regions, arrays>>

drop_identity_map ==
    /\ stage = "devices"
    /\ mapped' = mapped \ Pages(0, 4 * PGD_SPAN)
    /\ stage' = "video"
    /\ UNCHANGED <<found, pool, reserved_regions, arrays>>

-----------------------------------------------------------------------------
(* main: the device tree, the console, the ramdisk.                        *)

\* cpio_addr as main leaves it; without the property it stays 0.
InitrdAt(tree) ==
    LET pa == dtb_load_initrd_addr(tree) IN IF pa = NULL THEN NULL ELSE va(pa)

\* /soc/serial, else /soc/uart; __va of neither is not 0 either.
UartAt(tree) ==
    LET serial == dtb_get_reg(tree, <<"soc", "serial">>)
    IN  va(IF serial # 0 THEN serial ELSE dtb_get_reg(tree, <<"soc", "uart">>))

main_devices ==
    /\ stage = "main"
    /\ \E m \in Machines :
         /\ machine' = m
         /\ dtb_addr' = va(m.at)
         /\ uart_base' = UartAt(m.tree)
         /\ cpio_addr' = InitrdAt(m.tree)
    /\ stage' = "devices"
    /\ UNCHANGED <<mapped, pool, reserved_regions, arrays>>

-----------------------------------------------------------------------------
(* What must not be handed out.                                            *)

\* memory_reserve for each of more in turn; it drops what does not fit into
\* its array.
memory_reserve(regions, more) ==
    LET room == MAX_RESERVED_REGIONS - Len(regions)
    IN  regions \o [i \in 1..Min({room, Len(more)}) |->
                      [start |-> more[i].start, end |-> more[i].start + more[i].size]]

\* The frame buffer's address is physical here.
video_init ==
    /\ stage = "video"
    /\ reserved_regions' = memory_reserve(<<>>, SetToSeq(FrameBuffers))
    /\ stage' = "pool"
    /\ UNCHANGED <<mapped, found, pool, arrays>>

\* The default without a /memory node, the limit with one.
ManagedSize(size) == IF size = 0 \/ size > RAM_LIMIT THEN RAM_LIMIT ELSE size

\* buddy_init up to its own arrays: the region, the kernel, the firmware in
\* front of it, the tree, the ramdisk and the tree's reserved nodes.
buddy_init ==
    /\ stage = "pool"
    /\ LET memory == dtb_get_memory_region(machine.tree)
           base == va(IF memory.size = 0 THEN RAM_BASE ELSE memory.start)
           firmware == IF IMAGE_START > base
                         THEN <<[start |-> base, size |-> IMAGE_START - base]>> ELSE <<>>
           initrd == IF cpio_addr # NULL
                       THEN <<[start |-> cpio_addr, size |-> INITRD_RESERVE]>> ELSE <<>>
       IN  /\ buddy_base_addr' = base
           /\ buddy_total_pages' = ManagedSize(memory.size) \div PAGE_SIZE
           /\ reserved_regions' =
                memory_reserve(reserved_regions,
                          <<[start |-> IMAGE_START, size |-> IMAGE_END - IMAGE_START]>>
                          \o firmware
                          \o <<[start |-> dtb_addr, size |-> machine.size]>>
                          \o initrd
                          \o dtb_reserved_regions(machine.tree))
    /\ stage' = "frame_array"
    /\ UNCHANGED <<mapped, found, arrays>>

PagesNeeded(size) == (size + PAGE_SIZE - 1) \div PAGE_SIZE

\* startup_alloc(size): the first place free of reserved regions, going on
\* behind the first region in the list that is in the way; NULL without one.
FirstFit(size) ==
    LET need == PagesNeeded(size)
        place[idx \in Nat] ==
          LET start == buddy_base_addr + idx * PAGE_SIZE
              end == start + need * PAGE_SIZE
              clashes == {i \in DOMAIN reserved_regions :
                            ~(end <= reserved_regions[i].start
                              \/ start >= reserved_regions[i].end)}
              behind == (reserved_regions[Min(clashes)].end - buddy_base_addr
                         + PAGE_SIZE - 1) \div PAGE_SIZE
          IN  IF idx + need > buddy_total_pages THEN NULL
              ELSE IF clashes = {} THEN start
              ELSE place[IF behind > idx THEN behind ELSE idx + 1]
    IN  place[0]

\* startup_alloc reserves what it returns, in whole pages.
AndReserve(start, size) ==
    IF start = NULL THEN reserved_regions
    ELSE memory_reserve(reserved_regions,
                        <<[start |-> start, size |-> PagesNeeded(size) * PAGE_SIZE]>>)

ArraySize == buddy_total_pages * INT_SIZE

alloc_frame_array ==
    /\ stage = "frame_array"
    /\ LET start == FirstFit(ArraySize)
       IN  /\ frame_array' = start
           /\ reserved_regions' = AndReserve(start, ArraySize)
           /\ stage' = IF start = NULL THEN "failed" ELSE "ref_count"
    /\ UNCHANGED <<mapped, found, pool, ref_count>>

\* Flagging the reserved regions and building the free lists change nothing
\* but what Free says; buddy_init is done.
alloc_ref_count ==
    /\ stage = "ref_count"
    /\ LET start == FirstFit(ArraySize)
       IN  /\ ref_count' = start
           /\ reserved_regions' = AndReserve(start, ArraySize)
           /\ stage' = IF start = NULL THEN "failed" ELSE "ready"
    /\ UNCHANGED <<mapped, found, pool, frame_array>>

StartupStep ==
    \/ setup_vm \/ main_devices \/ drop_identity_map \/ video_init
    \/ buddy_init \/ alloc_frame_array \/ alloc_ref_count

\* Mutant: the page a region ends in is not flagged.
EndIdx_Floor(r) == (r.end - buddy_base_addr) \div PAGE_SIZE

\* The first index behind a region.
EndIdx(r) ==
    IF r.end > buddy_base_addr
      THEN (r.end - buddy_base_addr + PAGE_SIZE - 1) \div PAGE_SIZE ELSE 0

StartIdx(r) ==
    IF r.start > buddy_base_addr THEN (r.start - buddy_base_addr) \div PAGE_SIZE ELSE 0

\* The pages of the free lists: those no reserved region flags.
Free ==
    LET flagged == UNION {StartIdx(reserved_regions[i])..EndIdx(reserved_regions[i]) - 1 :
                            i \in DOMAIN reserved_regions}
    IN  {Page(buddy_base_addr) + idx : idx \in 0..buddy_total_pages - 1 \ flagged}

-----------------------------------------------------------------------------
StartupTypeOK ==
    /\ stage \in {"off", "entry", "main", "devices", "video", "pool",
                  "frame_array", "ref_count", "ready", "failed"}
    /\ \A a \in {dtb_addr, uart_base, cpio_addr, buddy_base_addr, buddy_total_pages,
                 frame_array, ref_count} : a \in Nat
    /\ Len(reserved_regions) <= MAX_RESERVED_REGIONS

Looked == stage \notin {"off", "entry", "main"}

\* buddy_init has taken the memory.
PoolIsKnown == stage \in {"frame_array", "ref_count", "ready", "failed"}

\* The places of a property's node, an address or nothing.
Where(path, name) == Lookup(machine.tree, path, name)

(***************************************************************************)
(* What main takes for the console and the ramdisk, and buddy_init for the *)
(* memory, is what the device tree has under these paths, and all that the *)
(* kernel goes on using is mapped when it uses it, before and after the    *)
(* physical addresses go.  It holds for trees in which a node's name and   *)
(* depth tell its path; another node of the same name and depth, earlier   *)
(* in the tree, is taken instead, and a property of a node's child where   *)
(* the node itself has none.                                               *)
(***************************************************************************)
DevicesAreFound ==
    /\ StartupTypeOK
    /\ Looked =>
         LET serial == Where(<<"soc", "serial">>, "reg")
             initrd == Where(<<"chosen">>, "linux,initrd-start")
         IN  /\ uart_base = va(Address(IF serial # <<>> THEN serial
                                       ELSE Where(<<"soc", "uart">>, "reg")))
             /\ cpio_addr = IF initrd = <<>> THEN NULL ELSE va(Address(initrd))
             /\ Page(uart_base) \in mapped
             /\ Pages(dtb_addr, machine.size) \subseteq mapped
             /\ cpio_addr # NULL =>
                  Pages(cpio_addr, ArchiveSize(machine.archive)) \subseteq mapped
    /\ PoolIsKnown =>
         LET memory == Region(Where(<<"memory">>, "reg"))
         IN  <<buddy_base_addr, buddy_total_pages>> =
               IF memory.size = 0 THEN <<va(RAM_BASE), RAM_LIMIT \div PAGE_SIZE>>
               ELSE <<va(memory.start), Min({memory.size, RAM_LIMIT}) \div PAGE_SIZE>>

\* What is in use when the allocator takes over.
InUse ==
    Pages(IMAGE_START, IMAGE_END - IMAGE_START)
    \cup Pages(va(RAM_BASE), IMAGE_START - va(RAM_BASE))
    \cup Pages(dtb_addr, machine.size)
    \cup (IF cpio_addr = NULL THEN {} ELSE Pages(cpio_addr, ArchiveSize(machine.archive)))

(***************************************************************************)
(* Every page on the free lists is memory that is mapped and that nobody   *)
(* uses: not the kernel, the firmware, the device tree, the ramdisk or the *)
(* allocator's own arrays, which were placed before there was an allocator *)
(* and lie apart from all of these and from each other.                    *)
(***************************************************************************)
FreePagesAreUsable ==
    stage = "ready" =>
      LET frames == Pages(frame_array, ArraySize)
          counts == Pages(ref_count, ArraySize)
      IN  /\ Free \subseteq mapped
          /\ Free \cap (InUse \cup frames \cup counts) = {}
          /\ frames \cap (InUse \cup counts) = {}
          /\ counts \cap InUse = {}
          /\ frames \cup counts \subseteq mapped

\* The frame buffer and the children of /reserved-memory are not handed out.
ReservationsHold ==
    stage = "ready" =>
      \A r \in FrameBuffers \cup ReservedNodes(machine.tree) :
        Free \cap Pages(va(r.start), r.size) = {}

(***************************************************************************)
(* Once the kernel runs, ls, cat and exec find every file of the ramdisk   *)
(* at the address the tree gave, each with all of its bytes.  It holds for *)
(* archives that start at a multiple of four: cpio_find aligns addresses,  *)
(* the archive was written with offsets.                                   *)
(***************************************************************************)
FilesAreFound ==
    (Looked /\ cpio_addr # NULL) => FilesAreSound(machine.archive, cpio_addr)
============================================================================
