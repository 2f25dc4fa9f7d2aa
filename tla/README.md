# A TLA+ model of the OSC 2026 kernel

This directory specifies the kernel under `src/kernel` (a small RISC-V kernel
for one hart: threads, user processes with copy-on-write memory, signals, a
timer, an interrupt-driven console, a buddy and a chunk allocator, a shell) and
the boot loader under `src/bootloader` that receives it. TLC checks the modules on small
instances; TLAPS proves most of the safety properties and all the refinements for all
values of the constants.

Line numbers refer to `src/kernel/src/` unless a path is given. `PROJECT.json`
lists, for every definition, the lines it stands for.

## 1. Inventory

| Component | State | Operations | Interacts through |
|---|---|---|---|
| threads (`thread.c`, `thread_switch.S`) | `run_queue` (circular list), `nr_threads`, each `task_struct` (pid, ppid, state, stack, signal fields, next), the `tp` register | create, fork, exec, exit, stop, waitpid, kill, signal, sigreturn, usleep, schedule, idle's reaping | the trap handler, the timer's callbacks, the allocators |
| timer (`timer.c`) | the sorted list of events, `need_resched`, the compare register | add an event, handle the interrupt (run what has expired, re-arm, maybe schedule) | callbacks into threads and the shell's setTimeout |
| deferred tasks (`task.c`) | priority list, `current_priority` | add_task, run_tasks (nested from interrupts) | the trap handler runs them with interrupts enabled |
| system calls (`syscall.c`) | none of its own | dispatch; mmap; console read and write with interrupts enabled | everything |
| traps (`trap.c`, `trap_entry.S`) | sscratch, sstatus, the trap frame | entry, exit, interrupt dispatch, page faults (demand paging, copy-on-write) | signal_check on the way out |
| page allocator (`buddy.c`) | `frame_array`, `ref_count`, free lists, reserved regions | reserve, init, alloc (split), free (coalesce), reference counts | `kmalloc.c`, `vm.c`, `trap.c`, fork |
| chunk allocator (`kmalloc.c`) | free lists of 8 pools, `page_pool_idx` | kmalloc, kfree | takes pages from the page allocator, never returns them |
| virtual memory (`vm.c`) | page tables | map, unmap, walk, free a user space | fork, exec, mmap, faults, reaping |
| console (`uart.c`, `plic.c`) | two rings of 256 bytes, interrupt enable bits | putc (blocks while full), getc (blocks while empty), the interrupt handler | every thread prints; shell and processes read |
| shell (`shell.c`) | a line buffer | line editing; commands that start programs, threads, timers and tasks | threads, timer, tasks, ramdisk |
| boot (`main.c`, `a.S`, `setup_vm` of `vm.c`, `buddy_init` of `buddy.c`) | what is mapped, `dtb_addr`, `uart_base`, `cpio_addr`, `reserved_regions`, the managed region | map memory twice, look up devices, drop the physical addresses, reserve what is in use, place the allocator's arrays | device tree, ramdisk, page allocator |
| device tree (`dtb.c`) | none | look up a property by path; collect the reserved regions | boot |
| ramdisk (`cpio.c`) | none | list, print and find a file | shell, exec |
| boot loader (`src/bootloader`) | `had_relocated`, a line buffer, the bytes received | relocate, edit a line, receive a kernel over the serial line and jump to it | `send_kernel.py`, the kernel's first instruction |
| video (`video.c`), SBI (`sbi.c`), utilities (`utils.c`) | constants after boot | pixels, firmware calls, string helpers | reserved regions |

What makes the system hard: system calls run with interrupts disabled, but
idle, the shell, `foo` threads and the console calls run in the kernel with
interrupts enabled and are preempted between any two critical sections;
`schedule()` switches inside interrupt handlers; task structures are freed by
two different reapers while timer events, waiters and signals may still name
them; the allocators and the rings are shared with interrupt handlers; a page is
shared by processes that fault, fork and exit in any order. Boot is sequential,
but it deals in addresses of two kinds while both are mapped, and finds out what
memory is free before there is anything to allocate with; the boot loader counts
bytes on a line that acknowledges nothing.

## 2. Plan

Modules, in order:

1. `Threads` (with `TameThreads`, `ThreadsProofs`): scheduling and process life
   cycle, implementing the abstract `ProcessLifecycle`. **Done.**
2. `BuddyAllocator` with the abstract `PageAllocator` it implements; `Kmalloc`
   above the abstract one. **Done.**
3. `Uart`: both rings, implementing the abstract `ByteChannel`. **Done.**
4. `DeferredTasks` and `TimerQueue`. **Done.**
5. `VirtualMemory`: page tables, VMAs, copy-on-write and reference counts over
   fork, exec, mmap, faults and reaping, implementing the abstract
   `PrivateMemory`. **Done.**
6. `TrapEntry`: sscratch, SPP, SPIE over nested traps and switches,
   implementing the abstract `OwnHart`. **Done.**
7. `LineEditor`, `Loader`; `DeviceTree`, `Ramdisk`, `Startup`; `Boot`, which
   composes them from power-on to free lists. **Done.**
8. Handler contexts over exec and failure: the fields and the stack are in
   `VirtualMemory`, saved registers are left.

Proved: the safety properties and refinements of every component (the paragraphs
"Proofs" of sections 3 to 9).

## 3. Threads

### What a step is

There is one hart, so the state of the machine changes in steps of the current
task, `current` (the `tp` register). A step reaches from one point where
interrupts are enabled, or where `schedule()` may switch, to the next. `pc[t]`
says where task `t` stands or resumes:

| `pc` | Where the task is | Interrupts |
|---|---|---|
| `user` | in U-mode; may make any call in `Calls`, or be interrupted | enabled |
| `ret` | in the kernel, about to run `signal_check` and return to U-mode | disabled |
| `uart` | in `uart_read` or `uart_write` | enabled |
| `prompt`, `exec_return` | the shell; after it has created a program's task, before it reads the task's pid (`thread.c:378-380`) | enabled |
| `tt_read`, `tt_create`, `tt_yield` | its `testThread` command before and after reading `nr_threads` | enabled |
| `wp_read`, `wp_scan`, `wp_yield` | `do_waitpid`: before it reads `run_queue`, before its critical section, before `schedule()` | enabled for the shell only |
| `kz`, `kz_free`, `yield` | idle: before the critical section of `kill_zombies`, before it frees its victim, before `schedule()` | enabled |
| `foo` | a thread of `testThread` | enabled |
| `raw` | a child whose fork failed before it got a context | - |
| `gone` | a terminated thread | - |

`run_queue` is a sequence: element 1 is `*run_queue`, element i+1 is `->next` of
element i. `heap` is the set of allocated task structures (with their kernel
stack), so a freed address can be handed out again with a new pid, as `kmalloc`
does. `timers` is the list of pending `wakeup_callback` events by order of
expiry; the clock is abstracted: an event is inserted anywhere, and an interrupt
finds any prefix expired. Each event keeps, besides the task's address, the pid
that added it (`by`), which only properties read.

`ProcessLifecycle` is what a user of the kernel is promised, told by process
numbers alone: a number is unused, ready, asleep, dead or collected and moves
along that line only (with sleep and wakeup between the middle two); numbers are
given out in order; one who exits makes its children idle's; whoever has the CPU
after a step is ready; idle collects only what is its own. It knows no
`task_struct`, queue, event or signal. `TameThreads` maps to it: a
number from `nr_threads` on is unused, one that a queued task bears has that
task's state, any other is collected. What it does not say of waitpid is what
the code does not check: any process may collect any dead one by its number
(`thread.c:513`).

Left out of this module: page tables and VMAs (section 7; a fault appears here as
the end of a process), trap frames (section 8), `exec` (it changes only those), and the content of
console traffic. The end of a half-built child (`raw`) is summarised: it starts
at address 0 in S-mode, faults there until the page allocator is empty and is
then terminated (`VirtualMemory` has these faults).

`user_program_execute` returns `task->pid` after its critical section. By then
others may have ended and collected the task, so the number is that of whatever
is in its `task_struct`, or any number once that is freed.

### Rules programs are assumed to keep

`Protected` holds the pids no program stops or kills: pid 0 in every run. The
kernel does not check this: killing idle leaves nothing to schedule. The set
`Calls` says which calls programs make in an instance. `"selfkill"` and
`"unsignal"` (killing oneself with `kill`, taking back a handler) are left out
of `TameThreads`, whose `ASSUME TamePrograms` states all three rules: a process
that kills itself keeps running as a zombie (section 10), and if it
then waits for itself it frees the stack it stands on.

### Runs

| Run | Instance | Shows |
|---|---|---|
| `kill` | 2 task structures for processes, 4 pids, 1 signal, 2 timer events; fork, exec, exit, waitpid, console calls, stop, kill, signal, usleep | unique pids, waitpid walks the whole queue, no lost wakeup, no zombie revived; the inductive invariant, of which the type invariant is a conjunct; the kernel implements `ProcessLifecycle` |
| `misuse` | 2 task structures; failed forks and timer events, testThread, self-kill, unregistering | idle's reaping stays safe even then |
| `live` | 2 task structures; exec, fork, exit, waitpid | every zombie has a reaper, every runnable thread runs, orphans are freed, waitpid returns |

Bounds: `MaxPid` ends thread creation (pids are never reused, so it bounds the
length of a history), `MaxTimers` bounds pending events, `FooThreads` the threads
of testThread (3 in the code). Two processes beside idle and the shell are
enough for every pair of actors the code lets meet (parent and child, killer
and target, two reapers, old and new owner of an address, and, with the shell
as parent, grandchildren and siblings). In the runs without liveness
the task structures of processes are interchangeable (symmetry).

### Fairness

`FairSpec` assumes strong fairness of each task's own kernel steps and of the
timer interrupt. Both come from the preemption timer: `preempt_callback` re-arms
itself 32 times a second, so a kernel loop that is enabled whenever its task has
the CPU is executed within its slices, and a timer interrupt is taken as soon as
interrupts are enabled. Nothing is assumed about programs: a process may compute
or call the kernel forever, never exit and never wait. Strong, not weak,
fairness is needed because a task's step is enabled only while it has the CPU.

### Proofs

`ThreadsProofs` proves, for every number of task structures, pids, signals and
timer events, and every set of calls that keeps the rules above:

| Theorem | States |
|---|---|
| `Invariance` | the inductive invariant `InductiveInv` |
| `TypeCorrect` | `TypeOK` |
| `RunningIsQueued` | the running thread is queued and allocated |
| `VictimIsSafe` | idle's victim is out of reach of everybody else |
| `RunningIsRunnable` | `schedule()` never leaves the CPU to a thread that is not RUNNING |
| `WaitpidSeesAll` | the head `do_waitpid` reads unprotected is still the head when it walks |
| `DeadIsDead` | no step revives a terminated thread |
| `NumbersAreUnique` | no two queued threads share a pid; if programs of the instance fork, `testThread` is not run |
| `NoWakeupIsLost` | every sleeper has an event of its own pending; no allocation of an event fails |
| `ZombiesHaveReapers` | every zombie is an orphan or has a living parent; nobody is stopped or killed |
| `LifecycleIsKept` | `Threads` implements `ProcessLifecycle`; under the condition of `NumbersAreUnique` |

Why an inductive invariant: each of these needs the others. That waitpid never
frees the running thread rests on the running thread not being a zombie
(`RunInv`), which rests on the walk of `schedule()` finding a runnable thread,
which rests on idle being queued and RUNNING (`QueueInv`, `IdleInv`): idle is the
head of the queue, never a zombie, and so never dequeued. That idle's victim is
not freed twice rests on `heap` being exactly the queue and the victim
(`QueueInv`), which in turn needs the queue to be free of repetitions, so that
taking a task out removes it for good. The stale head in `do_waitpid` is harmless
because the head is always idle (`WaitInv`). `TypeStep` and `RestStep` have one
case per action; `EnqueueFresh`, `DequeueOther` and `ScheduleFindsRunnable` are
the facts about the list operations they use, and `SequenceLemmas` holds those
about inserting into and removing from sequences.

The last four theorems hold under a condition on `Calls`, stated in each;
section 10 has the counterexample of a race and of a stop where the condition on
pids and on reapers is broken. Their arguments:

- Pids (`PidInv`): every number in the queue is below `nr_threads`. Only the
  shell, pid 1, runs `testThread`, and what it has read of `nr_threads` is still
  the next number when it creates its thread, because nobody else creates one.
- Sleepers: an event survives the insertion of others and the removal of those
  that have expired; a sleeper whose event expires is woken by it. An event
  names the pid that added it, so the events of dead threads, whose
  `task_struct`s have been handed out again, do not count.
- Reapers (`ParentInv`): every queued thread, not only a zombie, is an orphan or
  has a living parent. `thread_exit` makes its children orphans before it dies;
  waitpid and idle take only zombies out of the queue.
- Life cycle (`LifeInv`): the two invariants together, so that a number names one
  queued task. `MapFacts` reads the abstract state off the queue; then there is
  one lemma per abstract action (`CreateMaps`, `ExitMaps`, `StopMaps`,
  `KillMaps`, `SleepMaps`, `CollectMaps`, and `SwitchMaps` for all steps that at most
  wake sleepers and schedule), and `LifeStep` assigns every step of the kernel to one. That
  the one on the CPU is ready is `RunInv` after the step (`Dispatches`); that idle
  is never ended, that no killer kills itself and that no pending signal ends a process
  are the rules above.

Only model-checked: all liveness (fairness and ENABLED are out of TLAPS's reach).

## 4. Memory: PageAllocator, BuddyAllocator, Kmalloc

`PageAllocator` is what callers may rely on: a request gets an aligned block of
the smallest power of two of pages that holds it, disjoint from all blocks in
use and from `Reserved`; it fails only if no such block is free; a block is
given back with its last reference. `BuddyAllocator` is `buddy.c`:
`frame_array`, `ref_count` and a free list per order, in list order; page
numbers stand for addresses. `held` and `ret` record what callers hold and were
given; they are the refinement mapping of `KeepsPromise`. `Init` is the state
after `buddy_init`; `Reserved` stands for the pages it flagged, which `Startup`
(section 9) works out.
`MaxRefs` bounds references per block.

`Kmalloc` is `kmalloc.c` above an INSTANCE of `PageAllocator`, whose actions its
own actions include, so that it is checked for every placement the page
allocator may choose, not only buddy.c's. An address counts units, `PAGE_SIZE`
of them to a page. `alloc_page` and `free_page` are the other users of pages.
Callers free what they got, once.

| Run | Instance | Shows |
|---|---|---|
| `buddy` | 7 pages (so that the last block is cut off), orders 0-3, page 5 reserved, 2 references | no page is leaked or in two places; the promise is kept (a request fails only when no block fits, so freed buddies must have been merged) |
| `kmalloc` | 3 usable pages of 4 units, chunks of 1 and 2, requests of 1, 2, 3 and 7 units, 4 objects | objects are disjoint and inside their own pages; chunks and blocks are conserved |

The instances have a request at each boundary (a pool's size, one more than the
last pool, a page and a part). Seven pages contain every relation of blocks of
three orders to a buddy: free, allocated, split, reserved, beyond the end.

### Proofs

`KmallocProofs` proves, for every number of pages and of units to a page, all
pools and requests, whatever blocks the page allocator chooses:

| Theorem | States |
|---|---|
| `ObjectsAreAlwaysSound` | objects overlap neither each other nor pages of `alloc_page`'s callers, and lie in blocks the page allocator gave |
| `ChunksAreAlwaysConserved` | a chunk of a pool's page is free exactly once, in that pool, or an object |
| `NoBlockIsEverLost` | a block given out is a pool's page, a large object or a caller's page |

`kfree` is given an address alone and finds the pool through `page_pool_idx`. The
inductive invariant says why that works: a page whose entry names a pool is a
block of one page that is never given back (`OnePageBlocks`); an object is a chunk
of such a page or the beginning of a block of its own (`ObjectsInPlace`); what
is on a pool's list is a chunk of one of the pool's pages and nobody's object
(`FreeInPlace`); the chunks of a pool's page are all on the list or objects
(`ChunksKept`). Objects are then disjoint because blocks are, and because the
chunks of a page lie side by side. The provers do not know `^`: `PowersAssumption`
states what they need of it (`2^0 = 1`, powers are positive), and TLC evaluates it.

`BuddyAllocatorProofs` proves, for every number of pages, largest order, set of
reserved pages and bound on references:

| Theorem | States |
|---|---|
| `PagesHaveOnePlace` | every page is reserved, in one block a caller holds or in one free block, and in no two of them |
| `KeepsThePromise` | `BuddyAllocator` implements `PageAllocator` |

The first part is arithmetic: blocks are aligned (`Aligned`), two of them are nested
or apart (`BlocksNest`), a block and its buddy are the two halves of the next
larger block (`BuddyFacts`), `Base` follows `cur_idx` through the loop of
`buddy_free` (`MergedBlock`), and what `buddy_alloc` puts back are the halves it did
not go into (`SplitBlock`). The inductive invariant `IInv` says how the three
records of a page agree: a list has each of its blocks once, with the list's order
in `frame_array` (`ListsOK`); a page with an order in `frame_array` is on that
list, and its block has only `FRAME_FREE_PART` behind it (`HeadsOK`); a page so
marked is behind a free block's first (`PartsOK`); the pages of a block in use
have its tag and, the first one, its holder's count (`HeldOK`, `TagsOK`); and no
two free blocks of one order below the largest are buddies (`BuddiesOK`). The last
is what the refinement needs: a request fails only if all blocks are too small,
and a free part of memory that is an aligned block must then be one block,
because its two halves would have been merged. Induction over the orders is done with
the least counterexample (`LeastNumber`). `InitialTiles` shows that the walk of
`buddy_init` covers the free pages with blocks that lie side by side.
`PowersAssumption` again states what is needed of powers of two.

## 5. Console: ByteChannel, Uart

`ByteChannel` is a bounded queue with producers and consumers; a lossy one drops
what arrives while it is full. `Uart` implements it twice (`TxIsChannel`,
`RxIsChannel`). A step is a critical section of `uart.c` or a test outside of
one. `holder` is the writer inside `uart_puts`, which disables interrupts for
the whole string, except in the window of `uart_putc` while the ring is full.
Before `uart_intr_enable` the boot code polls. The device is external: it takes
a byte when the holding register is empty and presents one received byte at a
time. `\n` becomes `\r\n` (`Expanded`); the conversion of `uart_getc` and number
formatting are left out.

| Run | Instance | Shows |
|---|---|---|
| `console` | 1 writer, 1 reader, rings of 3 slots, strings with a line feed | no byte lost, repeated or reordered, over full rings and the change to interrupts; no byte queued with the interrupt off; writers and readers return |

`MaxOffered` bounds the bytes under way, by delaying new calls; it is above a
ring and a string, so it never stops a writer that is inside a call.
A ring of three slots holds two bytes: empty, wrapped and full states all occur.
Fairness: steps of threads inside the driver and the interrupt are strongly fair
(the preemption timer gives each thread the CPU again and again with interrupts
enabled), the line keeps sending. Nothing is assumed of input or of new calls.

### Proofs

`InterruptProofs` has the theorems of this section and the next. It proves, for
every number of threads, ring size and set of strings
and input:

| Theorem | States |
|---|---|
| `QueuedIsDriven` | while there are bytes on the transmit ring, its interrupt is enabled |
| `OneWriterHasAChannel` | with one writer, the transmit side implements `ByteChannel` |
| `OneReaderHasAChannel` | with one reader, the receive side implements `ByteChannel` |

The content of a ring is a sequence defined by the two indices (`Contents`); the
lemmas `RingIsFull`, `RingPut`, `RingIsEmpty` and `RingGet` say what the driver's
arithmetic modulo the size does to it. The refinements need that what a thread
computed or saw before a window is still true after it: the slot a waiting writer
chose is the next one (`SlotKept`), the byte a reader saw is still there
(`SeenIsThere`). Each holds because nobody else moves that index, so with two
writers or two readers each fails (section 10). `WritersReturn` and
`ReadersReturn` are liveness and only model-checked.

## 6. Deferred tasks and timers

`DeferredTasks`: each interrupt ends in `run_tasks`, so a thread has a stack of
calls (`calls`), each at the loop's head with interrupts disabled or in a task
with interrupts enabled; `testTask`'s direct call has them enabled at the loop's
head too. `interrupt(next)` covers interrupts that do not switch (`next` is the
current thread) and those whose `schedule()` does. `Outlasts` says whether a
task may still run when its thread's time slice ends. The results differ:
without it (`tasks`) `current_priority` is right and every task runs; with it
(`stuck_priority`) a priority stays behind. Fairness: interrupts
keep coming for each thread and leave time for tasks to return.

`TimerQueue`: times are kept relative to now and end at 0, which loses nothing
because a new event never expires before one that already has. A callback that
prints may open a window, so the handler has several activations; which of them
resumes first is left open, as they may stand on different threads' stacks.
Straight code of the handler takes less than the unit of time (`Tick` needs
interrupts enabled). Fairness: time passes, activations are carried through.

| Run | Instance | Shows |
|---|---|---|
| `tasks` | 2 threads, testTask's batch, up to 6 tasks and 4 nested calls | see above |
| `timers` | 3 events, delays of 1 and 3 around a period of 2, 2 activations; kmalloc may fail for any event but the preemption's | sorted list; the compare register covers the head; every event fires, preemption goes on |

### Proofs

`InterruptProofs` proves `ListIsSorted` and `NothingSleptThrough` for every number of
events, set of delays, period and number of nested activations. The invariant
needs both together with the bound on the list: an insertion keeps the list
sorted only if it was; the register covers the head because whatever changes the
head is followed by re-arming before the handler returns, or is an insertion that
re-arms itself.

It proves `PriorityIsRight` and `MostUrgentFirst` for every number of threads, batch and depth of nesting, if no task outlasts its thread's slice
(`~Outlasts`; the run `stuck_priority` shows the rest). `current_priority` is a
variable of its own that a task restores when it returns, so the proof is about
every `prev_priority` on the stack: each is the priority of the most urgent task
below it (`Saved`), and no other thread has a task in the middle (`Nested`).
`MostUrgentFirst` adds that the list is sorted.

Only model-checked: that every event fires, that slices end, that every task runs.

## 7. Memory of processes: PrivateMemory, VirtualMemory

`PrivateMemory` is what a program believes: pages of its own, each with a value
that only its own stores change; exec gives it a fresh image, fork gives the
child a copy. `VirtualMemory` is how the kernel keeps that belief up with few
frames:

| Variable | In the code |
|---|---|
| `status` | `task_struct.state`, reduced to free slot, live, zombie; `half_built`, a failed fork's child, runnable with `ra = 0` |
| `vma_list` | `task_struct.vma_list`, in list order (the fault handler takes the first area that covers the address) |
| `tables`, `pte` | the tables below `pgd`; per page its frame and PTE permissions |
| `ref_count`, `content` | `buddy.c`'s count per page; what a frame holds |
| `signal_stack`, `is_handling_signal` | the fields of that name |
| `faulting` | the fault handler's page between taking it and mapping it, where it prints and may lose the CPU (`trap.c:230`) |

A step is a critical section of the kernel or one store. `do_fork` shares every
frame and clears the write permission on both sides; the fault handler is
`copy_on_write`, `demand_page` with `demand_page_maps`, or `fault_kills`;
`free_user_space` gives pages back one by one, since idle does so with interrupts
enabled while others fault, fork and exit. `IsPrivateMemory` is the refinement: a
page reads as its frame's content, or as what its area will fill it with.

A fork that finds no page for a table (`Before` says which entries it has copied by
then) returns and leaves its child in the run queue with `ra = 0`
(`thread.c:186`, `425`, `437`), here `half_built`. The child fetches from address 0
in kernel mode, which may not execute a program's pages: it faults, the handler
finds the code's area at 0, fills a page and maps it over what is mapped there
(`trap.c:193-244`), and the child faults again, until there is no page and it
is terminated, or another process stops it. Each round but the first loses a page,
and the first loses the reference to the frame it shared with its parent, if it
got that far. So counts do not equal users, and `FramesAreCounted` says
what is left of that:

- `NoneTooFew`: no frame ever has fewer references than users, entries and pending
  faults. A frame is not given back while it is used, and copy-on-write can trust a
  count of one.
- `LostToHalfBuilt`: a reference nobody will give back appears only where a
  half-built child maps over a page, one at a time. Without a failed fork, counts
  and users are equal.

Where start, exec or fork asks for an area's memory and finds none, it goes on
without the area (`Given`, with `AreasRunOut = TRUE`); `do_mmap_populate` fails for want
of a page or of the area, with the pages it has mapped left behind.

Rules for programs (`Unruly = {}`; each rule broken is a counterexample of
section 10): no fork and no exec inside a signal handler, no other mmap in
a process in which one has failed and left pages without an area (`Stray`), no
stop of a process that prints in a fault. `NoneTooFew` alone also holds with
all of these broken but exec in a handler. Beyond the rules, a guard states that mmap
stays below the signal stack's page, which the kernel does not check.

Memory is taken to be available for areas at start, exec and fork
(`AreasRunOut = FALSE`; section 10 drops it), for the task and its stack, for `pgd`, for tables outside
of fork and for a handler's stack: of the last ones the code does not test for failure.
A half-built child without an area at 0 makes the kernel halt, and is here one
that stays as it is.

| Run | Instance | Shows |
|---|---|---|
| `memory` | 2 processes, 3 frames, 6 pages (code, gap, 2 for mmap, signal stack, stack), tables of 2 entries, forks that fail at any table, mmap of one or two pages with and without `MAP_POPULATE` | no frame has fewer references than users and none is lost but to a half-built child; an access the areas allow never ends a process while there is memory; each process has memory of its own |

Why these bounds: copy-on-write goes wrong between two sharers, one of which
faults, forks or ends; a third frame lets both have a private copy beside
a shared page, and running out of frames happens often. Slots are used again, so a
process can fork repeatedly, its children among them. `MaxRefs` = 3 ends only forks of a
process one of whose frames has lost two references already: lost references never come
back, and a third is like the second. Processes and frames are
interchangeable (symmetry; all properties here are safety properties), and the view
`LaterSteps` takes states for one that differ only in what no later step reads.

### Proofs

`VirtualMemoryProofs` proves, for every number of processes, frames, pages and
sizes of tables, with failing forks and mmaps, for programs that keep the rules
(`Unruly = {}`) and with memory for areas (`AreasRunOut = FALSE`):

| Theorem | States |
|---|---|
| `CountsAreRight` | `FramesAreCounted`: a frame has as many references as entries and pending faults name it, and one more for every time a half-built child mapped over it |
| `AllowedAreServed` | an access the areas allow never ends a process; no area is writable and not readable (`ProtsAreReadable`) |
| `MemoryIsPrivate` | `VirtualMemory` implements `PrivateMemory` |

The counts are not inductive alone: that an exit gives back what it should rests
on what the tables hold. `Layout` says of each process that areas are disjoint and
leave out the handler's stack; that what is mapped lies in an area and has its
rights, but perhaps for the right to write; that a handler has its stack; that a
pending fault has a page in an area and nothing mapped there; that a free slot
has nothing mapped. The step lemmas count: a count changes by what the entry that
changes contributes (`OneEntryChanges`, `OneRowChanges`, `OneFaultChanges`).
`MemoryIsPrivate` uses the counts: a frame with one reference has one entry, so a
store through it is seen by nobody else. A reference too many does no harm: it costs
a copy.

## 8. Into and out of the kernel: OwnHart, TrapEntry

`OwnHart` gives every thread a hart: a stack of activities (the program or the
kernel thread, the handler of its trap, the handler of an interrupt in a window of
that one) of which the innermost moves and the others wait unchanged.
`TrapEntry` is the one hart there is. `cpu` holds the registers that decide
where control goes (mode, `SIE`, `SPP`, `SPIE`, `sepc`, `sscratch`, `sp`, `pc`,
`tp`) and one, `reg`, for all the others; `stack[t]` the trap frames on a kernel
stack; `thread[t]` and `local[t]` what `switch_to` and `schedule` keep. Entry is
one step, since nothing can interrupt it; the way out is three
(`trap_handler_returns`, `_ret_from_fork`, `ret_regs`) and the first entry of
a program two (`user_program_start`, `enter_user_mode`), so that an interrupt
there would be seen if interrupts were on. `csr_sie` is every window: of
`uart_putc`, of `run_tasks`, of the console calls, of a kernel thread's own
code. Thread switches do not change the mapped activities (`Acts`): that they
are invisible to threads is what `IsOwnHart` says.

`SscratchTellsMode` is what `trap_entry`'s first two instructions rest on. The
comment at `trap_entry.S:10` calls a trap with `sscratch` zero unexpected and
says it halts the kernel; the code below it (`.Lfrom_kernel`) serves it, as the
timer and the console need.

Programs are taken to leave `tp` alone: the kernel trusts it on entry. Which
thread `schedule` picks, and when tasks are freed, is `Threads`'s business. Not
modelled: `satp`, `SUM`, faults of the kernel itself (they halt), depth of C calls on
the kernel stack, signal contexts.

| Run | Instance | Shows |
|---|---|---|
| `traps` | idle and 2 processes, up to 2 frames on a stack, 2 register values | `sscratch` names the right stack at every trap; what is interrupted goes on unchanged; children start as copies |

`MaxFrames` is 2: a trap and one nested in its window. A deeper one meets the
same situation, a trap from S-mode with `sscratch` zero. The configuration's
VIEW identifies states that differ only in registers and saved contexts that
are written before they are read again.

### Proofs

`TrapEntryProofs` proves, for every number of threads, register values and depth of
nesting, `TrapFindsItsStack` (`SscratchTellsMode`) and `EveryThreadHasTheHart`
(the refinement). The invariant describes every thread's kernel stack: the first
frame may be a program's, all others are the kernel's own, taken where interrupts
were enabled, with the stack as deep as the frames below (`FrameOK`); a thread
that waits for the CPU has its context and local variables in order
(`ContextOK`); the thread that has it is in a program with an empty stack
and `sscratch` at its top (`UserOK`), or in the kernel with `sscratch` zero but for
the last step of the first entry of a program (`KernelOK`). In `ret_regs`,
where the registers are loaded, `spp`, `spie` and `sepc` are still those of the
frame, because interrupts are disabled.

## 9. From power-on to free pages: Boot

| Module | Models | State |
|---|---|---|
| `LineEditor` | `put_char` and `parse` of both shells | `buffer`, `buf_len`; `screen` and `prompt`, what the terminal shows; `ran`, the last command |
| `Loader` | `src/bootloader`: `a.S`, `main.c`, `shell.c`, `uart.c`, and `send_kernel.py` | `pc`; `home`, the image that runs; `had_relocated`, one per image, because copying the loader copies its variable; `rx`, `header`, `got`, `file`: the bytes on the line, read, stored and sent |
| `DeviceTree` | the scans of `dtb.c`, and `Lookup`, what a path means | none |
| `Ramdisk` | the walks of `cpio_ls`, `cpio_cat`, `cpio_find`, and where an archive's writer puts its entries | none |
| `Startup` | `_start`, `setup_vm`, `main`, `drop_identity_map`, `video_init`, `buddy_init` | `stage`; `mapped`, the pages of virtual addresses with a translation; `dtb_addr`, `uart_base`, `cpio_addr`; `reserved_regions`; the region, `frame_array`, `ref_count` |
| `Boot` | the jump from one to the other, and power cycles | - |

Loader steps handle one byte or one decision; the user (`types`) and the host
(`send_kernel`) put bytes on the line when it is empty, so that the order of
bytes is the order of events. Startup's steps are the calls of `main` in their
order. The machine (its device tree, where that lies, its ramdisk) is chosen
from `Machines` when `main` first looks at it.

The two scans keep only a depth and whether they are in a matching node. `Lookup`
keeps the names around every token, and `DevicesAreFound` compares what
`main` and `buddy_init` end up with (console, ramdisk, the managed memory) to that. Likewise `cpio_ls` and `cpio_cat` align what they
add to a pointer and `cpio_find` aligns the pointer; `FilesAreFound` compares all
three to the archive's layout.

| Run | Instance | Shows |
|---|---|---|
| `boot` | lines of up to 4 characters with both ways to delete, enter and a character the editor drops; a bad header; kernels of 3 and 5 bytes, carriage returns among them; device trees in two orders with a serial or a uart, other nodes of the same names, the ramdisk's address in one cell, two or none, `/memory` in two forms, one of which begins behind the start of RAM, too large or missing, reserved children or none; a device tree that begins in the page behind the kernel's last one or further on; two ramdisks; one frame buffer | the loader jumps to the whole kernel and never writes over itself; the command that runs is the one on the screen; the kernel's devices, memory and files are the tree's and stay mapped when the physical addresses go; free pages are mapped and in nobody's use, the allocator's own arrays lie apart; a kernel that was sent runs |

Bounds. The proportions are those of QEMU's machine with pages of 8 bytes and
huge pages of two; `RAM_LIMIT` is 24 pages, so that regions that begin and end
inside pages, in the middle, at the edges and beyond occur, and `startup_alloc`
has to step over several of them. `MaxLine` is `BUFFER_SIZE`: it includes the
full buffer, which `put_char` refuses to run. Two power cycles in a row do not
differ from one: nothing survives.

Fairness. `WF_vars(Processor)`: there is one thread of control, interrupts are
off, and it goes on unless it polls an empty line. Nothing is assumed of the
user and the host: `SentKernelRuns` starts where all of a file is on the line.

Preconditions, each of which section 10 drops: lines no longer than the buffer,
sizes without a byte 13, hosts that do not stop in the middle, nothing typed between
`load` and the start of the transfer that `load` would take for the header's first
bytes (`TypesAhead = FALSE`), trees in which
name and depth tell a node's path, room for every reserved region, ramdisks no
larger than `INITRD_RESERVE`. Two more are stated with the properties: an
archive starts at a multiple of four, and a node whose property is looked up has
it itself, not its child alone.

### Proofs

`BootProofs` proves, for every layout of memory, buffer, prompt, set of kernels and
way of typing, of the whole of `Boot`:

| Theorem | Condition | States |
|---|---|---|
| `LoaderInvariance` | `~TypesAhead` | the loader's state is well formed, it runs from its copy once it is past its start (`Stages`), and what is on the line fits its place in the work (`OnTheWay`) |
| `CommandIsTheOneShown` | `Legible`: no NUL is typed, no line is longer than the buffer, `~TypesAhead` | `RunsWhatIsShown` |
| `LoadedKernelIsWhole` | `Orderly`: files fit in front of the copy, their sizes fit into the header and have no byte 13, hosts finish what they send, users do not type the magic number while `load` waits, nor anything right before a file (`~TypesAhead`) | `KernelIsWhole` |
| `StartInvariance` | `Supported`, of every machine: its memory begins at a page and lies in the window, its ramdisk is no longer than `INITRD_RESERVE`, all regions to be kept fit into `reserved_regions` | what every stage of the start relies on (`StartInv`) |
| `FreeListsAreSafe` | `Supported` | `FreePagesAreUsable` |
| `FilesAreReadable` | `Readable`: the ramdisk is files and a trailer, at a multiple of four | `FilesAreFound` |
| `DevicesAreKnown` | `Supported` and `Described`: every tree is one (`IsTree`: nodes closed as often as opened, one `FDT_END`, at the end), tells of `/soc/serial`, `/soc/uart`, `/chosen` and `/memory` (`Told`: a property the scan would take has one of the path itself at or in front of it) and gives no address 0; console on a device page, tree and ramdisk in the window | `DevicesAreFound` |

`MCBoot.cfg` satisfies all conditions, and section 10 shows what happens without
them. For `CommandIsTheOneShown`, screen and buffer agree as far as the line goes
(`Shown`), although the buffer keeps deleted characters behind it; that a
character finds room in the buffer follows from `OnTheWay`, which remembers that it
was typed within the line. For `LoadedKernelIsWhole`, `Delivery` says where the file is: while
the header is read, header and line together are what the host sent
(`HeaderArrives`: none of those eight bytes is changed on the way), unless the user
has typed, and then the magic number is not among it (`MagicIsSent`); after it,
what is stored and what is on the line together are the file. `SizeIsRead` is the
arithmetic of the header's four bytes.

`FreeListsAreSafe` needs of each region that it is still on the list when the free
lists are built, so `StartInv` counts the places left in `reserved_regions` stage by
stage (`AllAreAdded`: what fits is kept). `FirstFitIsFree` says what `startup_alloc`
finds: pages of the pool clear of every region on the list, so the first array is
apart from all that `buddy_init` reserved, and the second from the first as well.
`FreeIsUnreserved` carries a region's bytes over to the pages `buddy_init` flags,
rounding down in front and up behind, and `WindowIsMapped` the pool's pages to the
huge pages of `setup_vm`. `FilesAreReadable` rests on `Entries`: going from header to
header, each of the three walks, with its own way to align, stops at exactly the
places the writer chose.

`DevicesAreKnown` is about what a depth can stand for. `MatchedIn` says what
`dtb_getprop` knows at a token, from the names of the nodes open there: nothing but
that one of them, at the path's depth, has the path's last name. `Enters` and
`Leaves` show that its two counters keep exactly that, `PlacesFollow` that
they do over all tokens of a tree; so the scan returns the first property
in such a node (`SearchFinds`), which under `Told` is the path's (`PropertyIsFound`).
What is found is mapped: `AboveIdentity` keeps the kernel's addresses apart from
all that `drop_identity_map` takes. Without `Told` the theorem would be false:
`Machines <- Decoys` in section 10.

The walks, the scans and `startup_alloc` are recursive functions, on all natural
numbers or on all a loop may keep. That such a function has the value its equation
says is `FoldOverExists` in `SequenceLemmas`: it has one if each place refers only to
places of a higher rank and from some rank on none refers to another. Its proof, like that of `ScanStops`, `WalkFinds` and
`NamesAreListed`, goes through the least counterexample (`Upward`, `Downward`).

Only model-checked: `SentKernelRuns` (liveness).

## 10. Further counterexamples

Configurations kept beside the regular runs; each checks one property, which
TLC finds violated.

| Configuration | Property | What the trace shows |
|---|---|---|
| `MCThreads_half_built` | `OnlyCompleteThreadsRun` | a fork without memory (`thread.c:425`) leaves its child queued without a context; the scheduler runs it at address 0 |
| `MCThreads_unreaped` | `ZombieHasReaper` | `do_stop` (`thread.c:561`) hands over no children, unlike `thread_exit`: a child of a stopped parent becomes a zombie nobody frees |
| `MCThreads_self_kill` | `ZombiesStayDead` | a process that kills itself (`thread.c:629`) returns to U-mode as a zombie; its `usleep` makes it a sleeper, the timer a running thread |
| `MCThreads_pid_race` | `WaitpidCollectsTheChild` | `nr_threads++` (`thread.c:180`) with interrupts enabled in `testThread`: two tasks share a pid and waitpid frees the wrong one |
| `MCThreads_stale_timer` | `WokenByOwnTimer` | an event of a stopped sleeper keeps its `task_struct` address (`thread.c:602`); handed out again, the new process is woken early |
| `MCUart_two_writers` | `TxIsChannel` | `uart_putc` computes `next_head` (`uart.c:109`) before it waits with interrupts enabled: a second writer's byte is lost |
| `MCUart_two_readers` | `RxIsChannel` | `uart_getc_raw` (`uart.c:133`) tests for data with interrupts enabled: two threads that see one byte both take it |
| `MCTimerQueue_lost_slice` | `SliceEndsInSchedule` | a nested `core_timer_handler` clears the `need_resched` the outer one has set (`timer.c:108`) |

The following are a configuration with a line or two changed and the property
alone:

| Configuration | Change | Property | What the trace shows |
|---|---|---|---|
| `MCDeferredTasks_nested` | `SPECIFICATION TasksSpec` | `BatchInOrder` | an interrupt between `testTask`'s `add_task` calls (`shell.c:323`) runs the least urgent task first |
| `MCTimerQueue_nested` | `Unlucky = {"preempt"}` | `SlicesEnd` | `preempt_callback` cannot add its next event without memory (`timer.c:89`): preemption ends for good |
| `MCVirtualMemory` | `Unruly = {"fork in handler"}` | `AllowedAccessesSucceed` | fork write-protects the handler's stack too (`thread.c:445`); it has no area (`thread.c:715`), so the next store ends the process |
| `MCVirtualMemory` | `Prots <- WriteOnly` | `AllowedAccessesSucceed` | an area with only `PROT_WRITE` cannot be read before its first store (`trap.c:193`), though its pages can afterwards |
| `MCVirtualMemory` | `Unruly = {"stop in fault"}` | `FramesAreCounted` | a process stopped while the fault handler prints (`trap.c:230`) never maps or returns the page it took |
| `MCVirtualMemory` | `Unruly = {"mmap after failure"}` | `FramesAreCounted` | mmap that runs out of memory (`syscall.c:52`) leaves pages mapped without an area; the next mmap maps over them and their frames are lost |
| `MCVirtualMemory` | `Unruly = {"exec in handler"}` | `FramesAreCounted` | exec inside a handler (`thread.c:249`) gives the handler's stack back with everything else and keeps `is_handling_signal`: sigreturn gives the page back again |
| `MCVirtualMemory` | `AreasRunOut = TRUE` | `IsPrivateMemory` | a program starts without its stack or code area (`thread.c:352`, `366`; the same in exec and fork): what should be there is not |

And these are `MCBoot.cfg`, changed in the same way:

| Change | Property | What the trace shows |
|---|---|---|
| `Kernels <- CrKernels` | `KernelIsWhole` | the header goes through `uart_getc` (bootloader `shell.c:81`), which makes a size's 13 a 10: the loader jumps before the kernel is complete |
| `GivesUpAfter <- MCGivesUp` | `KernelIsWhole` | a host stopped in the middle and started again: its second header becomes part of the kernel |
| `TypesAhead = TRUE` | `SentKernelRuns` | a key typed after `load` and before the transfer is the first byte of the header (bootloader `shell.c:81`): the magic number is not found and the file goes to the prompt. `RunsWhatIsShown` fails too |
| `MaxLine = 5` | `RunsWhatIsShown` | `put_char` echoes the character it does not store (`shell.c:389`); a deletion then takes one from the line that the screen still shows |
| `Machines <- Decoys` | `DevicesAreFound` | `/spi/serial` is taken for `/soc/serial`; the comment at `dtb.c:217` says that in the wrong branch nothing matches |
| `Machines <- Held`, `INVARIANT ReservationsHold` | `ReservationsHold` | the children of `/reserved-memory` are reserved at physical addresses (`dtb.c:386`), the region is virtual: their pages are handed out |
| `INVARIANT ReservationsHold` | `ReservationsHold` | the same of the frame buffer (`video.c:128`), where the comment says "Reserve the FB memory in buddy system" |
| `MAX_RESERVED_REGIONS = 6` | `FreePagesAreUsable` | `memory_reserve` drops the region too many (`buddy.c:43`), here one of the allocator's arrays |
| `INITRD_RESERVE = 16` | `FreePagesAreUsable` | a ramdisk larger than the guess is handed out from its end |

## 11. Not modelled

- `video.c` beyond the reservation of its memory (pixels, the firmware's
  configuration interface), `sbi.c`, `utils.c`, `plic.c`: stateless wrappers and
  output. Logging everywhere. The formatting in `cpio.c`.
- The boot loader's own `dtb.c` and `cpio.c`: older copies of what `DeviceTree`
  and `Ramdisk` model. Its commands that only print are one command.
- The kernel shell's `load`: it stores to physical `0x82000000`, which the kernel has
  unmapped by then (`shell.c:97`), and stops in its first store.
- What follows a write through address 0 (a page asked for and not had in
  `pagewalk`, `signal_check` and `exec`): the kernel faults in supervisor mode
  and halts.
- The board's build. Its frame buffer at `0x7f700000` is reserved by no one, its
  device pages differ; the properties of section 9 are checked in QEMU's
  proportions.
- A tree with neither `/soc/serial` nor `/soc/uart`: `uart_base` is then the
  kernel's address of physical 0, and the first character faults.
- The TLB, caches and `fence`s: a change of a table is taken to act at once.
- Signal contexts' registers, `tp` changed by programs, the depth of the kernel
  stack.
