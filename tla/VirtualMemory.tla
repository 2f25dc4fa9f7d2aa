--------------------------- MODULE VirtualMemory ---------------------------
(***************************************************************************)
(* User memory: areas (VMAs), page tables and page frames over start,      *)
(* fork, exec, mmap, page faults, signal stacks and the end of processes   *)
(* (src/kernel/src/{thread,trap,syscall,vm}.c).  One step is one critical  *)
(* section of the kernel, or one store of a program.  A page is named by   *)
(* its number, a frame by a model value; frames that hold page tables are  *)
(* only told apart by what they map.                                       *)
(***************************************************************************)
EXTENDS Integers, Sequences, FiniteSets, Functions, FiniteSetsExt

CONSTANTS
    Procs, Programs, Data, Zero, Trampoline, Nothing, \* as in PrivateMemory
    CODE_PAGES, STACK_START, USER_TOP, SIGNAL_PAGE,
    Frames, NoFrame, \* the frames user pages can get
    PTRS,         \* entries of a page table (512 in the code)
    MMAP_BASE,    \* where mmap looks first (0x1000000000)
    Hints,        \* the page numbers programs ask mmap for
    Lengths,      \* the numbers of pages they ask for
    Prots,        \* the protections they ask for
    TablesRunOut, \* whether fork may find no page for a page table
    AreasRunOut,  \* whether start, exec and fork may find no memory for an area
    MaxRefs,      \* bound: no fork makes a frame have more references
    Unruly        \* what programs do against the rules stated at Rule

ASSUME MemoryAssumption ==
    /\ CODE_PAGES \in Nat \ {0} /\ PTRS \in Nat \ {0}
    /\ {MMAP_BASE, SIGNAL_PAGE, STACK_START, USER_TOP} \subseteq Nat
    /\ CODE_PAGES <= MMAP_BASE /\ MMAP_BASE <= SIGNAL_PAGE
    /\ SIGNAL_PAGE < STACK_START /\ STACK_START < USER_TOP
    /\ IsFiniteSet(Procs) /\ IsFiniteSet(Frames)
    /\ NoFrame \notin Frames /\ {TablesRunOut, AreasRunOut} \subseteq BOOLEAN
    /\ Lengths \subseteq Nat \ {0} /\ Hints \subseteq Nat /\ Prots \subseteq SUBSET {"r", "w", "x"}
ASSUME DataAssumption ==
    Nothing \notin Data \cup {Zero, Trampoline} \cup Programs \cup (Programs \X Nat)

VARIABLES
    status,   \* per process: "free", "live", "zombie", or "half_built" (see do_fork)
    vma_list, \* per process: its areas, in list order
    tables,   \* per process: the page tables below its pgd
    pte,      \* per process and page: the frame and protection, or Unmapped
    ref_count, content, \* per frame
    signal_stack, is_handling_signal, \* per process
    faulting  \* per process: the page a demand fault is about to map, or Unmapped

vars == <<status, vma_list, tables, pte, ref_count, content, signal_stack,
          is_handling_signal, faulting>>

Pages == 0..(USER_TOP - 1)
Accesses == {"r", "w", "x"}
Unmapped == [frame |-> NoFrame, prot |-> {}]
Entries == [frame : Frames, prot : SUBSET Accesses] \cup {Unmapped}
Present(p, v) == pte[p][v] # Unmapped
Free == {f \in Frames : ref_count[f] = 0}
Live(p) == status[p] = "live" /\ faulting[p] = Unmapped
HalfBuilt(p) == status[p] = "half_built" /\ faulting[p] = Unmapped

\* What the kernel leaves to programs.
Rule(conduct) == conduct \in Unruly

-----------------------------------------------------------------------------
\* The two levels of tables below the pgd that lead to page v.
Tables == {2} \X {v \div (PTRS * PTRS) : v \in Pages} \cup {1} \X {v \div PTRS : v \in Pages}
TablesOf(v) == {<<2, v \div (PTRS * PTRS)>>, <<1, v \div PTRS>>}
FirstPage(t) == IF t[1] = 2 THEN t[2] * PTRS * PTRS ELSE t[2] * PTRS

\* fork's loops reach table s before table t.
Before(s, t) == FirstPage(s) < FirstPage(t) \/ (FirstPage(s) = FirstPage(t) /\ s[1] > t[1])

Area(start, end, prot, file) == [start |-> start, end |-> end, prot |-> prot, file |-> file]
CodeAndStack(program) ==
    <<Area(STACK_START, USER_TOP, {"r", "w"}, Nothing), Area(0, CODE_PAGES, {"r", "x"}, program)>>

Covers(a, v) == a.start <= v /\ v < a.end
HasArea(p, v) == \E i \in DOMAIN vma_list[p] : Covers(vma_list[p][i], v)
AreaAt(p, v) == vma_list[p][Min({i \in DOMAIN vma_list[p] : Covers(vma_list[p][i], v)})]

\* The areas there is memory for: start, exec and fork go on without the others.
Some(areas) == {SelectSeq(areas, LAMBDA a : a \in S) : S \in SUBSET Range(areas)}
Given(areas) == IF AreasRunOut THEN Some(areas) ELSE {areas}

\* Hardware knows no page that is writable and not readable.
PageProt(prot) == IF "w" \in prot THEN prot \cup {"r"} ELSE prot

\* What a page of an area holds before its first store.
Initially(a, v) == IF a.file = Nothing THEN Zero ELSE <<a.file, v - a.start>>

\* The references left when those of process p's entries in V are given back.
Released(p, V) ==
    [f \in Frames |-> ref_count[f] - Cardinality({v \in V : pte[p][v].frame = f})]

-----------------------------------------------------------------------------
Init ==
    /\ status = [p \in Procs |-> "free"]
    /\ vma_list = [p \in Procs |-> <<>>]
    /\ tables = [p \in Procs |-> {}]
    /\ pte = [p \in Procs |-> [v \in Pages |-> Unmapped]]
    /\ ref_count = [f \in Frames |-> 0]
    /\ content = [f \in Frames |-> Zero]
    /\ signal_stack = [p \in Procs |-> NoFrame]
    /\ is_handling_signal = [p \in Procs |-> FALSE]
    /\ faulting = [p \in Procs |-> Unmapped]

\* The shell starts a program.
user_program_execute(p) ==
    /\ status[p] = "free"
    /\ \E program \in Programs : \E areas \in Given(CodeAndStack(program)) :
           vma_list' = [vma_list EXCEPT ![p] = areas]
    /\ status' = [status EXCEPT ![p] = "live"]
    /\ UNCHANGED <<tables, pte, ref_count, content, signal_stack, is_handling_signal, faulting>>

\* exec frees the old user space and areas.  It leaves the signal's fields as
\* they are, also in a handler.
do_exec(p) ==
    /\ Live(p)
    /\ is_handling_signal[p] => Rule("exec in handler")
    /\ ref_count' = Released(p, Pages)
    /\ pte' = [pte EXCEPT ![p] = [v \in Pages |-> Unmapped]]
    /\ tables' = [tables EXCEPT ![p] = {}]
    /\ \E program \in Programs : \E areas \in Given(CodeAndStack(program)) :
           vma_list' = [vma_list EXCEPT ![p] = areas]
    /\ UNCHANGED <<status, content, signal_stack, is_handling_signal, faulting>>

\* Mutant: the parent may go on writing.
WriteProtected_Not(e) == e

WriteProtected(e) == [e EXCEPT !.prot = @ \ {"w"}]

\* fork copies the tables it reached, all of them or those before the first
\* one it finds no page for.  Then the child stays as it is, in the run queue
\* and with nowhere to go: half-built.
do_fork(p, c) ==
    /\ Live(p) /\ status[c] = "free"
    /\ is_handling_signal[p] => Rule("fork in handler")
    /\ \E copied \in {tables[p]} \cup
           (IF TablesRunOut THEN {{s \in tables[p] : Before(s, t)} : t \in tables[p]} ELSE {}) :
       LET shared == {v \in Pages : Present(p, v) /\ TablesOf(v) \subseteq copied}
       IN /\ tables' = [tables EXCEPT ![c] = copied]
          /\ pte' = [pte EXCEPT
                ![p] = [v \in Pages |-> IF v \in shared THEN WriteProtected(@[v]) ELSE @[v]],
                ![c] = [v \in Pages |-> IF v \in shared THEN WriteProtected(pte[p][v]) ELSE @[v]]]
          /\ ref_count' = [f \in Frames |->
                ref_count[f] + Cardinality({v \in shared : pte[p][v].frame = f})]
          /\ \A v \in shared : ref_count[pte[p][v].frame] < MaxRefs
          /\ status' = [status EXCEPT ![c] = IF copied = tables[p] THEN "live" ELSE "half_built"]
    /\ \E areas \in Given(vma_list[p]) : vma_list' = [vma_list EXCEPT ![c] = areas]
    /\ UNCHANGED <<content, signal_stack, is_handling_signal, faulting>>

\* Mutant: an area that begins where the new one does is overlooked.
Overlaps_Begin(start, length, a) == start < a.end /\ start > a.start

Overlaps(start, length, a) == start < a.end /\ start + length > a.start

\* Where the loop of mmap ends: every round moves past an area in the way.
MmapStart(p, hint, length) ==
    LET first == IF hint < MMAP_BASE THEN MMAP_BASE ELSE hint
        areas == Range(vma_list[p])
    IN Min({s \in {first} \cup {a.end : a \in areas} :
                s >= first /\ \A a \in areas : ~Overlaps(s, length, a)})

\* Pages that an mmap which failed has left without an area.
Stray(p) == \E v \in Pages \ {SIGNAL_PAGE} : Present(p, v) /\ ~HasArea(p, v)

\* A program asks for an area below the stack and clear of the signal stack.
\* It does not ask again after an mmap that left pages behind.
do_mmap(p, hint, length, prot) ==
    LET start == MmapStart(p, hint, length)
    IN /\ Live(p) /\ start + length <= SIGNAL_PAGE
       /\ Stray(p) => Rule("mmap after failure")
       /\ vma_list' = [vma_list EXCEPT ![p] = <<Area(start, start + length, prot, Nothing)>> \o @]
       /\ UNCHANGED <<status, tables, pte, ref_count, content, signal_stack,
                      is_handling_signal, faulting>>

\* With MAP_POPULATE the pages are mapped at once, the first ones only if
\* memory runs out.  Then there is no area, nor if there is no memory for it.
do_mmap_populate(p, hint, length, prot) ==
    LET start == MmapStart(p, hint, length)
        n == Min({length, Cardinality(Free)})
        new == start..(start + n - 1)
    IN /\ Live(p) /\ start + length <= SIGNAL_PAGE
       /\ Stray(p) => Rule("mmap after failure")
       /\ \E frame \in Injection(new, Free) :
            /\ pte' = [pte EXCEPT ![p] = [v \in Pages |->
                   IF v \in new THEN [frame |-> frame[v], prot |-> PageProt(prot)] ELSE @[v]]]
            /\ ref_count' = [f \in Frames |-> IF f \in Range(frame) THEN 1 ELSE ref_count[f]]
            /\ content' = [f \in Frames |-> IF f \in Range(frame) THEN Zero ELSE content[f]]
       /\ tables' = [tables EXCEPT ![p] = @ \cup UNION {TablesOf(v) : v \in new}]
       /\ \/ vma_list' = vma_list
          \/ n = length /\ vma_list' =
                [vma_list EXCEPT ![p] = <<Area(start, start + length, prot, Nothing)>> \o @]
       /\ UNCHANGED <<status, signal_stack, is_handling_signal, faulting>>

-----------------------------------------------------------------------------
\* A store of a program (or of the kernel for it) through its page table.
store(p, v, d) ==
    /\ Live(p) /\ "w" \in pte[p][v].prot
    /\ content' = [content EXCEPT ![pte[p][v].frame] = d]
    /\ UNCHANGED <<status, vma_list, tables, pte, ref_count, signal_stack,
                   is_handling_signal, faulting>>

\* The trap handler's decision on a fault of page v: copy-on-write, demand
\* paging, or the end of the process.  The first instruction of a half-built
\* child is at address 0 (ra of thread_create(0)) and in kernel mode, which may
\* not execute pages of programs: it faults whatever is mapped there, again and
\* again, until there is no page for it.  (Without an area at 0 the kernel halts.)
Faults(p, v, access) ==
    \/ Live(p) /\ access \notin pte[p][v].prot
    \/ HalfBuilt(p) /\ v = 0 /\ access = "x"
IsCow(p, v, access) ==
    access = "w" /\ HasArea(p, v) /\ Present(p, v) /\ "w" \in AreaAt(p, v).prot
IsDemand(p, v, access) ==
    ~IsCow(p, v, access) /\ HasArea(p, v) /\ access \in AreaAt(p, v).prot
IsSegfault(p, v, access) ==
    Live(p) /\ Faults(p, v, access) /\ ~IsCow(p, v, access) /\ ~IsDemand(p, v, access)

\* Mutant: two references are taken for one.
IsShared_Three(f) == ref_count[f] > 2

IsShared(f) == ref_count[f] > 1

Ends(p) ==
    /\ status' = [status EXCEPT ![p] = "zombie"]
    /\ UNCHANGED <<vma_list, tables, pte, ref_count, content, signal_stack,
                   is_handling_signal, faulting>>

thread_exit(p) == Live(p) /\ Ends(p)

\* The first store to a page after fork.
copy_on_write(p, v) ==
    LET old == pte[p][v].frame
    IN /\ Faults(p, v, "w") /\ IsCow(p, v, "w")
       /\ \/ /\ IsShared(old)
             /\ \E new \in Free :
                  /\ content' = [content EXCEPT ![new] = content[old]]
                  /\ pte' = [pte EXCEPT ![p][v] = [frame |-> new, prot |-> @.prot \cup {"w"}]]
                  /\ ref_count' = [ref_count EXCEPT ![new] = 1, ![old] = @ - 1]
          \/ /\ ~IsShared(old)
             /\ pte' = [pte EXCEPT ![p][v].prot = @ \cup {"w"}]
             /\ UNCHANGED <<ref_count, content>>
       /\ UNCHANGED <<status, vma_list, tables, signal_stack, is_handling_signal, faulting>>

\* The first access to a page: it is filled, then the handler prints, where
\* others may run (see Uart), and maps it, over whatever is mapped there.
demand_page(p, v, access) ==
    /\ Faults(p, v, access) /\ IsDemand(p, v, access)
    /\ \E f \in Free :
         /\ content' = [content EXCEPT ![f] = Initially(AreaAt(p, v), v)]
         /\ ref_count' = [ref_count EXCEPT ![f] = 1]
         /\ faulting' = [faulting EXCEPT ![p] =
                [page |-> v, frame |-> f, prot |-> PageProt(AreaAt(p, v).prot)]]
    /\ UNCHANGED <<status, vma_list, tables, pte, signal_stack, is_handling_signal>>

demand_page_maps(p) ==
    LET e == faulting[p]
    IN /\ status[p] \in {"live", "half_built"} /\ e # Unmapped
       /\ pte' = [pte EXCEPT ![p][e.page] = [frame |-> e.frame, prot |-> e.prot]]
       /\ tables' = [tables EXCEPT ![p] = @ \cup TablesOf(e.page)]
       /\ faulting' = [faulting EXCEPT ![p] = Unmapped]
       /\ UNCHANGED <<status, vma_list, ref_count, content, signal_stack, is_handling_signal>>

\* The faults that end a process: bad accesses, and those without memory for
\* a page.
Fatal(p, v, access) ==
    /\ Faults(p, v, access)
    /\ \/ IsSegfault(p, v, access)
       \/ Free = {} /\ IsDemand(p, v, access)
       \/ Free = {} /\ IsCow(p, v, access) /\ IsShared(pte[p][v].frame)

fault_kills(p) ==
    {e \in Pages \X Accesses : Fatal(p, e[1], e[2])} # {} /\ Ends(p)

\* Another process stops or kills p, perhaps while p waits to print.
do_stop(p) ==
    /\ status[p] \in {"live", "half_built"}
    /\ faulting[p] # Unmapped => Rule("stop in fault")
    /\ \E q \in Procs \ {p} : Live(q)
    /\ Ends(p)

\* Mutant: the handler may not write its stack.
HandlerProt_NoWrite == {"r", "x"}

HandlerProt == {"r", "w", "x"}

\* On the way back to user mode a handler is given a stack.  There is memory
\* for it: the kernel does not look.
signal_check(p) ==
    /\ Live(p) /\ ~is_handling_signal[p]
    /\ Present(p, SIGNAL_PAGE) => Rule("fork in handler")
    /\ \E f \in Free :
         /\ signal_stack' = [signal_stack EXCEPT ![p] = f]
         /\ content' = [content EXCEPT ![f] = Trampoline]
         /\ ref_count' = [ref_count EXCEPT ![f] = 1]
         /\ pte' = [pte EXCEPT ![p][SIGNAL_PAGE] = [frame |-> f, prot |-> HandlerProt]]
    /\ tables' = [tables EXCEPT ![p] = @ \cup TablesOf(SIGNAL_PAGE)]
    /\ is_handling_signal' = [is_handling_signal EXCEPT ![p] = TRUE]
    /\ UNCHANGED <<status, vma_list, faulting>>

unmap_page(entries, v) == [entries EXCEPT ![v] = Unmapped]

do_sigreturn(p) ==
    /\ Live(p) /\ is_handling_signal[p]
    /\ is_handling_signal' = [is_handling_signal EXCEPT ![p] = FALSE]
    /\ pte' = [pte EXCEPT ![p] = unmap_page(@, SIGNAL_PAGE)]
    /\ ref_count' = [ref_count EXCEPT ![signal_stack[p]] = @ - 1]
    /\ signal_stack' = [signal_stack EXCEPT ![p] = NoFrame]
    /\ UNCHANGED <<status, vma_list, tables, content, faulting>>

\* Whoever reaps a zombie walks its tables and gives back page after page; idle
\* does so with interrupts enabled.
free_user_space(p) ==
    /\ status[p] = "zombie"
    /\ \E v \in Pages :
         /\ Present(p, v) /\ \A u \in Pages : u < v => ~Present(p, u)
         /\ ref_count' = Released(p, {v})
         /\ pte' = [pte EXCEPT ![p][v] = Unmapped]
    /\ UNCHANGED <<status, vma_list, tables, content, signal_stack, is_handling_signal, faulting>>

\* Then it frees the tables, the areas and the task_struct.
reaped(p) ==
    /\ status[p] = "zombie" /\ \A v \in Pages : ~Present(p, v)
    /\ status' = [status EXCEPT ![p] = "free"]
    /\ vma_list' = [vma_list EXCEPT ![p] = <<>>]
    /\ tables' = [tables EXCEPT ![p] = {}]
    /\ signal_stack' = [signal_stack EXCEPT ![p] = NoFrame]
    /\ is_handling_signal' = [is_handling_signal EXCEPT ![p] = FALSE]
    /\ faulting' = [faulting EXCEPT ![p] = Unmapped]
    /\ UNCHANGED <<pte, ref_count, content>>

Next ==
    \E p \in Procs :
        \/ user_program_execute(p) \/ do_exec(p) \/ thread_exit(p) \/ do_stop(p)
        \/ \E c \in Procs : do_fork(p, c)
        \/ \E hint \in Hints, length \in Lengths, prot \in Prots :
               do_mmap(p, hint, length, prot) \/ do_mmap_populate(p, hint, length, prot)
        \/ \E v \in Pages : copy_on_write(p, v)
        \/ \E v \in Pages, d \in Data : store(p, v, d)
        \/ \E v \in Pages, access \in Accesses : demand_page(p, v, access)
        \/ demand_page_maps(p) \/ fault_kills(p) \/ signal_check(p) \/ do_sigreturn(p)
        \/ free_user_space(p) \/ reaped(p)

Spec == Init /\ [][Next]_vars

-----------------------------------------------------------------------------
TypeOK ==
    /\ status \in [Procs -> {"free", "live", "half_built", "zombie"}]
    /\ vma_list \in [Procs -> Seq([start : Pages, end : 1..USER_TOP, prot : SUBSET Accesses,
                                   file : Programs \cup {Nothing}])]
    /\ tables \in [Procs -> SUBSET Tables]
    /\ pte \in [Procs -> [Pages -> Entries]]
    /\ ref_count \in [Frames -> Nat]
    /\ content \in [Frames -> Data \cup {Zero, Trampoline} \cup (Programs \X (0..(CODE_PAGES - 1)))]
    /\ signal_stack \in [Procs -> Frames \cup {NoFrame}]
    /\ is_handling_signal \in [Procs -> BOOLEAN]
    /\ faulting \in [Procs -> [page : Pages, frame : Frames, prot : SUBSET Accesses] \cup {Unmapped}]

\* What has a reference to frame f: entries, and faults about to map it.
Users(f) ==
    Cardinality({e \in Procs \X Pages : pte[e[1]][e[2]].frame = f})
    + Cardinality({p \in Procs : faulting[p].frame = f})

\* The references of frame f that nobody will give back.
Lost(f) == ref_count[f] - Users(f)

\* No frame is given back while it is used, so copy-on-write can trust a count
\* of one, whatever order processes fork, fault and end in.
NoneTooFew == TypeOK /\ \A f \in Frames : Lost(f) >= 0

\* A reference is lost only where a half-built child maps a page over another.
LostToHalfBuilt ==
    \A f \in Frames : Lost(f)' # Lost(f) =>
        /\ Lost(f)' = Lost(f) + 1
        /\ \E p \in Procs :
              /\ status[p] = "half_built" /\ pte[p][0].frame = f
              /\ faulting[p] # Unmapped /\ faulting'[p] = Unmapped

\* Frames are counted: as many references as users, and one more for every
\* time a half-built child mapped over the frame; none if no fork failed.
FramesAreCounted == []NoneTooFew /\ [][LostToHalfBuilt]_vars

\* What a process may do with a page: what its area allows, where writing
\* includes reading (the rule mmap's comment gives), and anything with the
\* stack of the handler it is in.
Allowed(p, v, access) ==
    \/ \E a \in Range(vma_list[p]) : Covers(a, v) /\ access \in PageProt(a.prot)
    \/ is_handling_signal[p] /\ v = SIGNAL_PAGE

\* No fault ends a process for an access it may make.
AllowedAccessesSucceed ==
    \A p \in Procs, v \in Pages, access \in Accesses :
        IsSegfault(p, v, access) => ~Allowed(p, v, access)

\* To every process its memory is its own: what a page holds, mapped or not
\* yet, is what PrivateMemory says it holds.
Sees(p, v) ==
    IF status[p] # "live" THEN Nothing
    ELSE IF Present(p, v) THEN content[pte[p][v].frame]
    ELSE IF HasArea(p, v) THEN Initially(AreaAt(p, v), v)
    ELSE Nothing

views == [p \in Procs |-> [v \in Pages |-> Sees(p, v)]]

Memory == INSTANCE PrivateMemory WITH mem <- views
IsPrivateMemory == Memory!Spec
=============================================================================
