----------------------------- MODULE TrapEntry -----------------------------
(***************************************************************************)
(* The way into and out of the kernel on the one hart: trap_entry and      *)
(* _ret_from_fork, enter_user_mode (trap_entry.S), switch_to               *)
(* (thread_switch.S) under schedule() and the windows in which the kernel  *)
(* enables interrupts (src/kernel/src).  A step is an instruction that     *)
(* matters or a run of them that no trap can divide.                       *)
(*                                                                         *)
(* A kernel stack position names the stack's thread and how many trap      *)
(* frames lie on it.  reg stands for the registers x1, x3 and x5-x31, of   *)
(* which one that calls preserve is as good as all; x2 is sp, x4 is tp.    *)
(***************************************************************************)
EXTENDS Integers, Sequences, SequencesExt

CONSTANTS
    Threads, Boot, \* the threads; the one that main becomes
    Values,        \* what a register can hold
    MaxFrames      \* bound: trap frames on a kernel stack

ASSUME TrapAssumption ==
    /\ Boot \in Threads /\ {"null", "user"} \cap Threads = {}
    /\ 0 \in Values /\ MaxFrames \in Nat \ {0}

VARIABLES
    cpu,      \* the hart's registers
    stack,    \* per thread: the trap frames on its kernel stack
    thread,   \* per thread: the registers switch_to keeps in its task_struct
    local,    \* per thread: schedule()'s saved_sstatus and where it was called
    tf,       \* per thread: task_struct.tf, the position of a frame
    alive     \* the threads that exist

vars == <<cpu, stack, thread, local, tf, alive>>

\* Positions on kernel stacks; programs have a stack of their own.  0 is the
\* null address.
Nowhere == [owner |-> "null", frames |-> 0]
UserStack == [owner |-> "user", frames |-> 0]
Position(t, n) == [owner |-> t, frames |-> n]
Positions == {Position(t, n) : t \in Threads, n \in 0..MaxFrames}

UserPlaces == {"u0", "u1"}
Entry == "u0"
AfterEcall(pc) == IF pc = "u0" THEN "u1" ELSE "u0"
KernelPlaces == {"kernel", "handler", "window", "schedule", "start", "enter", "ret", "ret_regs"}

Base(p) == stack[p.owner][p.frames]
Frame == Base(cpu.sp)
In(place) == cpu.pc = place

Init ==
    /\ cpu = [mode |-> "S", sie |-> TRUE, spp |-> "U", spie |-> FALSE, sepc |-> "kernel",
              sscratch |-> Nowhere, sp |-> Position(Boot, 0), pc |-> "kernel", tp |-> Boot, reg |-> 0]
    /\ stack = [t \in Threads |-> <<>>]
    /\ thread = [t \in Threads |-> [ra |-> "start", sp |-> Position(t, 0), reg |-> 0]]
    /\ local = [t \in Threads |-> [sie |-> FALSE, from |-> "kernel"]]
    /\ tf = [t \in Threads |-> Nowhere]
    /\ alive = {Boot}

-----------------------------------------------------------------------------
\* A program, or the kernel, goes on.
program ==
    /\ cpu.mode = "U"
    /\ \E pc \in UserPlaces, v \in Values : cpu' = [cpu EXCEPT !.pc = pc, !.reg = v]
    /\ UNCHANGED <<stack, thread, local, tf, alive>>
kernel ==
    /\ cpu.pc \in {"kernel", "handler", "window"}
    /\ \E v \in Values : cpu' = [cpu EXCEPT !.reg = v]
    /\ UNCHANGED <<stack, thread, local, tf, alive>>

\* A kernel thread's critical sections, and a handler's window: uart_putc that
\* waits for room, a task of run_tasks, a console call.
Toggled(place) == IF place = "handler" THEN "window" ELSE IF place = "window" THEN "handler" ELSE place
csr_sie ==
    /\ cpu.pc \in {"kernel", "handler", "window"}
    /\ cpu' = [cpu EXCEPT !.sie = ~@, !.pc = Toggled(@)]
    /\ UNCHANGED <<stack, thread, local, tf, alive>>

\* The hart takes a trap: an interrupt, or the program's ecall or fault.
\* trap_entry runs with interrupts disabled; sscratch tells it which stack.
KernelSp == IF cpu.sscratch # Nowhere THEN cpu.sscratch ELSE cpu.sp
Pushed(pc, cause) == [scause |-> cause, sepc |-> pc, spp |-> cpu.mode, spie |-> cpu.sie,
                      sp |-> cpu.sp, tp |-> cpu.tp, reg |-> cpu.reg]
Room == KernelSp.frames < MaxFrames
trap_entry(pc, cause) ==
    LET sp == KernelSp
    IN /\ stack' = [stack EXCEPT ![sp.owner] = SubSeq(@, 1, sp.frames) \o <<Pushed(pc, cause)>>]
       /\ cpu' = [cpu EXCEPT !.mode = "S", !.sie = FALSE, !.spp = cpu.mode, !.spie = cpu.sie,
                     !.sepc = cpu.pc, !.sscratch = Nowhere, !.sp = [sp EXCEPT !.frames = @ + 1],
                     !.pc = "handler"]
       /\ UNCHANGED <<thread, local, alive>>

\* An interrupt, or in U-mode a page fault: both go back to the instruction.
interrupt ==
    /\ cpu.mode = "U" \/ cpu.sie
    /\ Room /\ trap_entry(cpu.pc, "other") /\ UNCHANGED tf

\* trap_handler first steps over the ecall and records the frame.
ecall ==
    /\ cpu.mode = "U"
    /\ Room /\ trap_entry(AfterEcall(cpu.pc), "ecall")
    /\ tf' = [tf EXCEPT ![cpu.tp] = [KernelSp EXCEPT !.frames = @ + 1]]

\* The rest of trap_entry, which a forked child enters at _ret_from_fork.
trap_handler_returns ==
    /\ In("handler")
    /\ cpu' = [cpu EXCEPT !.pc = "ret"]
    /\ UNCHANGED <<stack, thread, local, tf, alive>>
_ret_from_fork ==
    /\ In("ret")
    /\ cpu' = [cpu EXCEPT !.sepc = Frame.sepc, !.spp = Frame.spp, !.spie = Frame.spie,
                          !.sie = FALSE, !.pc = "ret_regs"]
    /\ UNCHANGED <<stack, thread, local, tf, alive>>

\* sret: the mode and the interrupt enable from before the trap.
sret(c) == [c EXCEPT !.mode = c.spp, !.sie = c.spie, !.pc = c.sepc, !.spp = "U", !.spie = TRUE]
\* Mutant: the test of SPP is missing
Scratch_Always(frame, sp) == sp
Scratch(frame, sp) == IF frame.spp = "U" THEN sp ELSE Nowhere
ret_regs ==
    /\ In("ret_regs")
    /\ LET sp == [cpu.sp EXCEPT !.frames = @ - 1]
       IN /\ cpu' = sret([cpu EXCEPT !.sscratch = Scratch(Frame, sp), !.sp = Frame.sp,
                                     !.tp = Frame.tp, !.reg = Frame.reg])
          /\ stack' = [stack EXCEPT ![sp.owner] = SubSeq(@, 1, sp.frames)]
    /\ UNCHANGED <<thread, local, tf, alive>>

-----------------------------------------------------------------------------
\* schedule() disables interrupts and switches; whoever is switched to goes on
\* where it called schedule, or starts.  The choice of next is Threads'.
switch_to(next) ==
    /\ next \in alive \ {cpu.tp}
    /\ thread' = [thread EXCEPT ![cpu.tp] = [ra |-> "schedule", sp |-> cpu.sp, reg |-> cpu.reg]]
    /\ cpu' = [cpu EXCEPT !.sie = FALSE, !.pc = thread[next].ra, !.sp = thread[next].sp,
                          !.reg = thread[next].reg, !.tp = next]
    /\ UNCHANGED <<stack, tf>>
schedule ==
    /\ cpu.pc \in {"kernel", "handler"}
    /\ \E next \in Threads : switch_to(next)
    /\ local' = [local EXCEPT ![cpu.tp] = [sie |-> cpu.sie, from |-> cpu.pc]]
    /\ UNCHANGED alive
schedule_returns ==
    /\ In("schedule")
    /\ cpu' = [cpu EXCEPT !.sie = @ \/ local[cpu.tp].sie, !.pc = local[cpu.tp].from]
    /\ UNCHANGED <<stack, thread, local, tf, alive>>

\* The shell starts a program: the new thread enters it when it first runs.
thread_create(t) ==
    /\ In("kernel") /\ t \notin alive
    /\ alive' = alive \cup {t}
    /\ thread' = [thread EXCEPT ![t].ra = "start", ![t].sp = Position(t, 0)]
    /\ tf' = [tf EXCEPT ![t] = Nowhere]
    /\ stack' = [stack EXCEPT ![t] = <<>>]
    /\ UNCHANGED <<cpu, local>>
user_program_start ==
    /\ In("start")
    /\ cpu' = [cpu EXCEPT !.sscratch = cpu.sp, !.pc = "enter"]
    /\ UNCHANGED <<stack, thread, local, tf, alive>>
enter_user_mode ==
    /\ In("enter")
    /\ cpu' = sret([cpu EXCEPT !.sepc = Entry, !.spp = "U", !.spie = TRUE, !.sp = UserStack])
    /\ UNCHANGED <<stack, thread, local, tf, alive>>

-----------------------------------------------------------------------------
\* System calls that deal in frames.  exec rewrites the one task_struct.tf
\* names, fork copies the one it was called with to the child's stack.
Calling == In("handler") /\ Frame.scause = "ecall"
do_exec ==
    /\ Calling
    /\ LET p == tf[cpu.tp]
       IN stack' = [stack EXCEPT ![p.owner][p.frames].sepc = Entry, ![p.owner][p.frames].sp = UserStack]
    /\ UNCHANGED <<cpu, thread, local, tf, alive>>
\* Mutant: the child keeps its parent's thread pointer
ChildFrame_Copied(t) == Frame
ChildFrame(t) == [Frame EXCEPT !.tp = t]
do_fork(t) ==
    /\ Calling /\ t \notin alive
    /\ alive' = alive \cup {t}
    /\ stack' = [stack EXCEPT ![t] = <<ChildFrame(t)>>]
    /\ thread' = [thread EXCEPT ![t].ra = "ret", ![t].sp = Position(t, 1)]
    /\ tf' = [tf EXCEPT ![t] = Position(t, 1)]
    /\ UNCHANGED <<cpu, local>>
\* The exit call, a fault that is not served, or the last switch of a thread
\* that a signal or another thread has made a zombie.
thread_exit ==
    /\ In("handler") /\ Frame.spp = "U"
    /\ alive' = alive \ {cpu.tp}
    /\ \E next \in Threads : switch_to(next)
    /\ UNCHANGED local

Next ==
    \/ program \/ kernel \/ csr_sie \/ interrupt \/ ecall
    \/ trap_handler_returns \/ _ret_from_fork \/ ret_regs
    \/ schedule \/ schedule_returns \/ user_program_start \/ enter_user_mode
    \/ do_exec \/ thread_exit \/ \E t \in Threads : thread_create(t) \/ do_fork(t)

Spec == Init /\ [][Next]_vars

-----------------------------------------------------------------------------
\* Well-formed registers, frames and contexts; sp on the kernel stack of a
\* thread in S-mode.
Frames ==
    [scause : {"ecall", "other"}, sepc : UserPlaces \cup KernelPlaces, spp : {"U", "S"}, 
     spie : BOOLEAN, sp : Positions \cup {UserStack}, tp : Threads, reg : Values]
TypeOK ==
    /\ cpu.sp \in IF cpu.mode = "U" THEN {UserStack} ELSE Positions
    /\ cpu.pc \in IF cpu.mode = "U" THEN UserPlaces ELSE KernelPlaces
    /\ cpu.sscratch \in Positions \cup {Nowhere} /\ cpu.tp \in Threads /\ cpu.reg \in Values
    /\ \A t \in Threads : /\ Len(stack[t]) <= MaxFrames /\ Range(stack[t]) \subseteq Frames
                          /\ thread[t].sp \in Positions
                          /\ tf[t] \in Positions \cup {Nowhere}
    /\ alive \subseteq Threads

\* What trap_entry's test of sscratch rests on: it is zero whenever a trap can
\* come from the kernel, and otherwise the base of the running thread's own
\* kernel stack, after any nesting of traps, switches, forks and exits.
SscratchTellsMode ==
    /\ TypeOK
    /\ cpu.mode = "U" => cpu.sscratch = Position(cpu.tp, 0)
    /\ cpu.mode = "S" => cpu.sp.owner = cpu.tp /\ (In("enter") \/ cpu.sscratch = Nowhere)

\* To every thread the hart is its own (OwnHart): what a trap, a switch or
\* another thread's trap interrupts goes on where it was, with its registers,
\* mode and interrupt enable, and a child starts as a copy of its parent.
Place(pc) == IF pc \in {"ret", "ret_regs"} THEN "leaving" ELSE IF pc = "enter" THEN "start"
             ELSE IF pc = "window" THEN "handler" ELSE pc
Activity(mode, sie, pc, reg, tp) ==
    [mode |-> mode, sie |-> sie, at |-> Place(pc), tp |-> tp,
     reg |-> IF Place(pc) = "leaving" THEN 0 ELSE reg] \* dead: the frame's come next
Interrupted(f) == Activity(f.spp, f.spie, f.sepc, f.reg, f.tp)
Running == IF cpu.mode = "U" THEN cpu.sscratch ELSE cpu.sp
Innermost(t) ==
    LET reg == IF t = Running.owner THEN cpu.reg ELSE thread[t].reg
        tp  == IF t = Running.owner THEN cpu.tp ELSE t
        pc  == IF t = Running.owner THEN cpu.pc ELSE thread[t].ra
    IN IF pc = "schedule" THEN Activity("S", local[t].sie, local[t].from, reg, tp)
       ELSE IF t = Running.owner THEN Activity(cpu.mode, cpu.sie, pc, reg, tp)
       ELSE Activity("S", FALSE, pc, reg, tp)
Acts(t) ==
    LET frames == IF t = Running.owner THEN Running.frames ELSE thread[t].sp.frames
    IN IF t \notin alive THEN <<>>
       ELSE [i \in 1..frames |-> Interrupted(stack[t][i])] \o <<Innermost(t)>>

acts == [t \in Threads |-> Acts(t)]
Hart == INSTANCE OwnHart
IsOwnHart == Hart!Spec
=============================================================================
