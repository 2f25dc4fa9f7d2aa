---------------------------- MODULE TrapEntryProofs ----------------------------
(***************************************************************************)
(* What holds of the way into and out of the kernel for any number of      *)
(* threads and any nesting of traps: sscratch tells where a trap comes     *)
(* from, and every thread finds the hart its own (OwnHart).                *)
(***************************************************************************)
EXTENDS TrapEntry, SequenceLemmas

-----------------------------------------------------------------------------
(* The inductive invariant *)

Modes == {"U", "S"}
Cpus ==
    [mode : Modes, sie : BOOLEAN, spp : Modes, spie : BOOLEAN,
     sepc : UserPlaces \cup KernelPlaces, sscratch : Positions \cup {Nowhere},
     sp : Positions \cup {UserStack}, pc : UserPlaces \cup KernelPlaces, tp : Threads, reg : Values]
Contexts == [ra : {"start", "ret", "schedule"}, sp : Positions, reg : Values]
Locals == [sie : BOOLEAN, from : {"kernel", "handler"}]

Types ==
    /\ cpu \in Cpus
    /\ stack \in [Threads -> Seq(Frames)] /\ \A t \in Threads : Len(stack[t]) <= MaxFrames
    /\ thread \in [Threads -> Contexts] /\ local \in [Threads -> Locals]
    /\ tf \in [Threads -> Positions \cup {Nowhere}]
    /\ alive \in SUBSET Threads

\* How many frames lie under a place in the kernel.
Fits(pc, n) ==
    /\ pc \in {"handler", "window", "ret", "ret_regs"} => n >= 1
    /\ pc \in {"start", "enter"} => n = 0

\* Where schedule() was called from: from a handler with interrupts disabled.
CallerOK(l, n) == Fits(l.from, n) /\ (l.from = "handler" => ~l.sie)

\* A frame belongs to the thread on whose stack it lies.  The first may be a
\* program's; any other one is the kernel's, which was interrupted where it
\* had interrupts enabled, with its stack as deep as the frames below.
FrameOK(t, i, f) ==
    /\ f.tp = t
    /\ f.spp = "U" => i = 1 /\ f.sp = UserStack /\ f.sepc \in UserPlaces
    /\ f.spp = "S" => /\ f.scause = "other" /\ f.sp = Position(t, i - 1) /\ f.spie
                      /\ f.sepc \in {"kernel", "window"} /\ Fits(f.sepc, i - 1)

\* task_struct.tf names the frame of the call a thread is in.
StackOK(t) ==
    /\ \A i \in 1..Len(stack[t]) : FrameOK(t, i, stack[t][i])
    /\ Len(stack[t]) >= 1 /\ stack[t][1].scause = "ecall" => tf[t] = Position(t, 1)

\* A thread that waits for the CPU.
ContextOK(t) ==
    /\ thread[t].sp = Position(t, Len(stack[t]))
    /\ IF thread[t].ra = "schedule" THEN CallerOK(local[t], Len(stack[t]))
                                    ELSE Fits(thread[t].ra, Len(stack[t]))

\* The thread that has it, in a program and in the kernel.
UserOK ==
    /\ cpu.sp = UserStack /\ cpu.pc \in UserPlaces
    /\ cpu.sscratch = Position(cpu.tp, 0) /\ Len(stack[cpu.tp]) = 0

KernelOK ==
    LET n == Len(stack[cpu.tp]) IN
    /\ cpu.sp = Position(cpu.tp, n) /\ cpu.pc \in KernelPlaces
    /\ cpu.sscratch = IF In("enter") THEN Position(cpu.tp, 0) ELSE Nowhere
    /\ In("window") => cpu.sie
    /\ cpu.sie => cpu.pc \in {"kernel", "window"}
    /\ IF In("schedule") THEN CallerOK(local[cpu.tp], n) ELSE Fits(cpu.pc, n)
    /\ In("ret_regs") => /\ cpu.spp = stack[cpu.tp][n].spp /\ cpu.spie = stack[cpu.tp][n].spie
                         /\ cpu.sepc = stack[cpu.tp][n].sepc

IInv ==
    /\ Types
    /\ cpu.tp \in alive
    /\ \A t \in alive : StackOK(t)
    /\ \A t \in alive \ {cpu.tp} : ContextOK(t)
    /\ cpu.mode = "U" => UserOK
    /\ cpu.mode = "S" => KernelOK

-----------------------------------------------------------------------------
(* Facts that every step needs *)

LEMMA StackTypes ==
    ASSUME Types, NEW t \in Threads
    PROVE  /\ stack[t] \in Seq(Frames) /\ Len(stack[t]) \in 0..MaxFrames
           /\ \A i \in 1..Len(stack[t]) : stack[t][i] \in Frames
<1>1. stack[t] \in Seq(Frames) /\ Len(stack[t]) <= MaxFrames
  BY DEF Types
<1>2. Len(stack[t]) \in Nat
  BY <1>1, LenProperties
<1>3. QED
  BY <1>1, <1>2, ElementOfSeq, TrapAssumption

LEMMA PositionTypes ==
    ASSUME NEW t \in Threads, NEW n \in 0..MaxFrames
    PROVE  /\ Position(t, n) \in Positions /\ Position(t, n) # Nowhere
           /\ Position(t, n).owner = t /\ Position(t, n).frames = n
           /\ \A m \in 0..MaxFrames : [Position(t, n) EXCEPT !.frames = m] = Position(t, m)
  BY TrapAssumption DEF Position, Positions, Nowhere

LEMMA InitOK == Init => IInv
<1> SUFFICES ASSUME Init PROVE IInv
  OBVIOUS
<1>1. 0 \in 0..MaxFrames /\ Boot \in Threads /\ 0 \in Values
  BY TrapAssumption
<1>2. \A t \in Threads : /\ stack[t] = <<>> /\ stack[t] \in Seq(Frames) /\ Len(stack[t]) = 0
                         /\ Position(t, 0) \in Positions
  BY <1>1, EmptySeq, PositionTypes DEF Init
<1>3. cpu \in Cpus
  BY <1>1, <1>2 DEF Init, Cpus, Modes, UserPlaces, KernelPlaces
<1>4. stack \in [Threads -> Seq(Frames)] /\ \A t \in Threads : Len(stack[t]) <= MaxFrames
  BY <1>1, <1>2 DEF Init
<1>5. thread \in [Threads -> Contexts] /\ local \in [Threads -> Locals]
  BY <1>1, <1>2 DEF Init, Contexts, Locals
<1>6. Types
  BY <1>1, <1>3, <1>4, <1>5 DEF Init, Types
<1>7. cpu.tp = Boot /\ alive = {Boot} /\ cpu.mode = "S" /\ \A t \in alive : StackOK(t)
  BY <1>1, <1>2 DEF Init, StackOK
<1>8. KernelOK
  BY <1>1, <1>2 DEF Init, KernelOK, KernelPlaces, In, Fits
<1>9. QED
  BY <1>6, <1>7, <1>8 DEF IInv

\* A step that changes the hart's registers only, and not whose they are.
LEMMA OnlyCpu ==
    ASSUME IInv, UNCHANGED <<stack, thread, local, tf, alive>>,
           cpu' \in Cpus, cpu'.tp = cpu.tp, cpu'.mode = "U" => UserOK', cpu'.mode = "S" => KernelOK'
    PROVE  IInv'
<1>1. Types'
  BY DEF IInv, Types
<1>2. cpu'.tp \in alive'
  BY DEF IInv
<1>3. \A t \in alive' : StackOK(t)'
  BY DEF IInv, StackOK
<1>4. \A t \in alive' \ {cpu'.tp} : ContextOK(t)'
  BY DEF IInv, ContextOK
<1>5. QED
  BY <1>1, <1>2, <1>3, <1>4 DEF IInv

\* What IInv says of the hart.
LEMMA HartFacts ==
    ASSUME IInv
    PROVE  /\ cpu \in Cpus /\ cpu.tp \in alive /\ cpu.tp \in Threads /\ StackOK(cpu.tp)
           /\ stack[cpu.tp] \in Seq(Frames) /\ Len(stack[cpu.tp]) \in 0..MaxFrames
           /\ cpu.mode = "U" => UserOK
           /\ cpu.mode = "S" => KernelOK
           /\ cpu.pc \in UserPlaces <=> cpu.mode = "U"
           /\ cpu.pc \in KernelPlaces <=> cpu.mode = "S"
<1>1. Types /\ cpu.tp \in alive /\ alive \subseteq Threads /\ StackOK(cpu.tp)
  BY DEF IInv, Types
<1>2. stack[cpu.tp] \in Seq(Frames) /\ Len(stack[cpu.tp]) \in 0..MaxFrames
  BY <1>1, StackTypes
<1>3. cpu \in Cpus /\ cpu.mode \in {"U", "S"}
  BY <1>1 DEF Types, Cpus, Modes
<1>4. (cpu.mode = "U" => UserOK) /\ (cpu.mode = "S" => KernelOK)
  BY DEF IInv
<1>5. UserPlaces \cap KernelPlaces = {}
  BY DEF UserPlaces, KernelPlaces
<1>6. QED
  BY <1>1, <1>2, <1>3, <1>4, <1>5 DEF UserOK, KernelOK

-----------------------------------------------------------------------------
(* Steps that leave stacks and contexts alone *)

LEMMA CpuSteps ==
    ASSUME IInv, \/ program \/ kernel \/ csr_sie \/ trap_handler_returns \/ _ret_from_fork
                 \/ schedule_returns \/ user_program_start \/ enter_user_mode
    PROVE  IInv'
<1>1. /\ cpu \in Cpus /\ cpu.tp \in Threads /\ StackOK(cpu.tp) /\ Len(stack[cpu.tp]) \in 0..MaxFrames
      /\ stack[cpu.tp] \in Seq(Frames)
      /\ cpu.pc \in UserPlaces <=> cpu.mode = "U"
      /\ cpu.pc \in KernelPlaces <=> cpu.mode = "S"
  BY HartFacts
<1>2. local[cpu.tp] \in Locals
  BY <1>1 DEF IInv, Types
<1>3. CASE program
  <2>1. PICK pc \in UserPlaces, v \in Values : cpu' = [cpu EXCEPT !.pc = pc, !.reg = v]
    BY <1>3 DEF program
  <2>2. UserOK /\ UNCHANGED <<stack, thread, local, tf, alive>> /\ cpu.mode = "U"
    BY <1>3, HartFacts DEF program
  <2>3. cpu' \in Cpus /\ cpu'.tp = cpu.tp /\ cpu'.mode = "U"
    BY <1>1, <2>1, <2>2 DEF Cpus
  <2>4. UserOK'
    BY <1>1, <2>1, <2>2 DEF UserOK, Cpus
  <2>5. QED BY <2>2, <2>3, <2>4, OnlyCpu
<1>4. CASE kernel
  <2>1. PICK v \in Values : cpu' = [cpu EXCEPT !.reg = v]
    BY <1>4 DEF kernel
  <2>2. /\ KernelOK /\ UNCHANGED <<stack, thread, local, tf, alive>> /\ cpu.mode = "S"
        /\ cpu.pc \in {"kernel", "handler", "window"}
    BY <1>1, <1>4, HartFacts DEF kernel, KernelPlaces
  <2>3. cpu' \in Cpus /\ cpu'.tp = cpu.tp /\ cpu'.mode = "S"
    BY <1>1, <2>1, <2>2 DEF Cpus
  <2>4. KernelOK'
    BY <1>1, <2>1, <2>2 DEF KernelOK, Cpus, In
  <2>5. QED BY <2>2, <2>3, <2>4, OnlyCpu
<1>5. CASE csr_sie
  <2>1. /\ KernelOK /\ UNCHANGED <<stack, thread, local, tf, alive>> /\ cpu.mode = "S"
        /\ cpu.pc \in {"kernel", "handler", "window"}
        /\ cpu' = [cpu EXCEPT !.sie = ~@, !.pc = Toggled(@)]
    BY <1>1, <1>5, HartFacts DEF csr_sie, KernelPlaces
  <2>2. /\ cpu' \in Cpus /\ cpu'.tp = cpu.tp /\ cpu'.mode = "S" /\ cpu'.pc = Toggled(cpu.pc)
        /\ cpu'.sie = ~cpu.sie /\ cpu'.sp = cpu.sp /\ cpu'.sscratch = cpu.sscratch
    <3>1. Toggled(cpu.pc) \in KernelPlaces
      BY <2>1 DEF Toggled, KernelPlaces
    <3>2. QED BY <1>1, <2>1, <3>1 DEF Cpus
  <2>4. /\ cpu'.pc \in {"kernel", "handler", "window"}
        /\ cpu'.pc = "window" => cpu.pc = "handler"
        /\ cpu'.pc = "handler" => cpu.pc = "window"
    BY <2>1, <2>2 DEF Toggled
  <2>5. cpu'.pc = "window" => cpu'.sie
    BY <2>1, <2>2, <2>4 DEF KernelOK
  <2>6. cpu'.sie => cpu'.pc \in {"kernel", "window"}
    BY <2>1, <2>2, <2>4 DEF KernelOK, In
  <2>7. KernelOK'
    BY <1>1, <2>1, <2>2, <2>4, <2>5, <2>6 DEF KernelOK, In, Fits, KernelPlaces
  <2>8. QED BY <2>1, <2>2, <2>7, OnlyCpu
<1>6. CASE trap_handler_returns
  <2>1. /\ KernelOK /\ UNCHANGED <<stack, thread, local, tf, alive>> /\ cpu.mode = "S"
        /\ cpu.pc = "handler" /\ cpu' = [cpu EXCEPT !.pc = "ret"]
    BY <1>1, <1>6, HartFacts DEF trap_handler_returns, In, KernelPlaces
  <2>2. /\ cpu' \in Cpus /\ cpu'.tp = cpu.tp /\ cpu'.mode = "S" /\ cpu'.pc = "ret"
        /\ cpu'.sie = cpu.sie /\ cpu'.sp = cpu.sp /\ cpu'.sscratch = cpu.sscratch
    BY <1>1, <2>1 DEF Cpus, KernelPlaces
  <2>3. KernelOK'
    BY <1>1, <2>1, <2>2 DEF KernelOK, In, Fits, KernelPlaces
  <2>4. QED BY <2>1, <2>2, <2>3, OnlyCpu
<1>7. CASE _ret_from_fork
  <2> DEFINE n == Len(stack[cpu.tp])
             f == stack[cpu.tp][n]
  <2>1. /\ KernelOK /\ UNCHANGED <<stack, thread, local, tf, alive>> /\ cpu.mode = "S" /\ cpu.pc = "ret"
        /\ cpu' = [cpu EXCEPT !.sepc = Frame.sepc, !.spp = Frame.spp, !.spie = Frame.spie,
                              !.sie = FALSE, !.pc = "ret_regs"]
    BY <1>1, <1>7, HartFacts DEF _ret_from_fork, In, KernelPlaces
  <2>2. n >= 1 /\ cpu.sp = Position(cpu.tp, n)
    BY <2>1 DEF KernelOK, In, Fits
  <2>3. Frame = f /\ n \in 1..n
    BY <1>1, <2>2, PositionTypes DEF Frame, Base
  <2>4. f \in Frames
    BY <1>1, <2>3, ElementOfSeq
  <2> HIDE DEF f
  <2>5. /\ cpu' \in Cpus /\ cpu'.tp = cpu.tp /\ cpu'.mode = "S" /\ cpu'.pc = "ret_regs"
        /\ cpu'.sie = FALSE /\ cpu'.sp = cpu.sp /\ cpu'.sscratch = cpu.sscratch
        /\ cpu'.spp = f.spp /\ cpu'.spie = f.spie /\ cpu'.sepc = f.sepc
    BY <1>1, <2>1, <2>3, <2>4 DEF Cpus, Modes, Frames, KernelPlaces
  <2>6. KernelOK'
    BY <1>1, <2>1, <2>2, <2>5 DEF KernelOK, In, Fits, KernelPlaces, f
  <2>7. QED BY <2>1, <2>5, <2>6, OnlyCpu
<1>8. CASE schedule_returns
  <2>1. /\ KernelOK /\ UNCHANGED <<stack, thread, local, tf, alive>> /\ cpu.mode = "S" /\ cpu.pc = "schedule"
        /\ cpu' = [cpu EXCEPT !.sie = @ \/ local[cpu.tp].sie, !.pc = local[cpu.tp].from]
    BY <1>1, <1>8, HartFacts DEF schedule_returns, In, KernelPlaces
  <2>2. CallerOK(local[cpu.tp], Len(stack[cpu.tp])) /\ cpu.sie = FALSE
    BY <1>1, <2>1 DEF KernelOK, In, Cpus
  <2>3. /\ cpu' \in Cpus /\ cpu'.tp = cpu.tp /\ cpu'.mode = "S" /\ cpu'.pc = local[cpu.tp].from
        /\ cpu'.sie = local[cpu.tp].sie /\ cpu'.sp = cpu.sp /\ cpu'.sscratch = cpu.sscratch
    BY <1>1, <1>2, <2>1, <2>2 DEF Cpus, Locals, KernelPlaces
  <2>4. KernelOK'
    BY <1>1, <1>2, <2>1, <2>2, <2>3 DEF KernelOK, CallerOK, Locals, In, Fits, KernelPlaces
  <2>5. QED BY <2>1, <2>3, <2>4, OnlyCpu
<1>9. CASE user_program_start
  <2>1. /\ KernelOK /\ UNCHANGED <<stack, thread, local, tf, alive>> /\ cpu.mode = "S" /\ cpu.pc = "start"
        /\ cpu' = [cpu EXCEPT !.sscratch = cpu.sp, !.pc = "enter"]
    BY <1>1, <1>9, HartFacts DEF user_program_start, In, KernelPlaces
  <2>2. cpu.sp = Position(cpu.tp, 0) /\ Len(stack[cpu.tp]) = 0
    BY <1>1, <2>1 DEF KernelOK, In, Fits
  <2>3. /\ cpu' \in Cpus /\ cpu'.tp = cpu.tp /\ cpu'.mode = "S" /\ cpu'.pc = "enter"
        /\ cpu'.sie = cpu.sie /\ cpu'.sp = cpu.sp /\ cpu'.sscratch = cpu.sp
    <3>1. cpu.sp \in Positions
      BY <1>1, <2>2, PositionTypes
    <3>2. QED BY <1>1, <2>1, <3>1 DEF Cpus, KernelPlaces
  <2>4. KernelOK'
    BY <1>1, <2>1, <2>2, <2>3 DEF KernelOK, In, Fits, KernelPlaces
  <2>5. QED BY <2>1, <2>3, <2>4, OnlyCpu
<1>10. CASE enter_user_mode
  <2>1. /\ KernelOK /\ UNCHANGED <<stack, thread, local, tf, alive>> /\ cpu.mode = "S" /\ cpu.pc = "enter"
        /\ cpu' = sret([cpu EXCEPT !.sepc = Entry, !.spp = "U", !.spie = TRUE, !.sp = UserStack])
    BY <1>1, <1>10, HartFacts DEF enter_user_mode, In, KernelPlaces
  <2>2. cpu.sscratch = Position(cpu.tp, 0) /\ Len(stack[cpu.tp]) = 0
    BY <1>1, <2>1 DEF KernelOK, In, Fits
  <2>3. /\ cpu' \in Cpus /\ cpu'.tp = cpu.tp /\ cpu'.mode = "U" /\ cpu'.pc = Entry
        /\ cpu'.sp = UserStack /\ cpu'.sscratch = cpu.sscratch
    BY <1>1, <2>1 DEF Cpus, Modes, sret, Entry, UserPlaces
  <2>4. UserOK'
    BY <2>1, <2>2, <2>3 DEF UserOK, Entry, UserPlaces
  <2>5. QED BY <2>1, <2>3, <2>4, OnlyCpu
<1>11. QED
  BY <1>3, <1>4, <1>5, <1>6, <1>7, <1>8, <1>9, <1>10

-----------------------------------------------------------------------------
(* Traps and returns *)

\* A trap finds the running thread's own kernel stack.
LEMMA KernelSpIsOwn ==
    ASSUME IInv, cpu.mode = "U" \/ cpu.sie
    PROVE  /\ KernelSp = Position(cpu.tp, Len(stack[cpu.tp]))
           /\ cpu.mode = "U" => Len(stack[cpu.tp]) = 0
           /\ cpu.mode = "S" => cpu.sie /\ cpu.pc \in {"kernel", "window"} /\ cpu.sscratch = Nowhere
           /\ cpu.pc \in UserPlaces \cup KernelPlaces
<1>1. CASE cpu.mode = "U"
  <2>1. cpu.sscratch = Position(cpu.tp, 0) /\ Len(stack[cpu.tp]) = 0
    BY <1>1, HartFacts DEF UserOK
  <2>2. cpu.sscratch # Nowhere
    BY <2>1, HartFacts, PositionTypes
  <2>3. QED BY <1>1, <2>1, <2>2, HartFacts DEF KernelSp
<1>2. CASE cpu.mode = "S"
  <2>1. KernelOK /\ cpu.sie
    BY <1>2, HartFacts
  <2>2. QED BY <1>2, <2>1, HartFacts DEF KernelOK, In, KernelSp
<1>3. QED
  BY <1>1, <1>2, HartFacts DEF Cpus, Modes

\* What trap_entry leaves on the stack.
LEMMA TrapStack ==
    ASSUME IInv, cpu.mode = "U" \/ cpu.sie,
           NEW pc \in UserPlaces \cup KernelPlaces, NEW cause \in {"ecall", "other"},
           Room, trap_entry(pc, cause)
    PROVE  /\ Pushed(pc, cause) \in Frames
           /\ stack' = [stack EXCEPT ![cpu.tp] = Append(stack[cpu.tp], Pushed(pc, cause))]
           /\ stack'[cpu.tp] \in Seq(Frames)
           /\ Len(stack'[cpu.tp]) = Len(stack[cpu.tp]) + 1 /\ Len(stack'[cpu.tp]) \in 1..MaxFrames
           /\ \A i \in 1..Len(stack'[cpu.tp]) : stack'[cpu.tp][i] =
                 IF i <= Len(stack[cpu.tp]) THEN stack[cpu.tp][i] ELSE Pushed(pc, cause)
           /\ \A t \in Threads \ {cpu.tp} : stack'[t] = stack[t]
           /\ cpu' = [cpu EXCEPT !.mode = "S", !.sie = FALSE, !.spp = cpu.mode, !.spie = cpu.sie,
                     !.sepc = cpu.pc, !.sscratch = Nowhere,
                     !.sp = Position(cpu.tp, Len(stack[cpu.tp]) + 1), !.pc = "handler"]
<1> DEFINE q == stack[cpu.tp]
           f == Pushed(pc, cause)
           a == Append(q, f)
<1>1. /\ cpu \in Cpus /\ cpu.tp \in Threads /\ q \in Seq(Frames) /\ Len(q) \in 0..MaxFrames
      /\ stack \in [Threads -> Seq(Frames)]
  BY HartFacts DEF IInv, Types
<1>2. KernelSp = Position(cpu.tp, Len(q))
  BY KernelSpIsOwn
<1>3. /\ KernelSp.owner = cpu.tp /\ KernelSp.frames = Len(q) /\ Len(q) < MaxFrames
      /\ [KernelSp EXCEPT !.frames = @ + 1] = Position(cpu.tp, Len(q) + 1)
  BY <1>1, <1>2, PositionTypes, TrapAssumption DEF Room, Position
<1>4. f \in Frames
  BY <1>1 DEF Pushed, Frames, Cpus, Modes
<1> HIDE DEF f
<1>5. /\ SubSeq(q, 1, Len(q)) \o <<f>> = a
      /\ a \in Seq(Frames) /\ Len(a) = Len(q) + 1
      /\ \A i \in 1..(Len(q) + 1) : a[i] = IF i <= Len(q) THEN q[i] ELSE f
  BY <1>1, <1>4, PushElements
<1>6. stack' = [stack EXCEPT ![cpu.tp] = a]
  BY <1>3, <1>5 DEF trap_entry, f
<1> HIDE DEF a, q
<1>7. stack'[cpu.tp] = a /\ \A t \in Threads \ {cpu.tp} : stack'[t] = stack[t]
  BY <1>1, <1>6
<1>8. Len(a) \in 1..MaxFrames
  BY <1>1, <1>3, <1>5, TrapAssumption
<1>9. cpu' = [cpu EXCEPT !.mode = "S", !.sie = FALSE, !.spp = cpu.mode, !.spie = cpu.sie,
                     !.sepc = cpu.pc, !.sscratch = Nowhere,
                     !.sp = Position(cpu.tp, Len(q) + 1), !.pc = "handler"]
  BY <1>3 DEF trap_entry
<1>10. QED
  BY <1>4, <1>5, <1>6, <1>7, <1>8, <1>9 DEF a, q, f

LEMMA TrapOK ==
    ASSUME IInv, cpu.mode = "U" \/ cpu.sie,
           NEW pc \in UserPlaces \cup KernelPlaces, NEW cause \in {"ecall", "other"},
           Room, trap_entry(pc, cause),
           cpu.mode = "U" => pc \in UserPlaces,
           cpu.mode = "S" => pc = cpu.pc /\ cause = "other",
           tf' = IF cause = "ecall" THEN [tf EXCEPT ![cpu.tp] = Position(cpu.tp, 1)] ELSE tf
    PROVE  IInv'
<1> DEFINE n == Len(stack[cpu.tp])
           f == Pushed(pc, cause)
<1>1. /\ Types /\ cpu \in Cpus /\ cpu.tp \in Threads /\ cpu.tp \in alive /\ StackOK(cpu.tp)
      /\ n \in 0..MaxFrames
  BY HartFacts DEF IInv
<1>2. /\ f \in Frames
      /\ stack' = [stack EXCEPT ![cpu.tp] = Append(stack[cpu.tp], f)]
      /\ stack'[cpu.tp] \in Seq(Frames)
      /\ Len(stack'[cpu.tp]) = n + 1 /\ Len(stack'[cpu.tp]) \in 1..MaxFrames
      /\ \A i \in 1..Len(stack'[cpu.tp]) : stack'[cpu.tp][i] = IF i <= n THEN stack[cpu.tp][i] ELSE f
      /\ \A t \in Threads \ {cpu.tp} : stack'[t] = stack[t]
      /\ cpu' = [cpu EXCEPT !.mode = "S", !.sie = FALSE, !.spp = cpu.mode, !.spie = cpu.sie,
                     !.sepc = cpu.pc, !.sscratch = Nowhere,
                     !.sp = Position(cpu.tp, n + 1), !.pc = "handler"]
  BY TrapStack
<1>3. UNCHANGED <<thread, local, alive>>
  BY DEF trap_entry
<1>4. /\ cpu.mode = "U" => n = 0
      /\ cpu.mode = "S" => cpu.sie /\ cpu.pc \in {"kernel", "window"}
      /\ cpu.pc \in UserPlaces \cup KernelPlaces
  BY KernelSpIsOwn
<1>5. f = [scause |-> cause, sepc |-> pc, spp |-> cpu.mode, spie |-> cpu.sie,
           sp |-> cpu.sp, tp |-> cpu.tp, reg |-> cpu.reg]
  BY DEF Pushed
<1> HIDE DEF f
<1>6. n + 1 \in 0..MaxFrames
  BY <1>1, <1>2
<1>7. /\ cpu' \in Cpus /\ cpu'.tp = cpu.tp /\ cpu'.mode = "S" /\ cpu'.pc = "handler"
      /\ cpu'.sie = FALSE /\ cpu'.sscratch = Nowhere /\ cpu'.sp = Position(cpu.tp, n + 1)
  <2>1. Position(cpu.tp, n + 1) \in Positions
    BY <1>1, <1>6, PositionTypes
  <2>2. QED BY <1>1, <1>2, <1>4, <2>1 DEF Cpus, Modes, KernelPlaces
<1>8. Types'
  <2>1. stack' \in [Threads -> Seq(Frames)]
    BY <1>1, <1>2 DEF Types
  <2>2. \A t \in Threads : Len(stack'[t]) <= MaxFrames
    BY <1>1, <1>2, TrapAssumption DEF Types
  <2>3. tf' \in [Threads -> Positions \cup {Nowhere}]
    <3>1. Position(cpu.tp, 1) \in Positions
      BY <1>1, PositionTypes, TrapAssumption
    <3>2. QED BY <1>1, <3>1 DEF Types
  <2>4. QED BY <1>1, <1>3, <1>7, <2>1, <2>2, <2>3 DEF Types
<1>9. FrameOK(cpu.tp, n + 1, f)
  <2>1. CASE cpu.mode = "U"
    <3>1. cpu.sp = UserStack BY <2>1, HartFacts DEF UserOK
    <3>2. QED BY <1>4, <1>5, <2>1, <3>1 DEF FrameOK
  <2>2. CASE cpu.mode = "S"
    <3>1. cpu.sp = Position(cpu.tp, n) /\ Fits(cpu.pc, n)
      BY <1>4, <2>2, HartFacts DEF KernelOK, In
    <3>2. n + 1 - 1 = n BY <1>1
    <3>3. QED BY <1>4, <1>5, <2>2, <3>1, <3>2 DEF FrameOK
  <2>3. QED BY <1>1, <2>1, <2>2 DEF Cpus, Modes
<1>10. StackOK(cpu.tp)'
  <2>1. \A i \in 1..Len(stack'[cpu.tp]) : FrameOK(cpu.tp, i, stack'[cpu.tp][i])
    <3> TAKE i \in 1..Len(stack'[cpu.tp])
    <3>1. CASE i <= n
      BY <1>1, <1>2, <3>1 DEF StackOK
    <3>2. CASE ~(i <= n)
      <4>1. i = n + 1 BY <1>1, <1>2, <3>2
      <4>2. QED BY <1>2, <1>9, <3>2, <4>1
    <3>3. QED BY <3>1, <3>2
  <2>2. stack'[cpu.tp][1].scause = "ecall" => tf'[cpu.tp] = Position(cpu.tp, 1)
    <3>1. CASE n >= 1
      <4>1. cpu.mode = "S" BY <1>1, <1>4, <3>1 DEF Cpus, Modes
      <4>2. tf' = tf BY <4>1
      <4>3. stack'[cpu.tp][1] = stack[cpu.tp][1] BY <1>1, <1>2, <3>1
      <4>4. QED BY <1>1, <3>1, <4>2, <4>3 DEF StackOK
    <3>2. CASE n = 0
      <4>1. stack'[cpu.tp][1].scause = cause
        BY <1>2, <1>5, <3>2
      <4>2. QED BY <1>1, <4>1 DEF Types
    <3>3. QED BY <1>1, <3>1, <3>2
  <2>3. QED BY <1>7, <2>1, <2>2 DEF StackOK
<1>11. \A t \in alive' : StackOK(t)'
  <2> TAKE t \in alive'
  <2>1. CASE t = cpu.tp
    BY <1>7, <1>10, <2>1 DEF StackOK
  <2>2. CASE t # cpu.tp
    <3>1. t \in Threads /\ StackOK(t) BY <1>1, <1>3 DEF IInv, Types
    <3>2. stack'[t] = stack[t] /\ tf'[t] = tf[t] BY <1>1, <1>2, <2>2, <3>1 DEF Types
    <3>3. QED BY <3>1, <3>2 DEF StackOK
  <2>3. QED BY <2>1, <2>2
<1>12. \A t \in alive' \ {cpu'.tp} : ContextOK(t)'
  <2> TAKE t \in alive' \ {cpu'.tp}
  <2>1. t \in Threads \ {cpu.tp} /\ ContextOK(t) BY <1>1, <1>3, <1>7 DEF IInv, Types
  <2>2. QED BY <1>2, <1>3, <2>1 DEF ContextOK
<1>13. KernelOK'
  BY <1>1, <1>2, <1>7 DEF KernelOK, In, Fits, KernelPlaces
<1>14. QED
  BY <1>1, <1>3, <1>7, <1>8, <1>11, <1>12, <1>13 DEF IInv

LEMMA InterruptOK == ASSUME IInv, interrupt PROVE IInv'
<1>1. /\ cpu.mode = "U" \/ cpu.sie
      /\ Room /\ trap_entry(cpu.pc, "other") /\ tf' = tf
  BY DEF interrupt
<1>2. cpu.pc \in UserPlaces \cup KernelPlaces
  BY <1>1, KernelSpIsOwn
<1>3. cpu.mode = "U" => cpu.pc \in UserPlaces
  BY HartFacts
<1>4. QED
  BY <1>1, <1>2, <1>3, TrapOK

LEMMA EcallOK == ASSUME IInv, ecall PROVE IInv'
<1>1. /\ cpu.mode = "U" /\ Room /\ trap_entry(AfterEcall(cpu.pc), "ecall")
      /\ tf' = [tf EXCEPT ![cpu.tp] = [KernelSp EXCEPT !.frames = @ + 1]]
  BY DEF ecall
<1>2. [KernelSp EXCEPT !.frames = @ + 1] = Position(cpu.tp, 1)
  BY <1>1, KernelSpIsOwn DEF Position
<1>3. AfterEcall(cpu.pc) \in UserPlaces
  BY DEF AfterEcall, UserPlaces
<1>4. QED
  BY <1>1, <1>2, <1>3, TrapOK

\* What the return to an interrupted activity leaves.
LEMMA ReturnStack ==
    ASSUME IInv, ret_regs
    PROVE  LET n == Len(stack[cpu.tp])
               f == stack[cpu.tp][n]
           IN /\ n \in 1..MaxFrames /\ f \in Frames /\ FrameOK(cpu.tp, n, f) /\ KernelOK /\ cpu.mode = "S"
              /\ stack' = [stack EXCEPT ![cpu.tp] = SubSeq(stack[cpu.tp], 1, n - 1)]
              /\ stack'[cpu.tp] \in Seq(Frames) /\ Len(stack'[cpu.tp]) = n - 1
              /\ \A i \in 1..(n - 1) : stack'[cpu.tp][i] = stack[cpu.tp][i]
              /\ \A t \in Threads \ {cpu.tp} : stack'[t] = stack[t]
              /\ cpu' \in Cpus /\ cpu'.mode = f.spp /\ cpu'.sie = f.spie /\ cpu'.pc = f.sepc
              /\ cpu'.tp = cpu.tp /\ cpu'.reg = f.reg /\ cpu'.sp = f.sp
              /\ cpu'.sscratch = IF f.spp = "U" THEN Position(cpu.tp, n - 1) ELSE Nowhere
<1> DEFINE n == Len(stack[cpu.tp])
           f == stack[cpu.tp][n]
<1>1. /\ cpu \in Cpus /\ cpu.tp \in Threads /\ StackOK(cpu.tp) /\ stack[cpu.tp] \in Seq(Frames)
      /\ n \in 0..MaxFrames /\ stack \in [Threads -> Seq(Frames)]
  BY HartFacts DEF IInv, Types
<1>2. cpu.pc = "ret_regs" /\ cpu.mode = "S" /\ KernelOK
  BY <1>1, HartFacts DEF ret_regs, In, KernelPlaces
<1>3. /\ cpu.sp = Position(cpu.tp, n) /\ n \in 1..n /\ n \in 1..MaxFrames
      /\ cpu.spp = f.spp /\ cpu.spie = f.spie /\ cpu.sepc = f.sepc
  BY <1>1, <1>2 DEF KernelOK, In, Fits
<1>4. f \in Frames /\ FrameOK(cpu.tp, n, f)
  BY <1>1, <1>3, ElementOfSeq DEF StackOK
<1>5. n - 1 \in 0..MaxFrames
  BY <1>3, TrapAssumption
<1>6. Frame = f /\ [cpu.sp EXCEPT !.frames = @ - 1] = Position(cpu.tp, n - 1)
  BY <1>1, <1>3 DEF Frame, Base, Position
<1>7. Position(cpu.tp, n - 1) \in Positions /\ Position(cpu.tp, n - 1).owner = cpu.tp
      /\ Position(cpu.tp, n - 1).frames = n - 1
  BY <1>1, <1>5, PositionTypes
<1> HIDE DEF f
<1> DEFINE sp == Position(cpu.tp, n - 1)
<1>8. /\ cpu' = sret([cpu EXCEPT !.sscratch = Scratch(f, sp), !.sp = f.sp, !.tp = f.tp, !.reg = f.reg])
      /\ stack' = [stack EXCEPT ![cpu.tp] = SubSeq(stack[cpu.tp], 1, n - 1)]
  BY <1>6, <1>7 DEF ret_regs
<1> HIDE DEF sp
<1>9. f.tp = cpu.tp /\ Scratch(f, sp) = (IF f.spp = "U" THEN sp ELSE Nowhere)
  BY <1>4 DEF FrameOK, Scratch
<1>10. /\ cpu' \in Cpus /\ cpu'.mode = f.spp /\ cpu'.sie = f.spie /\ cpu'.pc = f.sepc
      /\ cpu'.tp = cpu.tp /\ cpu'.reg = f.reg /\ cpu'.sp = f.sp
      /\ cpu'.sscratch = IF f.spp = "U" THEN sp ELSE Nowhere
  <2> DEFINE s == Scratch(f, sp)
             c == [cpu EXCEPT !.sscratch = s, !.sp = f.sp, !.tp = f.tp, !.reg = f.reg]
  <2>1. s \in Positions \cup {Nowhere}
    BY <1>7, <1>9 DEF sp
  <2>2. /\ f.sp \in Positions \cup {UserStack} /\ f.reg \in Values /\ f.sepc \in UserPlaces \cup KernelPlaces
        /\ f.spp \in Modes /\ f.spie \in BOOLEAN
    BY <1>4 DEF Frames, Modes
  <2> HIDE DEF s
  <2>3. c \in Cpus
    BY <1>1, <1>9, <2>1, <2>2 DEF Cpus
  <2>4. /\ c.spp = f.spp /\ c.spie = f.spie /\ c.sepc = f.sepc /\ c.tp = cpu.tp /\ c.reg = f.reg
        /\ c.sp = f.sp /\ c.sscratch = s
    BY <1>1, <1>3, <1>9 DEF Cpus
  <2>5. cpu' = sret(c)
    BY <1>8 DEF s
  <2> HIDE DEF c
  <2>6. /\ cpu' \in Cpus /\ cpu'.mode = f.spp /\ cpu'.sie = f.spie /\ cpu'.pc = f.sepc
        /\ cpu'.tp = cpu.tp /\ cpu'.reg = f.reg /\ cpu'.sp = f.sp /\ cpu'.sscratch = s
    BY <2>2, <2>3, <2>4, <2>5 DEF sret, Cpus, Modes
  <2>7. QED BY <1>9, <2>6 DEF s
<1>11. /\ SubSeq(stack[cpu.tp], 1, n - 1) \in Seq(Frames)
      /\ Len(SubSeq(stack[cpu.tp], 1, n - 1)) = n - 1
      /\ \A i \in 1..(n - 1) : SubSeq(stack[cpu.tp], 1, n - 1)[i] = stack[cpu.tp][i]
  BY <1>1, <1>3, PopElements
<1>12. /\ stack'[cpu.tp] = SubSeq(stack[cpu.tp], 1, n - 1)
       /\ \A t \in Threads \ {cpu.tp} : stack'[t] = stack[t]
  BY <1>1, <1>8
<1>13. QED
  BY <1>2, <1>3, <1>4, <1>8, <1>10, <1>11, <1>12 DEF f, sp

LEMMA ReturnOK == ASSUME IInv, ret_regs PROVE IInv'
<1> DEFINE n == Len(stack[cpu.tp])
           f == stack[cpu.tp][n]
<1>1. /\ Types /\ cpu \in Cpus /\ cpu.tp \in Threads /\ cpu.tp \in alive /\ StackOK(cpu.tp)
      /\ UNCHANGED <<thread, local, tf, alive>>
  BY HartFacts DEF IInv, ret_regs
<1>2. /\ n \in 1..MaxFrames /\ f \in Frames /\ FrameOK(cpu.tp, n, f)
      /\ stack' = [stack EXCEPT ![cpu.tp] = SubSeq(stack[cpu.tp], 1, n - 1)]
      /\ stack'[cpu.tp] \in Seq(Frames) /\ Len(stack'[cpu.tp]) = n - 1
      /\ \A i \in 1..(n - 1) : stack'[cpu.tp][i] = stack[cpu.tp][i]
      /\ \A t \in Threads \ {cpu.tp} : stack'[t] = stack[t]
      /\ cpu' \in Cpus /\ cpu'.mode = f.spp /\ cpu'.sie = f.spie /\ cpu'.pc = f.sepc
      /\ cpu'.tp = cpu.tp /\ cpu'.sp = f.sp
      /\ cpu'.sscratch = IF f.spp = "U" THEN Position(cpu.tp, n - 1) ELSE Nowhere
  BY ReturnStack
<1> HIDE DEF f
<1>3. n \in Nat /\ n - 1 <= MaxFrames /\ n - 1 \in Nat
  BY <1>2, TrapAssumption
<1>4. Types'
  <2>1. stack' \in [Threads -> Seq(Frames)]
    BY <1>1, <1>2 DEF Types
  <2>2. \A t \in Threads : Len(stack'[t]) <= MaxFrames
    BY <1>1, <1>2, <1>3 DEF Types
  <2>3. QED BY <1>1, <1>2, <2>1, <2>2 DEF Types
<1>5. \A t \in alive' : StackOK(t)'
  <2> TAKE t \in alive'
  <2>1. t \in Threads /\ StackOK(t) BY <1>1 DEF IInv, Types
  <2>2. CASE t = cpu.tp
    BY <1>1, <1>2, <1>3, <2>1, <2>2 DEF StackOK
  <2>3. CASE t # cpu.tp
    BY <1>1, <1>2, <2>1, <2>3 DEF StackOK
  <2>4. QED BY <2>2, <2>3
<1>6. \A t \in alive' \ {cpu'.tp} : ContextOK(t)'
  <2> TAKE t \in alive' \ {cpu'.tp}
  <2>1. t \in Threads \ {cpu.tp} /\ ContextOK(t) BY <1>1, <1>2 DEF IInv, Types
  <2>2. QED BY <1>1, <1>2, <2>1 DEF ContextOK
<1>7. ASSUME f.spp = "U" PROVE UserOK'
  <2>1. n = 1 /\ f.sp = UserStack /\ f.sepc \in UserPlaces
    BY <1>2, <1>7 DEF FrameOK
  <2>2. QED BY <1>2, <1>7, <2>1 DEF UserOK
<1>8. ASSUME f.spp = "S" PROVE KernelOK'
  <2>1. f.sp = Position(cpu.tp, n - 1) /\ f.spie /\ f.sepc \in {"kernel", "window"} /\ Fits(f.sepc, n - 1)
    BY <1>2, <1>8 DEF FrameOK
  <2>2. QED BY <1>2, <1>8, <2>1 DEF KernelOK, In, KernelPlaces
<1>9. QED
  BY <1>1, <1>2, <1>4, <1>5, <1>6, <1>7, <1>8 DEF IInv

-----------------------------------------------------------------------------
(* Switches *)

\* Whoever is switched to goes on as its context says.
LEMMA SwitchOK ==
    ASSUME IInv, NEW next \in alive \ {cpu.tp}, switch_to(next), cpu.mode = "S",
           cpu.sscratch = Nowhere, local'[next] = local[next]
    PROVE  /\ cpu' \in Cpus /\ cpu'.mode = "S" /\ cpu'.sie = FALSE /\ cpu'.sscratch = Nowhere
           /\ cpu'.tp = next /\ cpu'.pc = thread[next].ra /\ cpu'.sp = thread[next].sp
           /\ cpu'.reg = thread[next].reg
           /\ KernelOK' /\ next \in Threads /\ stack' = stack /\ tf' = tf
           /\ thread' \in [Threads -> Contexts]
           /\ thread'[cpu.tp] = [ra |-> "schedule", sp |-> cpu.sp, reg |-> cpu.reg]
           /\ \A t \in Threads \ {cpu.tp} : thread'[t] = thread[t]
<1>1. /\ cpu \in Cpus /\ cpu.tp \in Threads /\ thread \in [Threads -> Contexts] /\ next \in Threads
      /\ ContextOK(next) /\ KernelOK /\ Len(stack[cpu.tp]) \in 0..MaxFrames
  BY HartFacts DEF IInv, Types
<1>2. thread[next] \in Contexts
  BY <1>1
<1>3. /\ cpu' = [cpu EXCEPT !.sie = FALSE, !.pc = thread[next].ra, !.sp = thread[next].sp,
                          !.reg = thread[next].reg, !.tp = next]
      /\ thread' = [thread EXCEPT ![cpu.tp] = [ra |-> "schedule", sp |-> cpu.sp, reg |-> cpu.reg]]
      /\ stack' = stack /\ tf' = tf
  BY DEF switch_to
<1>4. /\ cpu' \in Cpus /\ cpu'.mode = "S" /\ cpu'.sie = FALSE /\ cpu'.sscratch = Nowhere
      /\ cpu'.tp = next /\ cpu'.pc = thread[next].ra /\ cpu'.sp = thread[next].sp
      /\ cpu'.reg = thread[next].reg
  BY <1>1, <1>2, <1>3 DEF Cpus, Contexts, KernelPlaces
<1>5. cpu.sp \in Positions
  BY <1>1, PositionTypes DEF KernelOK
<1>6. [ra |-> "schedule", sp |-> cpu.sp, reg |-> cpu.reg] \in Contexts
  BY <1>1, <1>5 DEF Contexts, Cpus
<1>7. /\ thread' \in [Threads -> Contexts]
      /\ thread'[cpu.tp] = [ra |-> "schedule", sp |-> cpu.sp, reg |-> cpu.reg]
      /\ \A t \in Threads \ {cpu.tp} : thread'[t] = thread[t]
  BY <1>1, <1>3, <1>6
<1>8. KernelOK'
  BY <1>1, <1>2, <1>3, <1>4 DEF KernelOK, ContextOK, Contexts, In, KernelPlaces
<1>9. QED
  BY <1>1, <1>3, <1>4, <1>7, <1>8

LEMMA ScheduleOK == ASSUME IInv, schedule PROVE IInv'
<1>1. PICK next \in Threads : switch_to(next)
  BY DEF schedule
<1>2. /\ cpu.pc \in {"kernel", "handler"} /\ alive' = alive
      /\ local' = [local EXCEPT ![cpu.tp] = [sie |-> cpu.sie, from |-> cpu.pc]]
  BY DEF schedule
<1>3. /\ cpu \in Cpus /\ cpu.tp \in Threads /\ cpu.tp \in alive /\ KernelOK /\ cpu.mode = "S" /\ Types
      /\ cpu.sscratch = Nowhere
  BY <1>2, HartFacts DEF IInv, KernelPlaces, KernelOK, In
<1>4. next \in alive \ {cpu.tp}
  BY <1>1 DEF switch_to
<1>5. /\ local' \in [Threads -> Locals] /\ local'[cpu.tp] = [sie |-> cpu.sie, from |-> cpu.pc]
      /\ \A t \in Threads \ {cpu.tp} : local'[t] = local[t]
  BY <1>2, <1>3 DEF Types, Locals, Cpus
<1>6. local'[next] = local[next]
  BY <1>1, <1>4, <1>5
<1>7. /\ cpu' \in Cpus /\ cpu'.mode = "S" /\ cpu'.tp = next
      /\ KernelOK' /\ stack' = stack /\ tf' = tf
      /\ thread' \in [Threads -> Contexts]
      /\ thread'[cpu.tp] = [ra |-> "schedule", sp |-> cpu.sp, reg |-> cpu.reg]
      /\ \A t \in Threads \ {cpu.tp} : thread'[t] = thread[t]
  BY <1>1, <1>3, <1>4, <1>6, SwitchOK
<1>8. Types'
  BY <1>2, <1>3, <1>5, <1>7 DEF Types
<1>9. \A t \in alive' : StackOK(t)'
  BY <1>2, <1>7 DEF IInv, StackOK
<1>10. \A t \in alive' \ {cpu'.tp} : ContextOK(t)'
  <2> TAKE t \in alive' \ {cpu'.tp}
  <2>1. CASE t = cpu.tp
    <3>1. /\ thread'[t] = [ra |-> "schedule", sp |-> cpu.sp, reg |-> cpu.reg]
          /\ local'[t] = [sie |-> cpu.sie, from |-> cpu.pc] /\ stack'[t] = stack[cpu.tp]
      BY <1>5, <1>7, <2>1
    <3>2. /\ cpu.sp = Position(t, Len(stack[cpu.tp])) /\ Fits(cpu.pc, Len(stack[cpu.tp]))
          /\ cpu.pc = "handler" => ~cpu.sie
      BY <1>2, <1>3, <2>1 DEF KernelOK, In
    <3>3. QED BY <3>1, <3>2 DEF ContextOK, CallerOK
  <2>2. CASE t # cpu.tp
    <3>1. t \in Threads \ {cpu.tp} /\ ContextOK(t) BY <1>2, <1>3, <2>2 DEF IInv, Types
    <3>2. QED BY <1>5, <1>7, <3>1 DEF ContextOK
  <2>3. QED BY <2>1, <2>2
<1>11. QED
  BY <1>2, <1>4, <1>7, <1>8, <1>9, <1>10 DEF IInv

LEMMA ExitOK == ASSUME IInv, thread_exit PROVE IInv'
<1>1. PICK next \in Threads : switch_to(next)
  BY DEF thread_exit
<1>2. /\ cpu.pc = "handler" /\ alive' = alive \ {cpu.tp} /\ local' = local
  BY DEF thread_exit, In
<1>3. /\ cpu.tp \in Threads /\ KernelOK /\ cpu.mode = "S" /\ Types /\ cpu.sscratch = Nowhere
  BY <1>2, HartFacts DEF IInv, KernelPlaces, KernelOK, In
<1>4. next \in alive \ {cpu.tp}
  BY <1>1 DEF switch_to
<1>5. /\ cpu' \in Cpus /\ cpu'.mode = "S" /\ cpu'.tp = next
      /\ KernelOK' /\ stack' = stack /\ tf' = tf
      /\ thread' \in [Threads -> Contexts]
      /\ \A t \in Threads \ {cpu.tp} : thread'[t] = thread[t]
  BY <1>1, <1>2, <1>3, <1>4, SwitchOK
<1>6. Types'
  BY <1>2, <1>3, <1>5 DEF Types
<1>7. \A t \in alive' : StackOK(t)'
  BY <1>2, <1>5 DEF IInv, StackOK
<1>8. \A t \in alive' \ {cpu'.tp} : ContextOK(t)'
  <2> TAKE t \in alive' \ {cpu'.tp}
  <2>1. t \in Threads \ {cpu.tp} /\ ContextOK(t) BY <1>2, <1>3 DEF IInv, Types
  <2>2. QED BY <1>2, <1>5, <2>1 DEF ContextOK
<1>9. QED
  BY <1>2, <1>4, <1>5, <1>6, <1>7, <1>8 DEF IInv

-----------------------------------------------------------------------------
(* New threads, and calls *)

\* A thread that starts with the stack q, in the place ra.
LEMMA NewThreadOK ==
    ASSUME IInv, NEW t \in Threads, t \notin alive, NEW ra \in {"start", "ret"},
           NEW q \in Seq(Frames), Len(q) <= MaxFrames, Fits(ra, Len(q)),
           \A i \in 1..Len(q) : FrameOK(t, i, q[i]),
           alive' = alive \cup {t}, stack' = [stack EXCEPT ![t] = q],
           thread' = [thread EXCEPT ![t].ra = ra, ![t].sp = Position(t, Len(q))],
           NEW p \in Positions \cup {Nowhere}, tf' = [tf EXCEPT ![t] = p],
           Len(q) >= 1 => p = Position(t, 1), UNCHANGED <<cpu, local>>
    PROVE  IInv'
<1>1. /\ Types /\ cpu \in Cpus /\ cpu.tp \in Threads /\ cpu.tp \in alive /\ t # cpu.tp
  BY HartFacts DEF IInv
<1>2. Len(q) \in 0..MaxFrames
  BY LenProperties, TrapAssumption
<1>3. Position(t, Len(q)) \in Positions
  BY <1>2, PositionTypes
<1>4. /\ thread' \in [Threads -> Contexts]
      /\ thread'[t].ra = ra /\ thread'[t].sp = Position(t, Len(q))
      /\ \A u \in Threads \ {t} : thread'[u] = thread[u]
  BY <1>1, <1>3 DEF Types, Contexts
<1>5. /\ stack' \in [Threads -> Seq(Frames)] /\ stack'[t] = q
      /\ \A u \in Threads \ {t} : stack'[u] = stack[u]
  BY <1>1 DEF Types
<1>6. /\ tf' \in [Threads -> Positions \cup {Nowhere}] /\ tf'[t] = p
      /\ \A u \in Threads \ {t} : tf'[u] = tf[u]
  BY <1>1 DEF Types
<1>7. Types'
  BY <1>1, <1>4, <1>5, <1>6 DEF Types
<1>8. \A u \in alive' : StackOK(u)'
  <2> TAKE u \in alive'
  <2>1. CASE u = t
    BY <1>5, <1>6, <2>1 DEF StackOK
  <2>2. CASE u # t
    <3>1. u \in Threads \ {t} /\ StackOK(u) BY <1>1, <2>2 DEF IInv, Types
    <3>2. QED BY <1>5, <1>6, <3>1 DEF StackOK
  <2>3. QED BY <2>1, <2>2
<1>9. \A u \in alive' \ {cpu'.tp} : ContextOK(u)'
  <2> TAKE u \in alive' \ {cpu'.tp}
  <2>1. CASE u = t
    BY <1>4, <1>5, <2>1 DEF ContextOK
  <2>2. CASE u # t
    <3>1. u \in Threads \ {t} /\ ContextOK(u) BY <1>1, <2>2 DEF IInv, Types
    <3>2. QED BY <1>4, <1>5, <3>1 DEF ContextOK
  <2>3. QED BY <2>1, <2>2
<1>10. (cpu'.mode = "U" => UserOK') /\ (cpu'.mode = "S" => KernelOK')
  <2>1. stack'[cpu.tp] = stack[cpu.tp] BY <1>1, <1>5
  <2>2. QED BY <2>1 DEF IInv, UserOK, KernelOK, In
<1>11. QED
  BY <1>1, <1>7, <1>8, <1>9, <1>10 DEF IInv

LEMMA CreateOK == ASSUME IInv, NEW t \in Threads, thread_create(t) PROVE IInv'
<1>1. <<>> \in Seq(Frames) /\ Len(<<>>) = 0 /\ 0 <= MaxFrames
  BY EmptySeq, TrapAssumption
<1>2. /\ t \notin alive /\ alive' = alive \cup {t} /\ stack' = [stack EXCEPT ![t] = <<>>]
      /\ thread' = [thread EXCEPT ![t].ra = "start", ![t].sp = Position(t, 0)]
      /\ tf' = [tf EXCEPT ![t] = Nowhere] /\ UNCHANGED <<cpu, local>>
  BY DEF thread_create
<1>3. Fits("start", Len(<<>>)) /\ \A i \in 1..Len(<<>>) : FrameOK(t, i, <<>>[i])
  BY <1>1 DEF Fits
<1> DEFINE q == <<>>
<1>4. /\ q \in Seq(Frames) /\ Len(q) = 0 /\ stack' = [stack EXCEPT ![t] = q]
      /\ Fits("start", Len(q)) /\ \A i \in 1..Len(q) : FrameOK(t, i, q[i])
  BY <1>1, <1>2, <1>3
<1> HIDE DEF q
<1>5. /\ thread' = [thread EXCEPT ![t].ra = "start", ![t].sp = Position(t, Len(q))]
      /\ Nowhere \in Positions \cup {Nowhere} /\ ~(Len(q) >= 1) /\ Len(q) <= MaxFrames
  BY <1>1, <1>2, <1>4
<1>6. QED
  BY <1>2, <1>4, <1>5, NewThreadOK

\* In a call the only frame is the caller's, whose program is below it.
LEMMA CallFacts ==
    ASSUME IInv, cpu.pc = "handler", Frame.spp = "U" \/ Frame.scause = "ecall"
    PROVE  /\ cpu.mode = "S" /\ cpu.sp = Position(cpu.tp, 1) /\ cpu.sie = FALSE
           /\ Len(stack[cpu.tp]) = 1 /\ Frame = stack[cpu.tp][1] /\ Frame \in Frames
           /\ FrameOK(cpu.tp, 1, Frame) /\ Frame.spp = "U"
           /\ Frame.scause = "ecall" => tf[cpu.tp] = Position(cpu.tp, 1)
<1> DEFINE n == Len(stack[cpu.tp])
           f == stack[cpu.tp][n]
<1>1. /\ cpu \in Cpus /\ cpu.tp \in Threads /\ StackOK(cpu.tp) /\ stack[cpu.tp] \in Seq(Frames)
      /\ n \in 0..MaxFrames /\ cpu.mode = "S" /\ KernelOK
  BY HartFacts DEF KernelPlaces
<1>2. cpu.sp = Position(cpu.tp, n) /\ n \in 1..n /\ ~cpu.sie
  BY <1>1 DEF KernelOK, In, Fits
<1>3. Frame = f
  <2>1. cpu.sp.owner = cpu.tp /\ cpu.sp.frames = n
    BY <1>1, <1>2, PositionTypes
  <2>2. QED BY <2>1 DEF Frame, Base
<1>4. f \in Frames /\ FrameOK(cpu.tp, n, f)
  BY <1>1, <1>2, ElementOfSeq DEF StackOK
<1> HIDE DEF f
<1>5. f.spp = "U" /\ n = 1
  BY <1>3, <1>4 DEF FrameOK, Frames
<1>6. f = stack[cpu.tp][1]
  BY <1>5 DEF f
<1>7. f.scause = "ecall" => tf[cpu.tp] = Position(cpu.tp, 1)
  BY <1>1, <1>5, <1>6 DEF StackOK
<1>8. cpu.sie = FALSE
  BY <1>1, <1>2 DEF Cpus
<1>9. QED
  BY <1>1, <1>2, <1>3, <1>4, <1>5, <1>6, <1>7, <1>8

LEMMA ForkOK == ASSUME IInv, NEW t \in Threads, do_fork(t) PROVE IInv'
<1> DEFINE f == ChildFrame(t)
           q == <<f>>
<1>1. /\ t \notin alive /\ alive' = alive \cup {t} /\ stack' = [stack EXCEPT ![t] = q]
      /\ thread' = [thread EXCEPT ![t].ra = "ret", ![t].sp = Position(t, 1)]
      /\ tf' = [tf EXCEPT ![t] = Position(t, 1)] /\ UNCHANGED <<cpu, local>>
      /\ cpu.pc = "handler" /\ Frame.scause = "ecall"
  BY DEF do_fork, Calling, In
<1>2. Frame \in Frames /\ FrameOK(cpu.tp, 1, Frame) /\ Frame.spp = "U"
  BY <1>1, CallFacts
<1>3. f \in Frames /\ FrameOK(t, 1, f)
  BY <1>2 DEF ChildFrame, Frames, FrameOK
<1> HIDE DEF f
<1>4. q \in Seq(Frames) /\ Len(q) = 1 /\ q[1] = f
  BY <1>3
<1> HIDE DEF q
<1>5. Fits("ret", Len(q)) /\ \A i \in 1..Len(q) : FrameOK(t, i, q[i])
  BY <1>3, <1>4 DEF Fits
<1>6. Position(t, 1) \in Positions /\ 1 <= MaxFrames
  BY PositionTypes, TrapAssumption
<1>7. QED
  BY <1>1, <1>4, <1>5, <1>6, NewThreadOK

\* exec finds the caller's own frame.
LEMMA ExecStack ==
    ASSUME IInv, do_exec
    PROVE  LET f == stack[cpu.tp][1]
               g == [f EXCEPT !.sepc = Entry, !.sp = UserStack]
           IN /\ f \in Frames /\ FrameOK(cpu.tp, 1, f) /\ f.spp = "U" /\ Len(stack[cpu.tp]) = 1
              /\ stack' \in [Threads -> Seq(Frames)] /\ stack'[cpu.tp] \in Seq(Frames)
              /\ Len(stack'[cpu.tp]) = 1 /\ stack'[cpu.tp][1] = g
              /\ \A u \in Threads \ {cpu.tp} : stack'[u] = stack[u]
<1> DEFINE f == stack[cpu.tp][1]
           g == [f EXCEPT !.sepc = Entry, !.sp = UserStack]
           p == Position(cpu.tp, 1)
<1>1. cpu.pc = "handler" /\ Frame.scause = "ecall"
  BY DEF do_exec, Calling, In
<1>2. /\ Len(stack[cpu.tp]) = 1 /\ Frame = f /\ f \in Frames /\ FrameOK(cpu.tp, 1, f) /\ f.spp = "U"
      /\ tf[cpu.tp] = p
  BY <1>1, CallFacts
<1>3. cpu.tp \in Threads /\ stack \in [Threads -> Seq(Frames)] /\ stack[cpu.tp] \in Seq(Frames)
  BY HartFacts DEF IInv, Types
<1>4. p.owner = cpu.tp /\ p.frames = 1
  BY DEF Position
<1>5. stack' = [stack EXCEPT ![cpu.tp][1].sepc = Entry, ![cpu.tp][1].sp = UserStack]
  BY <1>2, <1>4 DEF do_exec
<1>6. g \in Frames
  BY <1>2 DEF Frames, Entry, UserPlaces
<1> DEFINE q == [stack[cpu.tp] EXCEPT ![1] = g]
<1> HIDE DEF g
<1>7. 1 \in 1..Len(stack[cpu.tp])
  BY <1>2
<1>8. q \in Seq(Frames) /\ Len(q) = 1 /\ q[1] = g
  BY <1>2, <1>3, <1>6, <1>7, ExceptSeq
<1>9. stack' = [stack EXCEPT ![cpu.tp] = q]
  <2>1. DOMAIN stack[cpu.tp] = 1..1
    BY <1>2, <1>3, LenProperties
  <2>2. QED BY <1>3, <1>5, <2>1 DEF g
<1> HIDE DEF q
<1>10. /\ stack' \in [Threads -> Seq(Frames)] /\ stack'[cpu.tp] = q
       /\ \A u \in Threads \ {cpu.tp} : stack'[u] = stack[u]
  BY <1>3, <1>8, <1>9
<1>11. QED
  BY <1>2, <1>8, <1>10 DEF g

LEMMA ExecOK == ASSUME IInv, do_exec PROVE IInv'
<1> DEFINE f == stack[cpu.tp][1]
           g == [f EXCEPT !.sepc = Entry, !.sp = UserStack]
<1>1. /\ f \in Frames /\ FrameOK(cpu.tp, 1, f) /\ f.spp = "U" /\ Len(stack[cpu.tp]) = 1
      /\ stack' \in [Threads -> Seq(Frames)]
      /\ Len(stack'[cpu.tp]) = 1 /\ stack'[cpu.tp][1] = g
      /\ \A u \in Threads \ {cpu.tp} : stack'[u] = stack[u]
  BY ExecStack
<1>2. /\ Types /\ cpu \in Cpus /\ cpu.tp \in Threads /\ cpu.tp \in alive /\ StackOK(cpu.tp)
      /\ UNCHANGED <<cpu, thread, local, tf, alive>> /\ cpu.mode = "S" /\ KernelOK /\ cpu.pc = "handler"
  BY HartFacts DEF IInv, do_exec, Calling, In, KernelPlaces
<1>3. FrameOK(cpu.tp, 1, g) /\ g.scause = f.scause
  BY <1>1 DEF FrameOK, Frames, Entry, UserPlaces
<1> HIDE DEF f, g
<1>4. Types'
  BY <1>1, <1>2, TrapAssumption DEF Types
<1>5. \A t \in alive' : StackOK(t)'
  <2> TAKE t \in alive'
  <2>1. t \in Threads /\ StackOK(t) BY <1>2 DEF IInv, Types
  <2>2. CASE t = cpu.tp
    BY <1>1, <1>2, <1>3, <2>1, <2>2 DEF StackOK, f
  <2>3. CASE t # cpu.tp
    BY <1>1, <1>2, <2>1, <2>3 DEF StackOK
  <2>4. QED BY <2>2, <2>3
<1>6. \A t \in alive' \ {cpu'.tp} : ContextOK(t)'
  <2> TAKE t \in alive' \ {cpu'.tp}
  <2>1. t \in Threads \ {cpu.tp} /\ ContextOK(t) BY <1>2 DEF IInv, Types
  <2>2. QED BY <1>1, <1>2, <2>1 DEF ContextOK
<1>7. KernelOK'
  BY <1>1, <1>2 DEF KernelOK, In
<1>8. QED
  BY <1>2, <1>4, <1>5, <1>6, <1>7 DEF IInv

-----------------------------------------------------------------------------
(* The invariant *)

LEMMA StepOK == ASSUME IInv, [Next]_vars PROVE IInv'
<1>1. CASE UNCHANGED vars
  <2>1. UNCHANGED <<cpu, stack, thread, local, tf, alive>>
    BY <1>1 DEF vars
  <2>2. (cpu'.mode = "U" => UserOK') /\ (cpu'.mode = "S" => KernelOK')
    BY <2>1 DEF IInv, UserOK, KernelOK, In
  <2>3. QED BY <2>1, <2>2, OnlyCpu DEF IInv, Types
<1>2. CASE \/ program \/ kernel \/ csr_sie \/ trap_handler_returns \/ _ret_from_fork
           \/ schedule_returns \/ user_program_start \/ enter_user_mode
  BY <1>2, CpuSteps
<1>3. CASE interrupt \/ ecall \/ ret_regs
  BY <1>3, InterruptOK, EcallOK, ReturnOK
<1>4. CASE schedule \/ thread_exit
  BY <1>4, ScheduleOK, ExitOK
<1>5. CASE do_exec \/ \E t \in Threads : thread_create(t) \/ do_fork(t)
  BY <1>5, ExecOK, CreateOK, ForkOK
<1>6. QED
  BY <1>1, <1>2, <1>3, <1>4, <1>5 DEF Next

\* The registers, the frames on every kernel stack and the contexts of threads
\* that wait fit together, after any nesting of traps, switches, forks and exits.
THEOREM Invariance == Spec => []IInv
<1>1. IInv /\ [Next]_vars => IInv'
  BY StepOK
<1>2. QED
  BY <1>1, InitOK, PTL DEF Spec

\* sscratch is zero whenever a trap can come from the kernel, and the running
\* thread's own stack otherwise: trap_entry pushes its frame where it belongs.
THEOREM TrapFindsItsStack == Spec => []SscratchTellsMode
<1>1. IInv => SscratchTellsMode
  <2> SUFFICES ASSUME IInv PROVE SscratchTellsMode
    OBVIOUS
  <2>1. /\ Types /\ cpu \in Cpus /\ cpu.tp \in Threads /\ Len(stack[cpu.tp]) \in 0..MaxFrames
        /\ cpu.mode = "U" => UserOK
        /\ cpu.mode = "S" => KernelOK
    BY HartFacts DEF IInv
  <2>2. cpu.mode = "S" => cpu.sp \in Positions /\ cpu.sp.owner = cpu.tp
    BY <2>1, PositionTypes DEF KernelOK
  <2>3. \A t \in Threads : Range(stack[t]) \subseteq Frames
    BY StackTypes, <2>1, RangeOfSeq
  <2>4. \A t \in Threads : thread[t].sp \in Positions
    <3> TAKE t \in Threads
    <3>1. thread[t] \in Contexts BY <2>1 DEF Types
    <3>2. QED BY <3>1 DEF Contexts
  <2>5. TypeOK
    BY <2>1, <2>2, <2>3, <2>4 DEF TypeOK, Types, Cpus, Modes, UserOK, KernelOK
  <2>6. QED
    BY <2>1, <2>2, <2>5 DEF SscratchTellsMode, UserOK, KernelOK, In
<1>2. QED
  BY <1>1, Invariance, PTL

-----------------------------------------------------------------------------
(* Activities *)

Activities ==
    [mode : Modes, sie : BOOLEAN, at : UserPlaces \cup {"kernel", "handler", "leaving", "start"},
     tp : Threads, reg : Values]

\* What lies below the innermost activity of a thread.
Below(t) == [i \in 1..Len(stack[t]) |-> Interrupted(stack[t][i])]

\* The innermost activity of the thread that runs, and of one that waits.
Top(t) ==
    IF t = cpu.tp
    THEN IF In("schedule") THEN Activity("S", local[t].sie, local[t].from, cpu.reg, t)
                           ELSE Activity(cpu.mode, cpu.sie, cpu.pc, cpu.reg, t)
    ELSE IF thread[t].ra = "schedule"
         THEN Activity("S", local[t].sie, local[t].from, thread[t].reg, t)
         ELSE Activity("S", FALSE, thread[t].ra, thread[t].reg, t)

\* A thread's activities are those of its frames and the innermost one.
ActsShape ==
    \A t \in Threads :
        /\ t \notin alive => Acts(t) = <<>>
        /\ t \in alive => /\ Acts(t) = Below(t) \o <<Top(t)>>
                          /\ Below(t) \in Seq(Activities) /\ Len(Below(t)) = Len(stack[t])
                          /\ Top(t) \in Activities

LEMMA ActivityType ==
    ASSUME NEW mode \in Modes, NEW sie \in BOOLEAN, NEW pc \in (UserPlaces \cup KernelPlaces) \ {"schedule"},
           NEW reg \in Values, NEW tp \in Threads
    PROVE  Activity(mode, sie, pc, reg, tp) \in Activities
<1>1. Place(pc) \in UserPlaces \cup {"kernel", "handler", "leaving", "start"}
  BY DEF Place, UserPlaces, KernelPlaces
<1>2. (IF Place(pc) = "leaving" THEN 0 ELSE reg) \in Values
  BY TrapAssumption
<1>3. QED
  BY <1>1, <1>2 DEF Activity, Activities

LEMMA ActivityFields ==
    ASSUME NEW mode, NEW sie \in BOOLEAN, NEW pc, NEW reg, NEW tp
    PROVE  /\ Activity(mode, sie, pc, reg, tp).mode = mode /\ Activity(mode, sie, pc, reg, tp).sie = sie
           /\ Activity(mode, sie, pc, reg, tp).at = Place(pc) /\ Activity(mode, sie, pc, reg, tp).tp = tp
           /\ Place(pc) # "leaving" => Activity(mode, sie, pc, reg, tp).reg = reg
           /\ Place(pc) # "leaving" => Activity(mode, sie, pc, reg, tp) =
                [mode |-> mode, sie |-> sie, at |-> Place(pc), tp |-> tp, reg |-> reg]
  BY DEF Activity

\* An activity with some of its fields changed.
LEMMA ActivityExcept ==
    ASSUME NEW r \in Activities
    PROVE  /\ \A s \in BOOLEAN : [r EXCEPT !.sie = s] =
                [mode |-> r.mode, sie |-> s, at |-> r.at, tp |-> r.tp, reg |-> r.reg]
           /\ \A pc : [r EXCEPT !.at = pc] =
                [mode |-> r.mode, sie |-> r.sie, at |-> pc, tp |-> r.tp, reg |-> r.reg]
           /\ \A t : [r EXCEPT !.tp = t] =
                [mode |-> r.mode, sie |-> r.sie, at |-> r.at, tp |-> t, reg |-> r.reg]
           /\ \A pc \in UserPlaces, v \in Values : [r EXCEPT !.at = pc, !.reg = v] =
                [mode |-> r.mode, sie |-> r.sie, at |-> pc, tp |-> r.tp, reg |-> v]
           /\ \A s \in BOOLEAN, v \in Values : [r EXCEPT !.sie = s, !.reg = v] =
                [mode |-> r.mode, sie |-> s, at |-> r.at, tp |-> r.tp, reg |-> v]
<1>1. ASSUME NEW s \in BOOLEAN
      PROVE  [r EXCEPT !.sie = s] = [mode |-> r.mode, sie |-> s, at |-> r.at, tp |-> r.tp, reg |-> r.reg]
  BY DEF Activities
<1>2. ASSUME NEW pc
      PROVE  [r EXCEPT !.at = pc] = [mode |-> r.mode, sie |-> r.sie, at |-> pc, tp |-> r.tp, reg |-> r.reg]
  BY DEF Activities
<1>3. ASSUME NEW t
      PROVE  [r EXCEPT !.tp = t] = [mode |-> r.mode, sie |-> r.sie, at |-> r.at, tp |-> t, reg |-> r.reg]
  BY DEF Activities
<1>4. ASSUME NEW pc \in UserPlaces, NEW v \in Values
      PROVE  [r EXCEPT !.at = pc, !.reg = v] =
                [mode |-> r.mode, sie |-> r.sie, at |-> pc, tp |-> r.tp, reg |-> v]
  <2> DEFINE q == [r EXCEPT !.at = pc, !.reg = v]
  <2>1. /\ q \in Activities /\ q.mode = r.mode /\ q.sie = r.sie /\ q.at = pc /\ q.tp = r.tp
        /\ q.reg = v
    BY DEF Activities
  <2> HIDE DEF q
  <2>2. q = [mode |-> r.mode, sie |-> r.sie, at |-> pc, tp |-> r.tp, reg |-> v]
    BY <2>1 DEF Activities
  <2>3. QED BY <2>2 DEF q
<1>5. ASSUME NEW s \in BOOLEAN, NEW v \in Values
      PROVE  [r EXCEPT !.sie = s, !.reg = v] =
                [mode |-> r.mode, sie |-> s, at |-> r.at, tp |-> r.tp, reg |-> v]
  <2> DEFINE q == [r EXCEPT !.sie = s, !.reg = v]
  <2>1. /\ q \in Activities /\ q.mode = r.mode /\ q.sie = s /\ q.at = r.at /\ q.tp = r.tp
        /\ q.reg = v
    BY DEF Activities
  <2> HIDE DEF q
  <2>2. q = [mode |-> r.mode, sie |-> s, at |-> r.at, tp |-> r.tp, reg |-> v]
    BY <2>1 DEF Activities
  <2>3. QED BY <2>2 DEF q
<1>6. QED
  BY <1>1, <1>2, <1>3, <1>4, <1>5

LEMMA Shape == IInv => ActsShape
<1> SUFFICES ASSUME IInv, NEW t \in Threads
             PROVE  /\ t \notin alive => Acts(t) = <<>>
                    /\ t \in alive => /\ Acts(t) = Below(t) \o <<Top(t)>>
                                      /\ Below(t) \in Seq(Activities) /\ Len(Below(t)) = Len(stack[t])
                                      /\ Top(t) \in Activities
  BY DEF ActsShape
<1>1. /\ Types /\ cpu \in Cpus /\ cpu.tp \in Threads /\ cpu.tp \in alive /\ cpu.mode \in {"U", "S"}
      /\ Len(stack[cpu.tp]) \in 0..MaxFrames
      /\ cpu.mode = "U" => UserOK
      /\ cpu.mode = "S" => KernelOK
  BY HartFacts DEF IInv, Types, Cpus, Modes
<1>2. Running = Position(cpu.tp, Len(stack[cpu.tp]))
  BY <1>1 DEF Running, UserOK, KernelOK
<1>3. Running.owner = cpu.tp /\ Running.frames = Len(stack[cpu.tp])
  BY <1>1, <1>2, PositionTypes
<1>4. t \notin alive => Acts(t) = <<>>
  BY DEF Acts
<1>5. ASSUME t \in alive PROVE Below(t) \in Seq(Activities) /\ Len(Below(t)) = Len(stack[t])
  <2>1. /\ StackOK(t) /\ stack[t] \in Seq(Frames) /\ Len(stack[t]) \in Nat
        /\ \A i \in 1..Len(stack[t]) : stack[t][i] \in Frames
    BY <1>1, <1>5, StackTypes DEF IInv
  <2>2. ASSUME NEW i \in 1..Len(stack[t]) PROVE Interrupted(stack[t][i]) \in Activities
    <3> DEFINE f == stack[t][i]
    <3>1. f \in Frames /\ FrameOK(t, i, f) BY <2>1 DEF StackOK
    <3> HIDE DEF f
    <3>2. /\ f.sepc \in (UserPlaces \cup KernelPlaces) \ {"schedule"} /\ f.spp \in Modes /\ f.spie \in BOOLEAN
          /\ f.tp \in Threads /\ f.reg \in Values
      BY <3>1 DEF Frames, FrameOK, Modes, UserPlaces, KernelPlaces
    <3>3. Interrupted(f) \in Activities BY <3>2, ActivityType DEF Interrupted
    <3>4. QED BY <3>3 DEF f
  <2>3. Below(t) \in [1..Len(stack[t]) -> Activities]
    BY <2>2 DEF Below
  <2>4. QED BY <2>1, <2>3, FunctionIsSeq
<1>6. ASSUME t \in alive, t = cpu.tp
      PROVE  Acts(t) = Below(t) \o <<Top(t)>> /\ Top(t) \in Activities
  <2>1. Innermost(t) = Top(t)
    BY <1>3, <1>6 DEF Innermost, Top, In
  <2>2. Acts(t) = Below(t) \o <<Top(t)>>
    BY <1>3, <1>6, <2>1 DEF Acts, Below
  <2>3. local[t] \in Locals
    BY <1>1 DEF Types
  <2>4. Top(t) \in Activities
    <3>1. CASE In("schedule")
      BY <1>1, <1>6, <2>3, <3>1, ActivityType DEF Top, Locals, KernelPlaces, Cpus, Modes
    <3>2. CASE ~In("schedule")
      <4>1. cpu.pc \in (UserPlaces \cup KernelPlaces) \ {"schedule"}
        BY <1>1, <3>2 DEF Cpus, In, UserPlaces
      <4>2. QED BY <1>1, <1>6, <3>2, <4>1, ActivityType DEF Top, Cpus
    <3>3. QED BY <3>1, <3>2
  <2>5. QED BY <2>2, <2>4
<1>7. ASSUME t \in alive, t # cpu.tp
      PROVE  Acts(t) = Below(t) \o <<Top(t)>> /\ Top(t) \in Activities
  <2>1. ContextOK(t) /\ Len(stack[t]) \in 0..MaxFrames /\ thread[t] \in Contexts /\ local[t] \in Locals
    BY <1>1, <1>7, StackTypes DEF IInv, Types
  <2>2. thread[t].sp.frames = Len(stack[t])
    BY <2>1, PositionTypes DEF ContextOK
  <2>3. Innermost(t) = Top(t)
    BY <1>3, <1>7 DEF Innermost, Top
  <2>4. Acts(t) = Below(t) \o <<Top(t)>>
    BY <1>3, <1>7, <2>2, <2>3 DEF Acts, Below
  <2>5. Top(t) \in Activities
    <3>1. CASE thread[t].ra = "schedule"
      BY <1>7, <2>1, <3>1, ActivityType DEF Top, Locals, Contexts, KernelPlaces, Modes
    <3>2. CASE thread[t].ra # "schedule"
      BY <1>7, <2>1, <3>2, ActivityType DEF Top, Contexts, KernelPlaces, Modes
    <3>3. QED BY <3>1, <3>2
  <2>6. QED BY <2>4, <2>5
<1>8. QED
  BY <1>4, <1>5, <1>6, <1>7

-----------------------------------------------------------------------------
(* The refinement *)

LEMMA InitMaps == Init => Hart!Init
<1> SUFFICES ASSUME Init PROVE Hart!Init
  OBVIOUS
<1>1. ActsShape /\ IInv
  BY InitOK, Shape
<1> DEFINE b == Activity("S", TRUE, "kernel", 0, Boot)
<1>2. Top(Boot) = b
  BY DEF Init, Top, In
<1>3. Boot \in alive /\ alive = {Boot} /\ Boot \in Threads /\ stack[Boot] = <<>>
  BY TrapAssumption DEF Init
<1>4. Below(Boot) = <<>>
  BY <1>1, <1>3, EmptySeq DEF ActsShape
<1>5. Top(Boot) \in Activities
  BY <1>1, <1>3 DEF ActsShape
<1> HIDE DEF b
<1>6. Acts(Boot) = <<b>>
  <2>1. Acts(Boot) = <<>> \o <<b>>
    BY <1>1, <1>2, <1>3, <1>4 DEF ActsShape
  <2>2. <<b>> \in Seq(Activities)
    BY <1>2, <1>5
  <2>3. QED BY <2>1, <2>2, ConcatEmptySeq
<1>7. \A t \in Threads \ {Boot} : Acts(t) = <<>>
  BY <1>1, <1>3 DEF ActsShape
<1>8. b = [Hart!New(Boot, "S", "kernel", 0) EXCEPT !.sie = TRUE]
  <2> DEFINE r == Hart!New(Boot, "S", "kernel", 0)
  <2>1. r \in Activities /\ r.mode = "S" /\ r.at = "kernel" /\ r.reg = 0 /\ r.tp = Boot
    BY TrapAssumption DEF Hart!New, Activities, Modes
  <2>2. b = [mode |-> "S", sie |-> TRUE, at |-> "kernel", tp |-> Boot, reg |-> 0]
    BY DEF Activity, Place, b
  <2> HIDE DEF r
  <2>3. b = [r EXCEPT !.sie = TRUE]
    BY <2>1, <2>2, ActivityExcept
  <2>4. QED BY <2>3 DEF r
<1>9. QED
  BY <1>6, <1>7, <1>8 DEF Hart!Init, acts

\* The innermost activity and the ones below it.
LEMMA InnerFacts ==
    ASSUME IInv, NEW t \in alive
    PROVE  /\ t \in Threads /\ acts[t] = Below(t) \o <<Top(t)>> /\ acts[t] # <<>>
           /\ acts[t] \in Seq(Activities) /\ Len(acts[t]) = Len(stack[t]) + 1
           /\ Hart!Inner(t) = Top(t) /\ Top(t) \in Activities
           /\ Front(acts[t]) = Below(t) /\ Below(t) \in Seq(Activities)
<1>1. t \in Threads /\ ActsShape
  BY Shape DEF IInv, Types
<1>2. acts[t] = Below(t) \o <<Top(t)>>
  BY <1>1 DEF ActsShape, acts
<1>3. Below(t) \in Seq(Activities) /\ Top(t) \in Activities /\ Len(Below(t)) = Len(stack[t])
  BY <1>1 DEF ActsShape
<1>4. /\ Below(t) \o <<Top(t)>> \in Seq(Activities) /\ Len(Below(t) \o <<Top(t)>>) = Len(Below(t)) + 1
      /\ Below(t) \o <<Top(t)>> # <<>>
      /\ Last(Below(t) \o <<Top(t)>>) = Top(t) /\ Front(Below(t) \o <<Top(t)>>) = Below(t)
  BY <1>3, LastAndFront
<1>5. QED
  BY <1>1, <1>2, <1>3, <1>4 DEF Hart!Inner, Hart!Last, Last

\* A thread that neither runs nor ran, and to which nothing was done.
LEMMA OthersKeep ==
    ASSUME IInv, IInv', NEW u \in Threads, u # cpu.tp, u # cpu'.tp,
           stack'[u] = stack[u], thread'[u] = thread[u], local'[u] = local[u],
           u \in alive' <=> u \in alive
    PROVE  Acts(u)' = Acts(u)
<1>1. ActsShape /\ ActsShape'
  BY Shape, PTL
<1>2. Below(u)' = Below(u)
  BY DEF Below
<1>3. Top(u)' = Top(u)
  BY DEF Top
<1>4. QED
  BY <1>1, <1>2, <1>3 DEF ActsShape

\* A step that gives one thread the activities x and leaves the others alone.
LEMMA OnlyOne ==
    ASSUME NEW t \in Threads, NEW x, Acts(t)' = x, \A u \in Threads \ {t} : Acts(u)' = Acts(u)
    PROVE  acts' = [acts EXCEPT ![t] = x]
  BY DEF acts

LEMMA Stutters ==
    ASSUME \A u \in Threads : Acts(u)' = Acts(u)
    PROVE  acts' = acts
  BY DEF acts

\* The running thread moves on.
LEMMA RunnerMoves ==
    ASSUME IInv, IInv', UNCHANGED <<stack, thread, local, alive>>, NEW t, t = cpu.tp, cpu'.tp = t
    PROVE  /\ t \in alive /\ t \in Threads
           /\ acts' = [acts EXCEPT ![t] = Below(t) \o <<Top(t)'>>]
           /\ Hart!Moves(t, Top(t)')
<1>0. ActsShape'
  BY Shape, PTL
<1>1. t \in alive /\ t \in Threads
  BY HartFacts
<1>2. \A u \in Threads \ {t} : Acts(u)' = Acts(u)
  BY OthersKeep
<1>3. Acts(t)' = Below(t)' \o <<Top(t)'>>
  BY <1>0, <1>1 DEF ActsShape
<1>4. Below(t)' = Below(t)
  BY DEF Below
<1>5. acts' = [acts EXCEPT ![t] = Below(t) \o <<Top(t)'>>]
  BY <1>1, <1>2, <1>3, <1>4, OnlyOne
<1>6. QED
  <2>1. Hart!Front(acts[t]) = Below(t)
    BY <1>1, InnerFacts DEF Hart!Front, Front
  <2>2. QED BY <1>1, <1>5, <2>1 DEF Hart!Moves

LEMMA ProgramMaps == ASSUME IInv, IInv', program PROVE Hart!Next
<1> DEFINE t == cpu.tp
<1>1. PICK pc \in UserPlaces, v \in Values : cpu' = [cpu EXCEPT !.pc = pc, !.reg = v]
  BY DEF program
<1>2. cpu \in Cpus /\ t \in Threads /\ t \in alive /\ cpu.mode = "U" /\ cpu.pc \in UserPlaces
  BY HartFacts DEF program, UserOK
<1>3. /\ cpu'.tp = t /\ cpu'.mode = "U" /\ cpu'.sie = cpu.sie /\ cpu'.pc = pc /\ cpu'.reg = v
      /\ UNCHANGED <<stack, thread, local, alive>>
  BY <1>1, <1>2 DEF program, Cpus
<1> HIDE DEF t
<1>4. PICK u : u = t
  OBVIOUS
<1>5. Hart!Moves(u, Top(u)') /\ u \in alive /\ u \in Threads
  BY <1>3, <1>4, RunnerMoves DEF t
<1>6. Top(u) = Activity("U", cpu.sie, cpu.pc, cpu.reg, u)
  BY <1>2, <1>4 DEF Top, In, t, UserPlaces
<1>7. Top(u)' = Activity("U", cpu.sie, pc, v, u)
  BY <1>3, <1>4 DEF Top, In, t, UserPlaces
<1>8. Activity("U", cpu.sie, pc, v, u) = [Top(u) EXCEPT !.at = pc, !.reg = v]
  <2>1. cpu.sie \in BOOLEAN /\ Place(pc) = pc /\ pc # "leaving"
    BY <1>2 DEF Cpus, Place, UserPlaces
  <2>2. Top(u).mode = "U" /\ Top(u).sie = cpu.sie /\ Top(u).tp = u
    BY <1>6, <2>1, ActivityFields
  <2>3. Activity("U", cpu.sie, pc, v, u) =
           [mode |-> "U", sie |-> cpu.sie, at |-> pc, tp |-> u, reg |-> v]
    BY <2>1, ActivityFields
  <2>4. [Top(u) EXCEPT !.at = pc, !.reg = v] =
           [mode |-> Top(u).mode, sie |-> Top(u).sie, at |-> pc, tp |-> Top(u).tp, reg |-> v]
    <3>1. Top(u) \in Activities BY <1>5, InnerFacts
    <3>2. QED BY <3>1, ActivityExcept
  <2>5. QED BY <2>2, <2>3, <2>4
<1>9. acts[u] # <<>> /\ Hart!Inner(u) = Top(u)
  BY <1>5, InnerFacts
<1>10. Top(u).mode = "U"
  BY <1>6 DEF Activity
<1>11. Hart!Program(u)
  <2>1. Hart!Moves(u, [Hart!Inner(u) EXCEPT !.at = pc, !.reg = v])
    BY <1>5, <1>7, <1>8, <1>9
  <2>2. Hart!Inner(u).mode = "U"
    BY <1>9, <1>10
  <2>3. QED BY <2>1, <2>2 DEF Hart!Program
<1>12. QED
  BY <1>5, <1>9, <1>11 DEF Hart!Next

\* The kernel's own work, and its switching interrupts on and off.
LEMMA KernelMaps == ASSUME IInv, IInv', kernel \/ csr_sie PROVE Hart!Next
<1> DEFINE t == cpu.tp
<1>1. cpu \in Cpus /\ t \in Threads /\ t \in alive /\ cpu.mode = "S" /\ cpu.pc \in {"kernel", "handler", "window"}
  BY HartFacts DEF kernel, csr_sie, KernelPlaces
<1>2. PICK v \in Values, sie \in BOOLEAN, pc \in {"kernel", "handler", "window"} :
        /\ cpu'.tp = t /\ cpu'.mode = "S" /\ cpu'.sie = sie /\ cpu'.pc = pc /\ cpu'.reg = v
        /\ Place(pc) = Place(cpu.pc)
  <2>1. CASE kernel
    <3>1. PICK v \in Values : cpu' = [cpu EXCEPT !.reg = v]
      BY <2>1 DEF kernel
    <3>2. /\ cpu'.tp = t /\ cpu'.mode = "S" /\ cpu'.sie = cpu.sie /\ cpu'.pc = cpu.pc /\ cpu'.reg = v
          /\ cpu.sie \in BOOLEAN
      BY <1>1, <3>1 DEF Cpus
    <3>3. QED BY <1>1, <3>2
  <2>2. CASE csr_sie
    <3>1. cpu' = [cpu EXCEPT !.sie = ~@, !.pc = Toggled(@)]
      BY <2>2 DEF csr_sie
    <3>2. /\ cpu'.tp = t /\ cpu'.mode = "S" /\ cpu'.sie = ~cpu.sie /\ cpu'.pc = Toggled(cpu.pc)
          /\ cpu'.reg = cpu.reg /\ cpu.reg \in Values
      BY <1>1, <3>1 DEF Cpus
    <3>3. Toggled(cpu.pc) \in {"kernel", "handler", "window"} /\ Place(Toggled(cpu.pc)) = Place(cpu.pc)
      BY <1>1 DEF Toggled, Place
    <3>4. (~cpu.sie) \in BOOLEAN
      OBVIOUS
    <3>5. QED BY <3>2, <3>3, <3>4
  <2>3. QED BY <2>1, <2>2
<1>3. UNCHANGED <<stack, thread, local, alive>>
  BY DEF kernel, csr_sie
<1> HIDE DEF t
<1>4. PICK u : u = t
  OBVIOUS
<1>5. Hart!Moves(u, Top(u)') /\ u \in alive /\ u \in Threads
  BY <1>2, <1>3, <1>4, RunnerMoves DEF t
<1>6. Top(u) = Activity("S", cpu.sie, cpu.pc, cpu.reg, u)
  BY <1>1, <1>4 DEF Top, In, t
<1>7. Top(u)' = Activity("S", sie, pc, v, u)
  BY <1>2, <1>4 DEF Top, In, t
<1>8. /\ Top(u) \in Activities /\ Top(u).mode = "S" /\ Top(u).tp = u
      /\ Top(u).at = Place(cpu.pc) /\ Place(cpu.pc) \in {"kernel", "handler"}
  <2>1. Top(u) \in Activities
    BY <1>5, InnerFacts
  <2>2. cpu.sie \in BOOLEAN /\ Place(cpu.pc) \in {"kernel", "handler"}
    BY <1>1 DEF Cpus, Place
  <2>3. QED BY <1>6, <2>1, <2>2, ActivityFields
<1>9. Top(u)' = [Top(u) EXCEPT !.sie = sie, !.reg = v]
  <2>1. Activity("S", sie, pc, v, u) =
           [mode |-> "S", sie |-> sie, at |-> Place(pc), tp |-> u, reg |-> v]
    BY <1>2, <1>8, ActivityFields
  <2>2. [Top(u) EXCEPT !.sie = sie, !.reg = v] =
           [mode |-> Top(u).mode, sie |-> sie, at |-> Top(u).at, tp |-> Top(u).tp, reg |-> v]
    BY <1>2, <1>8, ActivityExcept
  <2>3. QED BY <1>2, <1>7, <1>8, <2>1, <2>2
<1>10. acts[u] # <<>> /\ Hart!Inner(u) = Top(u)
  BY <1>5, InnerFacts
<1>11. Hart!Kernel(u)
  BY <1>5, <1>8, <1>9, <1>10 DEF Hart!Kernel
<1>12. QED
  BY <1>5, <1>10, <1>11 DEF Hart!Next

\* The way out of a trap begins; no other step of the hart but the return
\* itself is seen by the thread.
LEMMA LeaveMaps == ASSUME IInv, IInv', trap_handler_returns PROVE Hart!Next
<1> DEFINE t == cpu.tp
<1>1. /\ cpu \in Cpus /\ t \in Threads /\ cpu.pc = "handler" /\ cpu.mode = "S" /\ KernelOK
      /\ cpu' = [cpu EXCEPT !.pc = "ret"] /\ UNCHANGED <<stack, thread, local, alive>>
  BY HartFacts DEF trap_handler_returns, In, KernelPlaces
<1>2. cpu.sie = FALSE
  BY <1>1 DEF KernelOK, Cpus
<1>3. cpu'.tp = t /\ cpu'.mode = "S" /\ cpu'.sie = FALSE /\ cpu'.pc = "ret"
  BY <1>1, <1>2 DEF Cpus
<1> HIDE DEF t
<1>4. PICK u : u = t
  OBVIOUS
<1>5. Hart!Moves(u, Top(u)') /\ u \in alive /\ u \in Threads
  BY <1>1, <1>3, <1>4, RunnerMoves DEF t
<1>6. Top(u) = Activity("S", FALSE, "handler", cpu.reg, u)
  BY <1>1, <1>2, <1>4 DEF Top, In, t
<1>7. Top(u)' = Hart!New(u, "S", "leaving", 0)
  <2>1. Top(u)' = Activity("S", FALSE, "ret", cpu'.reg, u)
    BY <1>3, <1>4 DEF Top, In, t
  <2>2. Activity("S", FALSE, "ret", cpu'.reg, u) = Hart!New(u, "S", "leaving", 0)
    BY DEF Activity, Place, Hart!New
  <2>3. QED BY <2>1, <2>2
<1>8. Top(u).at = "handler" /\ ~Top(u).sie
  BY <1>6 DEF Activity, Place
<1>9. acts[u] # <<>> /\ Hart!Inner(u) = Top(u)
  BY <1>5, InnerFacts
<1>10. Hart!Leave(u)
  BY <1>5, <1>7, <1>8, <1>9 DEF Hart!Leave
<1>11. QED
  BY <1>5, <1>9, <1>10 DEF Hart!Next

\* A trap puts the kernel's activity on top of the interrupted one.
LEMMA TrapActs ==
    ASSUME IInv, IInv', cpu.mode = "U" \/ cpu.sie,
           NEW pc \in UserPlaces \cup KernelPlaces, NEW cause \in {"ecall", "other"},
           Room, trap_entry(pc, cause), NEW u, u = cpu.tp
    PROVE  /\ u \in alive /\ u \in Threads
           /\ Below(u)' = Below(u) \o <<Activity(cpu.mode, cpu.sie, pc, cpu.reg, u)>>
           /\ acts' = [acts EXCEPT ![u] = Below(u)' \o <<Hart!New(u, "S", "handler", cpu.reg)>>]
<1> DEFINE n == Len(stack[u])
           f == Pushed(pc, cause)
<1>1. cpu \in Cpus /\ u \in Threads /\ u \in alive /\ n \in 0..MaxFrames
  BY HartFacts
<1>2. /\ Len(stack'[u]) = n + 1
      /\ \A i \in 1..Len(stack'[u]) : stack'[u][i] = IF i <= n THEN stack[u][i] ELSE f
      /\ \A t \in Threads \ {u} : stack'[t] = stack[t]
      /\ cpu' = [cpu EXCEPT !.mode = "S", !.sie = FALSE, !.spp = cpu.mode, !.spie = cpu.sie,
                     !.sepc = cpu.pc, !.sscratch = Nowhere,
                     !.sp = Position(cpu.tp, n + 1), !.pc = "handler"]
  BY TrapStack
<1>3. UNCHANGED <<thread, local, alive>>
  BY DEF trap_entry
<1>4. cpu'.tp = u /\ cpu'.mode = "S" /\ cpu'.sie = FALSE /\ cpu'.pc = "handler" /\ cpu'.reg = cpu.reg
  BY <1>1, <1>2 DEF Cpus
<1>5. ActsShape /\ ActsShape'
  BY Shape, PTL
<1>6. /\ Below(u) \in Seq(Activities) /\ Len(Below(u)) = n
      /\ Below(u)' \in Seq(Activities) /\ Len(Below(u)') = n + 1
      /\ Acts(u)' = Below(u)' \o <<Top(u)'>>
  BY <1>1, <1>2, <1>3, <1>5 DEF ActsShape
<1>7. Top(u)' = Hart!New(u, "S", "handler", cpu.reg)
  <2>1. Top(u)' = Activity("S", FALSE, "handler", cpu.reg, u)
    BY <1>4 DEF Top, In
  <2>2. Activity("S", FALSE, "handler", cpu.reg, u) = Hart!New(u, "S", "handler", cpu.reg)
    BY DEF Activity, Place, Hart!New
  <2>3. QED BY <2>1, <2>2
<1>8. Interrupted(f) = Activity(cpu.mode, cpu.sie, pc, cpu.reg, u)
  BY DEF Interrupted, Pushed
<1> HIDE DEF f
<1>9. Below(u)' = Below(u) \o <<Activity(cpu.mode, cpu.sie, pc, cpu.reg, u)>>
  <2>1. \A i \in 1..n : Below(u)[i] = Interrupted(stack[u][i])
    BY DEF Below
  <2>2. \A i \in 1..(n + 1) : Below(u)'[i] = Interrupted(stack'[u][i])
    BY <1>2 DEF Below
  <2>3. \A i \in 1..n : Below(u)'[i] = Below(u)[i]
    BY <1>1, <1>2, <2>1, <2>2
  <2>4. Below(u)'[n + 1] = Interrupted(f)
    BY <1>1, <1>2, <2>2
  <2>5. Below(u)' = Below(u) \o <<Below(u)'[n + 1]>>
    BY <1>6, <2>3, OneLonger
  <2>6. QED BY <1>8, <2>4, <2>5
<1>10. ASSUME NEW t \in Threads \ {u} PROVE Acts(t)' = Acts(t)
  <2>1. t \in Threads /\ t # cpu.tp /\ t # cpu'.tp
    BY <1>4
  <2>2. stack'[t] = stack[t] /\ thread'[t] = thread[t] /\ local'[t] = local[t]
    BY <1>2, <1>3
  <2>3. t \in alive' <=> t \in alive
    BY <1>3
  <2>4. QED BY <2>1, <2>2, <2>3, OthersKeep
<1>11. acts' = [acts EXCEPT ![u] = Below(u)' \o <<Hart!New(u, "S", "handler", cpu.reg)>>]
  <2>1. Acts(u)' = Below(u)' \o <<Hart!New(u, "S", "handler", cpu.reg)>>
    BY <1>6, <1>7
  <2>2. QED BY <1>1, <1>10, <2>1, OnlyOne
<1>12. QED
  BY <1>1, <1>9, <1>11

LEMMA InterruptMaps == ASSUME IInv, IInv', interrupt PROVE Hart!Next
<1>1. /\ cpu.mode = "U" \/ cpu.sie
      /\ Room /\ trap_entry(cpu.pc, "other")
  BY DEF interrupt
<1>2. cpu.pc \in UserPlaces \cup KernelPlaces /\ (cpu.mode = "S" => cpu.pc \in {"kernel", "window"})
  BY <1>1, KernelSpIsOwn
<1>3. cpu \in Cpus /\ cpu.mode \in Modes /\ cpu.sie \in BOOLEAN /\ (cpu.mode = "U" => cpu.pc \in UserPlaces)
  BY HartFacts DEF Cpus
<1>4. cpu.pc \in UserPlaces \cup {"kernel", "window"} /\ Place(cpu.pc) # "leaving" /\ cpu.pc # "schedule"
  BY <1>2, <1>3 DEF Modes, Place, UserPlaces
<1>5. PICK u : u = cpu.tp
  OBVIOUS
<1>6. /\ u \in alive /\ u \in Threads
      /\ Below(u)' = Below(u) \o <<Activity(cpu.mode, cpu.sie, cpu.pc, cpu.reg, u)>>
      /\ acts' = [acts EXCEPT ![u] = Below(u)' \o <<Hart!New(u, "S", "handler", cpu.reg)>>]
  BY <1>1, <1>2, <1>5, TrapActs
<1>7. Top(u) = Activity(cpu.mode, cpu.sie, cpu.pc, cpu.reg, u)
  BY <1>4, <1>5 DEF Top, In
<1>8. Top(u).mode = cpu.mode /\ Top(u).sie = cpu.sie /\ Top(u).reg = cpu.reg
  BY <1>3, <1>4, <1>7, ActivityFields
<1>9. /\ acts[u] = Below(u) \o <<Top(u)>> /\ acts[u] # <<>> /\ Hart!Inner(u) = Top(u)
      /\ acts[u] \in Seq(Activities) /\ Top(u) \in Activities
  BY <1>6, InnerFacts
<1> DEFINE k == Hart!New(u, "S", "handler", cpu.reg)
<1>10. k \in Activities
  BY <1>3, <1>6 DEF Hart!New, Activities, Modes, Cpus
<1>11. acts' = [acts EXCEPT ![u] = acts[u] \o <<k>>]
  BY <1>6, <1>7, <1>9
<1> HIDE DEF k
<1>12. acts' = [acts EXCEPT ![u] = Append(@, k)]
  BY <1>9, <1>10, <1>11, AppendIsConcat
<1>13. Hart!Inner(u).mode = "U" \/ Hart!Inner(u).sie
  BY <1>1, <1>8, <1>9
<1>14. Hart!Interrupt(u)
  BY <1>8, <1>9, <1>12, <1>13 DEF Hart!Interrupt, k
<1>15. QED
  BY <1>6, <1>9, <1>14 DEF Hart!Next

LEMMA CallMaps == ASSUME IInv, IInv', ecall PROVE Hart!Next
<1>1. cpu.mode = "U" /\ Room /\ trap_entry(AfterEcall(cpu.pc), "ecall")
  BY DEF ecall
<1>2. /\ cpu \in Cpus /\ cpu.sie \in BOOLEAN /\ cpu.pc \in UserPlaces /\ Len(stack[cpu.tp]) = 0
      /\ cpu.reg \in Values
  BY <1>1, HartFacts DEF Cpus, UserOK
<1>3. AfterEcall(cpu.pc) \in UserPlaces
  BY DEF AfterEcall, UserPlaces
<1>4. PICK u : u = cpu.tp
  OBVIOUS
<1>5. /\ u \in alive /\ u \in Threads
      /\ Below(u)' = Below(u) \o <<Activity("U", cpu.sie, AfterEcall(cpu.pc), cpu.reg, u)>>
      /\ acts' = [acts EXCEPT ![u] = Below(u)' \o <<Hart!New(u, "S", "handler", cpu.reg)>>]
  BY <1>1, <1>3, <1>4, TrapActs
<1>6. /\ acts[u] # <<>> /\ Hart!Inner(u) = Top(u) /\ Top(u) \in Activities
      /\ Below(u) \in Seq(Activities) /\ Len(acts[u]) = Len(stack[u]) + 1
  BY <1>5, InnerFacts
<1>7. ActsShape
  BY Shape
<1>8. Below(u) = <<>>
  <2>1. Len(Below(u)) = 0 BY <1>2, <1>4, <1>5, <1>7 DEF ActsShape
  <2>2. QED BY <1>6, <2>1, EmptySeq
<1>9. Top(u) = Activity("U", cpu.sie, cpu.pc, cpu.reg, u)
  BY <1>1, <1>2, <1>4 DEF Top, In, UserPlaces
<1>10. \A pc \in UserPlaces : Place(pc) = pc /\ pc # "leaving"
  BY DEF Place, UserPlaces
<1>11. /\ Top(u).mode = "U" /\ Top(u).sie = cpu.sie /\ Top(u).reg = cpu.reg
       /\ Top(u).at = cpu.pc /\ Top(u).tp = u
  BY <1>2, <1>9, <1>10, ActivityFields
<1> DEFINE a == Activity("U", cpu.sie, AfterEcall(cpu.pc), cpu.reg, u)
           k == Hart!New(u, "S", "handler", cpu.reg)
<1>12. a = [Top(u) EXCEPT !.at = AfterEcall(Top(u).at)]
  <2>1. a = [mode |-> "U", sie |-> cpu.sie, at |-> AfterEcall(cpu.pc), tp |-> u, reg |-> cpu.reg]
    BY <1>2, <1>3, <1>10, ActivityFields
  <2> HIDE DEF a
  <2>2. [Top(u) EXCEPT !.at = AfterEcall(cpu.pc)] =
          [mode |-> Top(u).mode, sie |-> Top(u).sie, at |-> AfterEcall(cpu.pc),
           tp |-> Top(u).tp, reg |-> Top(u).reg]
    BY <1>6, ActivityExcept
  <2>3. QED BY <1>11, <2>1, <2>2
<1>13. a \in Activities
  BY <1>2, <1>3, <1>5, ActivityType DEF Modes, UserPlaces
<1> HIDE DEF a, k
<1>14. acts' = [acts EXCEPT ![u] = <<a, k>>]
  <2>1. <<>> \o <<a>> = <<a>>
    <3>1. <<a>> \in Seq(Activities) BY <1>13
    <3>2. QED BY <3>1, ConcatEmptySeq
  <2>2. <<a>> \o <<k>> = <<a, k>>
    <3>1. k \in Activities BY <1>2, <1>5 DEF k, Hart!New, Activities, Modes
    <3>2. QED BY <1>13, <3>1, OneAfterOne
  <2>3. QED BY <1>5, <1>8, <2>1, <2>2 DEF a, k
<1>15. Hart!Call(u)
  BY <1>6, <1>11, <1>12, <1>14 DEF Hart!Call, k
<1>16. QED
  BY <1>5, <1>6, <1>15 DEF Hart!Next

LEMMA ReturnMaps == ASSUME IInv, IInv', ret_regs PROVE Hart!Next
<1>1. PICK u : u = cpu.tp
  OBVIOUS
<1> DEFINE n == Len(stack[u])
           f == stack[u][n]
<1>2. /\ n \in 1..MaxFrames /\ f \in Frames /\ FrameOK(u, n, f) /\ cpu.mode = "S"
      /\ Len(stack'[u]) = n - 1
      /\ \A i \in 1..(n - 1) : stack'[u][i] = stack[u][i]
      /\ \A t \in Threads \ {u} : stack'[t] = stack[t]
      /\ cpu'.mode = f.spp /\ cpu'.sie = f.spie /\ cpu'.pc = f.sepc /\ cpu'.tp = u /\ cpu'.reg = f.reg
  BY <1>1, ReturnStack
<1>3. /\ u \in Threads /\ u \in alive /\ cpu.pc = "ret_regs" /\ UNCHANGED <<thread, local, alive>>
      /\ n \in Nat
  <2>1. u \in Threads /\ u \in alive
    BY <1>1, HartFacts
  <2>2. cpu.pc = "ret_regs" /\ UNCHANGED <<thread, local, alive>>
    BY DEF ret_regs, In
  <2>3. n \in Nat
    BY <1>2, TrapAssumption
  <2>4. QED BY <2>1, <2>2, <2>3
<1>4. ActsShape /\ ActsShape'
  BY Shape, PTL
<1>5. /\ Below(u) \in Seq(Activities) /\ Len(Below(u)) = n
      /\ Below(u)' \in Seq(Activities) /\ Len(Below(u)') = n - 1
      /\ Acts(u)' = Below(u)' \o <<Top(u)'>>
  BY <1>2, <1>3, <1>4 DEF ActsShape
<1>6. /\ \A i \in 1..n : Below(u)[i] = Interrupted(stack[u][i])
      /\ \A i \in 1..(n - 1) : Below(u)'[i] = Interrupted(stack'[u][i])
  BY <1>2 DEF Below
<1>7. \A i \in 1..(n - 1) : Below(u)[i] = Below(u)'[i]
  BY <1>2, <1>3, <1>6
<1>8. Below(u)[n] = Interrupted(f) /\ n = (n - 1) + 1
  BY <1>2, <1>3, <1>6
<1>9. f.tp = u /\ f.sepc # "schedule"
  BY <1>2 DEF FrameOK, Frames, UserPlaces
<1> HIDE DEF f
<1>10. Top(u)' = Interrupted(f)
  BY <1>2, <1>9 DEF Top, In, Interrupted
<1> HIDE DEF n
<1>11. Below(u) = Below(u)' \o <<Below(u)[n]>>
  BY <1>5, <1>7, <1>8, OneLonger
<1>12. Acts(u)' = Below(u)
  BY <1>5, <1>8, <1>10, <1>11
<1>13. \A t \in Threads \ {u} : Acts(t)' = Acts(t)
  BY <1>1, <1>2, <1>3, OthersKeep
<1>14. acts' = [acts EXCEPT ![u] = Below(u)]
  BY <1>3, <1>12, <1>13, OnlyOne
<1>15. Top(u) = Activity("S", cpu.sie, "ret_regs", cpu.reg, u)
  BY <1>1, <1>2, <1>3 DEF Top, In
<1>16. Top(u).at = "leaving"
  BY <1>15 DEF Activity, Place
<1>17. acts[u] # <<>> /\ Hart!Inner(u) = Top(u) /\ Hart!Front(acts[u]) = Below(u)
  BY <1>3, InnerFacts DEF Hart!Front, Front
<1>18. Hart!Return(u)
  BY <1>14, <1>16, <1>17 DEF Hart!Return
<1>19. QED
  BY <1>3, <1>17, <1>18 DEF Hart!Next

-----------------------------------------------------------------------------
(* Steps a thread does not see *)

\* The hart's own: registers that the return is about to load, the way out of
\* schedule, the way into a program.
LEMMA UnseenSteps ==
    ASSUME IInv, IInv', _ret_from_fork \/ schedule_returns \/ user_program_start
    PROVE  acts' = acts
<1>1. PICK u : u = cpu.tp
  OBVIOUS
<1>2. /\ cpu \in Cpus /\ u \in Threads /\ u \in alive /\ cpu.mode = "S" /\ KernelOK
      /\ cpu.pc \in {"ret", "schedule", "start"} /\ UNCHANGED <<stack, thread, local, alive>>
  BY <1>1, HartFacts DEF _ret_from_fork, schedule_returns, user_program_start, In, KernelPlaces
<1>3. cpu'.tp = u
  BY <1>1, <1>2 DEF _ret_from_fork, schedule_returns, user_program_start, Cpus
<1>4. acts' = [acts EXCEPT ![u] = Below(u) \o <<Top(u)'>>]
  BY <1>1, <1>2, <1>3, RunnerMoves
<1>5. cpu.sie = FALSE
  BY <1>2 DEF KernelOK, Cpus
<1>6. local[u] \in Locals
  BY <1>2 DEF IInv, Types
<1>7. Top(u)' = Top(u)
  <2>1. CASE _ret_from_fork
    <3>1. /\ cpu.pc = "ret" /\ cpu'.pc = "ret_regs" /\ cpu'.mode = "S" /\ cpu'.sie = FALSE
      BY <1>2, <2>1 DEF _ret_from_fork, In, Cpus
    <3>2. Top(u) = Activity("S", FALSE, "ret", cpu.reg, u) /\ Top(u)' = Activity("S", FALSE, "ret_regs", cpu'.reg, u)
      BY <1>1, <1>2, <1>3, <1>5, <3>1 DEF Top, In
    <3>3. QED BY <3>2 DEF Activity, Place
  <2>2. CASE schedule_returns
    <3>1. /\ cpu.pc = "schedule" /\ cpu'.pc = local[u].from /\ cpu'.mode = "S" /\ cpu'.reg = cpu.reg
          /\ cpu' = [cpu EXCEPT !.sie = cpu.sie \/ local[u].sie, !.pc = local[u].from]
      BY <1>1, <1>2, <2>2 DEF schedule_returns, In, Cpus
    <3>2. cpu'.sie = local[u].sie
      BY <1>2, <1>5, <1>6, <3>1 DEF Cpus, Locals
    <3>3. Top(u) = Activity("S", local[u].sie, local[u].from, cpu.reg, u)
      BY <1>1, <3>1 DEF Top, In
    <3>4. local[u].from # "schedule"
      BY <1>6 DEF Locals
    <3>5. Top(u)' = Activity("S", local[u].sie, local[u].from, cpu.reg, u)
      BY <1>3, <3>1, <3>2, <3>4 DEF Top, In
    <3>6. QED BY <3>3, <3>5
  <2>3. CASE user_program_start
    <3>1. /\ cpu.pc = "start" /\ cpu'.pc = "enter" /\ cpu'.mode = "S" /\ cpu'.sie = FALSE /\ cpu'.reg = cpu.reg
      BY <1>2, <1>5, <2>3 DEF user_program_start, In, Cpus
    <3>2. Top(u) = Activity("S", FALSE, "start", cpu.reg, u) /\ Top(u)' = Activity("S", FALSE, "enter", cpu.reg, u)
      BY <1>1, <1>2, <1>3, <1>5, <3>1 DEF Top, In
    <3>3. QED BY <3>2 DEF Activity, Place
  <2>4. QED BY <2>1, <2>2, <2>3
<1>8. acts[u] = Below(u) \o <<Top(u)>>
  BY <1>2, InnerFacts
<1>9. QED
  BY <1>2, <1>4, <1>7, <1>8 DEF acts

\* A switch: the thread that leaves the hart is in schedule() as it called it,
\* and the one that gets it goes on as its context says.
LEMMA SwitchActs ==
    ASSUME IInv, IInv', NEW next \in alive \ {cpu.tp}, switch_to(next), cpu.mode = "S",
           cpu.sscratch = Nowhere, local'[next] = local[next], next \in alive'
    PROVE  Acts(next)' = Acts(next)
<1>1. /\ cpu'.mode = "S" /\ cpu'.sie = FALSE /\ cpu'.tp = next /\ cpu'.pc = thread[next].ra
      /\ cpu'.reg = thread[next].reg /\ next \in Threads /\ stack' = stack
  BY SwitchOK
<1>2. ActsShape /\ ActsShape'
  BY Shape, PTL
<1>3. Top(next)' = Top(next)
  BY <1>1 DEF Top, In
<1>4. Below(next)' = Below(next)
  BY <1>1 DEF Below
<1>5. QED
  BY <1>1, <1>2, <1>3, <1>4 DEF ActsShape

LEMMA ScheduleMaps == ASSUME IInv, IInv', schedule PROVE acts' = acts
<1>1. PICK next \in Threads : switch_to(next)
  BY DEF schedule
<1>2. PICK u : u = cpu.tp
  OBVIOUS
<1>3. /\ cpu.pc \in {"kernel", "handler"} /\ alive' = alive
      /\ local' = [local EXCEPT ![u] = [sie |-> cpu.sie, from |-> cpu.pc]]
  BY <1>2 DEF schedule
<1>4. /\ cpu \in Cpus /\ u \in Threads /\ u \in alive /\ cpu.mode = "S" /\ Types /\ cpu.sscratch = Nowhere
  BY <1>2, <1>3, HartFacts DEF IInv, KernelPlaces, KernelOK, In
<1>5. next \in alive \ {cpu.tp}
  BY <1>1 DEF switch_to
<1>6. /\ local'[u] = [sie |-> cpu.sie, from |-> cpu.pc]
      /\ \A t \in Threads \ {u} : local'[t] = local[t]
  BY <1>3, <1>4 DEF Types
<1>7. local'[next] = local[next]
  BY <1>1, <1>2, <1>5, <1>6
<1>8. /\ cpu'.tp = next /\ stack' = stack
      /\ thread'[u] = [ra |-> "schedule", sp |-> cpu.sp, reg |-> cpu.reg]
      /\ \A t \in Threads \ {u} : thread'[t] = thread[t]
  BY <1>1, <1>2, <1>4, <1>5, <1>7, SwitchOK
<1>9. Acts(next)' = Acts(next)
  BY <1>1, <1>3, <1>4, <1>5, <1>7, SwitchActs
<1>10. Acts(u)' = Acts(u)
  <2>1. ActsShape /\ ActsShape'
    BY Shape, PTL
  <2>2. Below(u)' = Below(u)
    BY <1>8 DEF Below
  <2>3. Top(u) = Activity("S", cpu.sie, cpu.pc, cpu.reg, u)
    BY <1>2, <1>3, <1>4 DEF Top, In
  <2>4. thread'[u].ra = "schedule" /\ thread'[u].reg = cpu.reg /\ local'[u].from = cpu.pc
    BY <1>6, <1>8
  <2>5. local'[u].sie = cpu.sie
    BY <1>4, <1>6 DEF Cpus
  <2>6. Top(u)' = Activity("S", cpu.sie, cpu.pc, cpu.reg, u)
    BY <1>2, <1>5, <1>8, <2>4, <2>5 DEF Top
  <2>7. QED BY <1>3, <1>4, <2>1, <2>2, <2>3, <2>6 DEF ActsShape
<1>11. \A t \in Threads \ {u, next} : Acts(t)' = Acts(t)
  BY <1>2, <1>3, <1>6, <1>8, OthersKeep
<1>12. QED
  BY <1>9, <1>10, <1>11, Stutters

-----------------------------------------------------------------------------
(* Calls and new threads *)

\* In a call the handler's activity lies on the program's alone.
LEMMA CallActs ==
    ASSUME IInv, cpu.pc = "handler", Frame.spp = "U" \/ Frame.scause = "ecall", NEW u, u = cpu.tp
    PROVE  /\ u \in alive /\ u \in Threads /\ Frame = stack[u][1] /\ Frame \in Frames /\ FrameOK(u, 1, Frame)
           /\ Frame.spp = "U" /\ Len(stack[u]) = 1
           /\ acts[u] = <<Interrupted(Frame), Top(u)>> /\ acts[u] # <<>> /\ Len(acts[u]) = 2
           /\ acts[u][1] = Interrupted(Frame) /\ Interrupted(Frame) \in Activities
           /\ acts[u] \in Seq(Activities) /\ Top(u) \in Activities
           /\ Interrupted(Frame).mode = "U" /\ Hart!Inner(u).at = "handler"
<1>1. /\ u \in Threads /\ u \in alive /\ Len(stack[u]) = 1 /\ Frame = stack[u][1]
      /\ Frame \in Frames /\ FrameOK(u, 1, Frame) /\ Frame.spp = "U" /\ cpu.mode = "S"
  BY HartFacts, CallFacts
<1>2. /\ acts[u] = Below(u) \o <<Top(u)>> /\ acts[u] # <<>>
      /\ acts[u] \in Seq(Activities) /\ Len(acts[u]) = 2
      /\ Hart!Inner(u) = Top(u) /\ Top(u) \in Activities
      /\ Below(u) \in Seq(Activities)
  <2>1. Len(acts[u]) = Len(stack[u]) + 1
    BY <1>1, InnerFacts
  <2>2. Len(acts[u]) = 2
    BY <1>1, <2>1
  <2>3. QED BY <1>1, <2>2, InnerFacts
<1>3. Len(Below(u)) = 1
  BY <1>1, Shape DEF ActsShape
<1>4. Below(u)[1] = Interrupted(Frame)
  BY <1>1 DEF Below
<1>5. Below(u) = <<Interrupted(Frame)>> /\ Interrupted(Frame) \in Activities
  BY <1>2, <1>3, <1>4, OneElement
<1> DEFINE a == Interrupted(Frame)
           k == Top(u)
<1>6. a.mode = "U"
  BY <1>1 DEF Interrupted, Activity
<1>7. k.at = "handler"
  <2>1. k = Activity("S", cpu.sie, "handler", cpu.reg, u) BY <1>1 DEF Top, In
  <2>2. QED BY <2>1 DEF Activity, Place
<1> HIDE DEF a, k
<1>8. acts[u] = <<a, k>>
  BY <1>2, <1>5, OneAfterOne DEF a, k
<1>9. acts[u][1] = a
  BY <1>8
<1>10. QED
  BY <1>1, <1>2, <1>5, <1>6, <1>7, <1>8, <1>9 DEF a, k

LEMMA ExitMaps == ASSUME IInv, IInv', thread_exit PROVE Hart!Next
<1>1. PICK next \in Threads : switch_to(next)
  BY DEF thread_exit
<1>2. PICK u : u = cpu.tp
  OBVIOUS
<1>3. cpu.pc = "handler" /\ Frame.spp = "U" /\ alive' = alive \ {u} /\ local' = local
  BY <1>2 DEF thread_exit, In
<1>4. /\ u \in alive /\ u \in Threads /\ acts[u] # <<>> /\ Len(acts[u]) = 2
      /\ acts[u][1].mode = "U"
  BY <1>2, <1>3, CallActs
<1>5. cpu.mode = "S" /\ cpu.sscratch = Nowhere
  BY <1>3, HartFacts DEF KernelPlaces, KernelOK, In
<1>6. next \in alive \ {cpu.tp}
  BY <1>1 DEF switch_to
<1>7. /\ cpu'.tp = next /\ stack' = stack
      /\ \A t \in Threads \ {u} : thread'[t] = thread[t]
  BY <1>1, <1>2, <1>3, <1>5, <1>6, SwitchOK
<1>8. Acts(next)' = Acts(next)
  BY <1>1, <1>2, <1>3, <1>5, <1>6, SwitchActs
<1>9. Acts(u)' = <<>>
  <2>1. ActsShape'
    BY Shape, PTL
  <2>2. QED BY <1>3, <1>4, <2>1 DEF ActsShape
<1>10. \A t \in Threads \ {u} : Acts(t)' = Acts(t)
  <2> TAKE t \in Threads \ {u}
  <2>1. CASE t = next
    BY <1>8, <2>1
  <2>2. CASE t # next
    BY <1>2, <1>3, <1>7, <2>2, OthersKeep
  <2>3. QED BY <2>1, <2>2
<1>11. acts' = [acts EXCEPT ![u] = <<>>]
  BY <1>4, <1>9, <1>10, OnlyOne
<1>12. Hart!Exit(u)
  BY <1>4, <1>11 DEF Hart!Exit
<1>13. QED
  BY <1>4, <1>12 DEF Hart!Next

\* A thread that comes into being.
LEMMA NewActs ==
    ASSUME IInv, IInv', NEW c \in Threads, c \notin alive, alive' = alive \cup {c},
           UNCHANGED <<cpu, local>>, \A t \in Threads \ {c} : stack'[t] = stack[t] /\ thread'[t] = thread[t]
    PROVE  /\ acts[c] = <<>> /\ Below(c)' \in Seq(Activities) /\ Len(Below(c)') = Len(stack'[c])
           /\ acts' = [acts EXCEPT ![c] = Below(c)' \o <<Top(c)'>>]
           /\ Top(c)' \in Activities /\ c # cpu.tp
<1>1. ActsShape /\ ActsShape'
  BY Shape, PTL
<1>2. cpu.tp \in alive
  BY HartFacts
<1>3. ASSUME NEW t \in Threads \ {c} PROVE Acts(t)' = Acts(t)
  <2>1. CASE t = cpu.tp
    <3>1. Below(t)' = Below(t) BY DEF Below
    <3>2. Top(t)' = Top(t) BY DEF Top, In
    <3>3. t \in alive /\ t \in alive' BY <1>2, <2>1
    <3>4. QED BY <1>1, <3>1, <3>2, <3>3 DEF ActsShape
  <2>2. CASE t # cpu.tp
    BY <2>2, OthersKeep
  <2>3. QED BY <2>1, <2>2
<1>4. /\ Acts(c)' = Below(c)' \o <<Top(c)'>> /\ Below(c)' \in Seq(Activities)
      /\ Len(Below(c)') = Len(stack'[c]) /\ Top(c)' \in Activities
  BY <1>1 DEF ActsShape
<1>5. acts' = [acts EXCEPT ![c] = Below(c)' \o <<Top(c)'>>]
  BY <1>3, <1>4, OnlyOne
<1>6. acts[c] = <<>>
  BY <1>1 DEF ActsShape, acts
<1>7. QED
  BY <1>2, <1>4, <1>5, <1>6

LEMMA CreateMaps == ASSUME IInv, IInv', NEW c \in Threads, thread_create(c) PROVE Hart!Next
<1>1. /\ c \notin alive /\ alive' = alive \cup {c} /\ UNCHANGED <<cpu, local>>
      /\ stack' = [stack EXCEPT ![c] = <<>>]
      /\ thread' = [thread EXCEPT ![c].ra = "start", ![c].sp = Position(c, 0)]
  BY DEF thread_create
<1>2. /\ stack \in [Threads -> Seq(Frames)] /\ thread \in [Threads -> Contexts] /\ thread[c].reg \in Values
  BY DEF IInv, Types, Contexts
<1>3. /\ \A t \in Threads \ {c} : stack'[t] = stack[t] /\ thread'[t] = thread[t]
      /\ stack'[c] = <<>> /\ thread'[c].ra = "start" /\ thread'[c].reg = thread[c].reg
  BY <1>1, <1>2 DEF Contexts
<1>4. /\ acts[c] = <<>> /\ Below(c)' \in Seq(Activities) /\ Len(Below(c)') = Len(stack'[c])
      /\ acts' = [acts EXCEPT ![c] = Below(c)' \o <<Top(c)'>>] /\ Top(c)' \in Activities /\ c # cpu.tp
  BY <1>1, <1>3, NewActs
<1>5. Below(c)' = <<>>
  BY <1>3, <1>4, EmptySeq
<1> DEFINE k == Hart!New(c, "S", "start", thread[c].reg)
<1>6. Top(c)' = k
  <2>1. Top(c)' = Activity("S", FALSE, "start", thread[c].reg, c)
    BY <1>1, <1>3, <1>4 DEF Top
  <2>2. Activity("S", FALSE, "start", thread[c].reg, c) = k
    BY DEF Activity, Place, Hart!New
  <2>3. QED BY <2>1, <2>2
<1> HIDE DEF k
<1>7. <<>> \o <<k>> = <<k>>
  <2>1. <<k>> \in Seq(Activities) BY <1>4, <1>6
  <2>2. QED BY <2>1, ConcatEmptySeq
<1>8. acts' = [acts EXCEPT ![c] = <<k>>]
  BY <1>4, <1>5, <1>6, <1>7
<1>9. Hart!Create(c)
  BY <1>2, <1>4, <1>8 DEF Hart!Create, k
<1>10. QED
  BY <1>9 DEF Hart!Next

LEMMA EnterMaps == ASSUME IInv, IInv', enter_user_mode PROVE Hart!Next
<1>1. PICK u : u = cpu.tp
  OBVIOUS
<1>2. /\ cpu \in Cpus /\ u \in Threads /\ u \in alive /\ cpu.mode = "S" /\ KernelOK /\ cpu.pc = "enter"
      /\ UNCHANGED <<stack, thread, local, alive>>
      /\ cpu' = sret([cpu EXCEPT !.sepc = Entry, !.spp = "U", !.spie = TRUE, !.sp = UserStack])
  BY <1>1, HartFacts DEF enter_user_mode, In, KernelPlaces
<1>3. /\ cpu'.tp = u /\ cpu'.mode = "U" /\ cpu'.pc = Entry /\ cpu'.reg = cpu.reg /\ cpu'.sie = TRUE
  BY <1>1, <1>2 DEF sret, Cpus
<1>4. Len(stack[u]) = 0 /\ cpu.sie = FALSE /\ cpu.reg \in Values
  BY <1>1, <1>2, HartFacts DEF KernelOK, In, Fits, Cpus
<1>5. acts' = [acts EXCEPT ![u] = Below(u) \o <<Top(u)'>>]
  BY <1>1, <1>2, <1>3, RunnerMoves
<1>6. Below(u) = <<>> /\ acts[u] # <<>> /\ Hart!Inner(u) = Top(u)
  <2>1. Below(u) \in Seq(Activities) /\ acts[u] # <<>> /\ Hart!Inner(u) = Top(u)
    BY <1>2, InnerFacts
  <2>2. Len(Below(u)) = 0
    BY <1>2, <1>4, Shape DEF ActsShape
  <2>3. QED BY <2>1, <2>2, EmptySeq
<1>7. Top(u).at = "start" /\ Top(u).reg = cpu.reg
  <2>1. Top(u) = Activity("S", cpu.sie, "enter", cpu.reg, u)
    BY <1>1, <1>2 DEF Top, In
  <2>2. QED BY <2>1 DEF Activity, Place
<1> DEFINE b == [mode |-> "U", sie |-> TRUE, at |-> Entry, tp |-> u, reg |-> cpu.reg]
           r == Hart!New(u, "U", Entry, cpu.reg)
<1>8. Top(u)' = b
  <2>1. Top(u)' = Activity("U", TRUE, Entry, cpu.reg, u)
    BY <1>3 DEF Top, In, Entry
  <2>2. Activity("U", TRUE, Entry, cpu.reg, u) = b
    BY DEF Activity, Place, Entry
  <2>3. QED BY <2>1, <2>2
<1>9. b = [r EXCEPT !.sie = TRUE] /\ b \in Activities
  <2>1. r \in Activities /\ r.mode = "U" /\ r.at = Entry /\ r.reg = cpu.reg /\ r.tp = u
    BY <1>2, <1>4 DEF Hart!New, Activities, Modes, Entry, UserPlaces
  <2>2. b \in Activities
    BY <1>2, <1>4 DEF Activities, Modes, Entry, UserPlaces
  <2> HIDE DEF r
  <2>3. b = [r EXCEPT !.sie = TRUE]
    BY <2>1, ActivityExcept
  <2>4. QED BY <2>2, <2>3
<1> HIDE DEF b, r
<1>10. acts' = [acts EXCEPT ![u] = <<b>>]
  <2>1. <<b>> \in Seq(Activities) BY <1>9
  <2>2. <<>> \o <<b>> = <<b>> BY <2>1, ConcatEmptySeq
  <2>3. QED BY <1>5, <1>6, <1>8, <2>2
<1>11. acts' = [acts EXCEPT ![u] = <<[Hart!New(u, "U", Entry, Hart!Inner(u).reg) EXCEPT !.sie = TRUE]>>]
  BY <1>6, <1>7, <1>9, <1>10 DEF r
<1>12. Hart!Enter(u)
  BY <1>6, <1>7, <1>11 DEF Hart!Enter
<1>13. QED
  BY <1>2, <1>6, <1>12 DEF Hart!Next

\* exec changes where the program stands, and nothing else of the caller.
LEMMA ExecMaps == ASSUME IInv, IInv', do_exec PROVE Hart!Next
<1>1. PICK u : u = cpu.tp
  OBVIOUS
<1>2. cpu.pc = "handler" /\ Frame.scause = "ecall" /\ UNCHANGED <<cpu, thread, local, tf, alive>>
  BY DEF do_exec, Calling, In
<1> DEFINE f == stack[u][1]
           g == [f EXCEPT !.sepc = Entry, !.sp = UserStack]
           a == Interrupted(f)
           b == Interrupted(g)
           k == Top(u)
<1>3. /\ u \in alive /\ u \in Threads /\ f \in Frames /\ f.spp = "U" /\ f.sepc \in UserPlaces
      /\ acts[u] = <<a, k>> /\ acts[u] # <<>> /\ Len(acts[u]) = 2
      /\ acts[u][1] = a /\ a \in Activities /\ acts[u] \in Seq(Activities) /\ k \in Activities
      /\ a.mode = "U" /\ Hart!Inner(u).at = "handler"
  BY <1>1, <1>2, CallActs DEF FrameOK
<1>4. /\ Len(stack'[u]) = 1 /\ stack'[u][1] = g
      /\ \A t \in Threads \ {u} : stack'[t] = stack[t]
  BY <1>1, ExecStack
<1>5. ActsShape'
  BY Shape, PTL
<1>6. Below(u)' \in Seq(Activities) /\ Len(Below(u)') = 1 /\ Acts(u)' = Below(u)' \o <<Top(u)'>>
  BY <1>2, <1>3, <1>4, <1>5 DEF ActsShape
<1>7. Below(u)'[1] = b
  BY <1>4 DEF Below
<1>8. Below(u)' = <<b>> /\ b \in Activities
  BY <1>6, <1>7, OneElement
<1>9. Top(u)' = k
  BY <1>2 DEF Top, In
<1>10. b = [a EXCEPT !.at = Entry]
  <2>1. /\ g \in Frames /\ g.spp = "U" /\ g.sepc = Entry /\ g.reg = f.reg /\ g.tp = f.tp
    BY <1>3 DEF Frames, Entry, UserPlaces
  <2>2. g.spie = f.spie /\ f.spie \in BOOLEAN
    BY <1>3 DEF Frames
  <2> DEFINE h == g
  <2> HIDE DEF f, h
  <2>3. b = Activity("U", f.spie, Entry, f.reg, f.tp)
    BY <2>1, <2>2 DEF Interrupted, h
  <2>4. a = Activity("U", f.spie, f.sepc, f.reg, f.tp)
    BY <1>3 DEF Interrupted
  <2>5. \A pc \in UserPlaces : Place(pc) = pc /\ pc # "leaving"
    BY DEF Place, UserPlaces
  <2>6. Entry \in UserPlaces
    BY DEF Entry, UserPlaces
  <2> HIDE DEF a, b
  <2>7. b = [mode |-> "U", sie |-> f.spie, at |-> Entry, tp |-> f.tp, reg |-> f.reg]
    BY <2>2, <2>3, <2>5, <2>6, ActivityFields
  <2>8. a.mode = "U" /\ a.sie = f.spie /\ a.tp = f.tp /\ a.reg = f.reg
    BY <1>3, <2>2, <2>4, <2>5, ActivityFields
  <2>9. [a EXCEPT !.at = Entry] = [mode |-> a.mode, sie |-> a.sie, at |-> Entry, tp |-> a.tp, reg |-> a.reg]
    BY <1>3, ActivityExcept
  <2>10. QED BY <2>7, <2>8, <2>9
<1> HIDE DEF a, b, k
<1>11. Acts(u)' = <<b, k>>
  BY <1>3, <1>6, <1>8, <1>9, OneAfterOne
<1>12. \A t \in Threads \ {u} : Acts(t)' = Acts(t)
  BY <1>1, <1>2, <1>4, OthersKeep
<1>13. acts' = [acts EXCEPT ![u] = <<b, k>>]
  BY <1>3, <1>11, <1>12, OnlyOne
<1>14. acts' = [acts EXCEPT ![u][1].at = Entry]
  <2>1. [acts[u] EXCEPT ![1] = b] = <<b, k>>
    BY <1>3
  <2>2. [acts[u] EXCEPT ![1].at = Entry] = [acts[u] EXCEPT ![1] = b]
    BY <1>3, <1>10
  <2>3. QED BY <1>13, <2>1, <2>2
<1>15. Hart!Exec(u)
  BY <1>3, <1>14 DEF Hart!Exec
<1>16. QED
  BY <1>3, <1>15 DEF Hart!Next

\* fork's child goes on where the caller will, as the caller, but for its tp.
LEMMA ForkMaps == ASSUME IInv, IInv', NEW c \in Threads, do_fork(c) PROVE Hart!Next
<1>1. PICK u : u = cpu.tp
  OBVIOUS
<1> DEFINE f == Frame
           g == ChildFrame(c)
           a == Interrupted(f)
           b == Interrupted(g)
           k == Hart!New(c, "S", "leaving", 0)
<1>2. /\ cpu.pc = "handler" /\ f.scause = "ecall" /\ c \notin alive /\ alive' = alive \cup {c}
      /\ UNCHANGED <<cpu, local>> /\ stack' = [stack EXCEPT ![c] = <<g>>]
      /\ thread' = [thread EXCEPT ![c].ra = "ret", ![c].sp = Position(c, 1)]
  BY DEF do_fork, Calling, In
<1>3. /\ u \in alive /\ u \in Threads /\ f \in Frames /\ f.spp = "U" /\ f.sepc \in UserPlaces
      /\ acts[u] # <<>> /\ Len(acts[u]) = 2 /\ acts[u][1] = a /\ a \in Activities
      /\ a.mode = "U" /\ Hart!Inner(u).at = "handler"
  BY <1>1, <1>2, CallActs DEF FrameOK
<1>4. stack \in [Threads -> Seq(Frames)] /\ thread \in [Threads -> Contexts]
  BY DEF IInv, Types
<1>5. /\ \A t \in Threads \ {c} : stack'[t] = stack[t] /\ thread'[t] = thread[t]
      /\ stack'[c] = <<g>> /\ thread'[c].ra = "ret"
  BY <1>2, <1>4 DEF Contexts
<1> HIDE DEF f, g
<1>6. Len(stack'[c]) = 1 /\ stack'[c][1] = g
  BY <1>5
<1>7. /\ acts[c] = <<>> /\ Below(c)' \in Seq(Activities) /\ Len(Below(c)') = Len(stack'[c])
      /\ acts' = [acts EXCEPT ![c] = Below(c)' \o <<Top(c)'>>] /\ Top(c)' \in Activities /\ c # cpu.tp
  BY <1>2, <1>5, NewActs
<1>8. Below(c)'[1] = b
  BY <1>6 DEF Below
<1>9. Below(c)' = <<b>> /\ b \in Activities
  BY <1>6, <1>7, <1>8, OneElement
<1>10. Top(c)' = k
  <2>1. Top(c)' = Activity("S", FALSE, "ret", thread'[c].reg, c)
    BY <1>2, <1>5, <1>7 DEF Top
  <2>2. Activity("S", FALSE, "ret", thread'[c].reg, c) = k
    BY DEF Activity, Place, Hart!New
  <2>3. QED BY <2>1, <2>2
<1>11. b = [a EXCEPT !.tp = c]
  <2>1. /\ g.spp = "U" /\ g.sepc = f.sepc /\ g.reg = f.reg /\ g.tp = c
    BY <1>3 DEF Frames, ChildFrame, f, g
  <2>2. g.spie = f.spie /\ f.spie \in BOOLEAN
    BY <1>3 DEF Frames, ChildFrame, f, g
  <2>3. b = Activity("U", f.spie, f.sepc, f.reg, c) /\ a = Activity("U", f.spie, f.sepc, f.reg, f.tp)
    BY <1>3, <2>1, <2>2 DEF Interrupted
  <2>4. Place(f.sepc) # "leaving"
    BY <1>3 DEF Place, UserPlaces
  <2> HIDE DEF a, b
  <2>5. b = [mode |-> "U", sie |-> f.spie, at |-> Place(f.sepc), tp |-> c, reg |-> f.reg]
    BY <2>2, <2>3, <2>4, ActivityFields
  <2>6. a.mode = "U" /\ a.sie = f.spie /\ a.at = Place(f.sepc) /\ a.reg = f.reg
    BY <2>2, <2>3, <2>4, ActivityFields
  <2>7. [a EXCEPT !.tp = c] = [mode |-> a.mode, sie |-> a.sie, at |-> a.at, tp |-> c, reg |-> a.reg]
    BY <1>3, ActivityExcept
  <2>8. QED BY <2>5, <2>6, <2>7
<1> HIDE DEF a, b, k
<1>12. acts' = [acts EXCEPT ![c] = <<b, k>>]
  <2>1. <<b>> \o <<k>> = <<b, k>> BY <1>7, <1>9, <1>10, OneAfterOne
  <2>2. QED BY <1>7, <1>9, <1>10, <2>1
<1>13. Hart!Fork(u, c)
  BY <1>3, <1>7, <1>11, <1>12 DEF Hart!Fork, k
<1>14. QED
  BY <1>3, <1>13 DEF Hart!Next

LEMMA StepMaps == ASSUME IInv, IInv', [Next]_vars PROVE [Hart!Next]_acts
<1>1. CASE UNCHANGED vars
  <2>1. UNCHANGED <<cpu, stack, thread, local, alive>>
    BY <1>1 DEF vars
  <2>2. cpu'.tp = cpu.tp /\ cpu.tp \in alive /\ cpu.tp \in Threads
    BY <2>1, HartFacts
  <2>3. PICK u : u = cpu.tp
    OBVIOUS
  <2>4. acts' = [acts EXCEPT ![u] = Below(u) \o <<Top(u)'>>]
    BY <2>1, <2>2, <2>3, RunnerMoves
  <2>5. Top(u)' = Top(u)
    BY <2>1 DEF Top, In
  <2>6. acts[u] = Below(u) \o <<Top(u)>>
    BY <2>2, <2>3, InnerFacts
  <2>7. QED BY <2>2, <2>3, <2>4, <2>5, <2>6 DEF acts
<1>2. CASE \/ program \/ kernel \/ csr_sie \/ interrupt \/ ecall \/ trap_handler_returns \/ ret_regs
           \/ enter_user_mode \/ do_exec \/ thread_exit \/ \E t \in Threads : thread_create(t) \/ do_fork(t)
  BY <1>2, ProgramMaps, KernelMaps, InterruptMaps, CallMaps, LeaveMaps, ReturnMaps, EnterMaps, ExecMaps,
     ExitMaps, CreateMaps, ForkMaps
<1>3. CASE _ret_from_fork \/ schedule \/ schedule_returns \/ user_program_start
  BY <1>3, UnseenSteps, ScheduleMaps
<1>4. QED
  BY <1>1, <1>2, <1>3 DEF Next

\* To every thread the hart is its own: whatever traps, windows, switches, forks
\* and exits come between two of its steps, it goes on where it was, with the
\* registers, mode and interrupt enable it had.
THEOREM EveryThreadHasTheHart == Spec => IsOwnHart
<1>1. Init => Hart!Init
  BY InitMaps
<1>2. IInv /\ IInv' /\ [Next]_vars => [Hart!Next]_acts
  BY StepMaps
<1>3. QED
  BY <1>1, <1>2, Invariance, PTL DEF Spec, IsOwnHart, Hart!Spec
=============================================================================
