------------------------------ MODULE OwnHart ------------------------------
(***************************************************************************)
(* What a thread may believe of the hart it runs on: that it is its own.   *)
(* A thread is a stack of activities, of which only the innermost moves;   *)
(* a trap puts another one on top, which leaves the interrupted one as it  *)
(* was when it returns.  Nothing is said of other threads, of how          *)
(* registers are kept or of what decides where a return leads.             *)
(***************************************************************************)
EXTENDS Integers, Sequences, SequencesExt

CONSTANTS Threads, Boot, Values, UserPlaces, Entry, AfterEcall(_)

\* Per thread: its activities, outermost first, or none.  An activity has a
\* mode, may be interrupted or not (sie), stands at a place and has registers
\* (reg stands for one that every interruption must keep) and the pointer tp
\* to the thread it belongs to.
VARIABLE acts

Inner(t) == Last(acts[t])
Moves(t, act) == acts' = [acts EXCEPT ![t] = Front(acts[t]) \o <<act>>]
New(t, mode, at, reg) == [mode |-> mode, sie |-> FALSE, at |-> at, tp |-> t, reg |-> reg]

Init == acts = [t \in Threads |-> IF t = Boot
                                  THEN <<[New(t, "S", "kernel", 0) EXCEPT !.sie = TRUE]>>
                                  ELSE <<>>]

\* Work of a program, or of the kernel where it may be interrupted and not.
Program(t) ==
    /\ Inner(t).mode = "U"
    /\ \E pc \in UserPlaces, v \in Values :
           Moves(t, [Inner(t) EXCEPT !.at = pc, !.reg = v])
Kernel(t) ==
    /\ Inner(t).at \in {"kernel", "handler"}
    /\ \E v \in Values, sie \in BOOLEAN : Moves(t, [Inner(t) EXCEPT !.sie = sie, !.reg = v])

Interrupt(t) ==
    /\ Inner(t).mode = "U" \/ Inner(t).sie
    /\ acts' = [acts EXCEPT ![t] = Append(@, New(t, "S", "handler", Inner(t).reg))]

Call(t) ==
    /\ Inner(t).mode = "U"
    /\ acts' = [acts EXCEPT ![t] =
           <<[Inner(t) EXCEPT !.at = AfterEcall(@)], New(t, "S", "handler", Inner(t).reg)>>]

\* The kernel is done: the activity below is the innermost again, unchanged.
Leave(t) == Inner(t).at = "handler" /\ ~Inner(t).sie /\ Moves(t, New(t, "S", "leaving", 0))
Return(t) == Inner(t).at = "leaving" /\ acts' = [acts EXCEPT ![t] = Front(@)]

\* A call may start the caller's program anew, copy the caller, or end it.
Exec(t) ==
    /\ Len(acts[t]) = 2 /\ acts[t][1].mode = "U" /\ Inner(t).at = "handler"
    /\ acts' = [acts EXCEPT ![t][1].at = Entry]
Fork(t, c) ==
    /\ acts[c] = <<>> /\ Len(acts[t]) = 2 /\ acts[t][1].mode = "U" /\ Inner(t).at = "handler"
    /\ acts' = [acts EXCEPT ![c] = <<[acts[t][1] EXCEPT !.tp = c], New(c, "S", "leaving", 0)>>]
Exit(t) == Len(acts[t]) = 2 /\ acts[t][1].mode = "U" /\ acts' = [acts EXCEPT ![t] = <<>>]

\* The shell makes a thread that will enter a program.
Create(c) == acts[c] = <<>> /\ \E v \in Values : acts' = [acts EXCEPT ![c] = <<New(c, "S", "start", v)>>]
Enter(t) ==
    /\ Inner(t).at = "start"
    /\ acts' = [acts EXCEPT ![t] = <<[New(t, "U", Entry, Inner(t).reg) EXCEPT !.sie = TRUE]>>]

Next ==
    \E t \in Threads :
        \/ Create(t)
        \/ /\ acts[t] # <<>>
           /\ \/ Program(t) \/ Kernel(t) \/ Interrupt(t) \/ Call(t) \/ Leave(t) \/ Return(t)
              \/ Exec(t) \/ Exit(t) \/ Enter(t) \/ \E c \in Threads : Fork(t, c)

Spec == Init /\ [][Next]_acts
=============================================================================
