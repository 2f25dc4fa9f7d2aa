--------------------------- MODULE PrivateMemory ---------------------------
(***************************************************************************)
(* The memory a user process believes it has: pages of its own, whose      *)
(* values only its own stores change.  Nothing is said of frames, sharing  *)
(* or when a page is brought in.                                           *)
(***************************************************************************)
EXTENDS Integers

CONSTANTS
    Procs,       \* the processes (slots that are used again)
    Programs,    \* what a process can execute
    Data,        \* what a store can write
    Zero,        \* the value of a fresh page
    Trampoline,  \* the value of a fresh signal stack
    Nothing,     \* there is no such page
    CODE_PAGES, STACK_START, USER_TOP, \* the code is below CODE_PAGES, the stack at the top
    SIGNAL_PAGE  \* where a signal handler's stack appears

VARIABLE mem \* per process and page: its value, or Nothing

Pages == 0..(USER_TOP - 1)
Nowhere == [v \in Pages |-> Nothing]

\* What exec leaves: the program's code and an empty stack.
Image(program) == [v \in Pages |-> IF v < CODE_PAGES THEN <<program, v>>
                                   ELSE IF v >= STACK_START THEN Zero ELSE Nothing]

Init == mem = [p \in Procs |-> Nowhere]

\* What becomes of one process's memory, from old to new.
Start(old, new) == old = Nowhere /\ \E program \in Programs : new = Image(program)
Exec(old, new) == old # Nowhere /\ \E program \in Programs : new = Image(program)
End(old, new) == new = Nowhere

SameBut(V, old, new) == \A v \in Pages \ V : new[v] = old[v]

Store(old, new) ==
    \E v \in Pages : old[v] # Nothing /\ new[v] \in Data /\ SameBut({v}, old, new)

\* New pages appear where there were none.
Map(old, new) ==
    LET fresh == {v \in Pages : old[v] # new[v]}
    IN \A v \in fresh : old[v] = Nothing /\ new[v] = Zero

\* A signal handler's stack comes and goes.
Deliver(old, new) ==
    /\ old # Nowhere /\ old[SIGNAL_PAGE] = Nothing /\ new[SIGNAL_PAGE] = Trampoline
    /\ SameBut({SIGNAL_PAGE}, old, new)
Return(old, new) == new[SIGNAL_PAGE] = Nothing /\ SameBut({SIGNAL_PAGE}, old, new)

\* A child gets a copy of its parent's memory, and the parent keeps it.
Fork(old, new) == old = Nowhere /\ \E parent \in Procs : new = mem[parent]

Next ==
    \E p \in Procs :
        /\ mem'[p] # mem[p] /\ \A q \in Procs \ {p} : mem'[q] = mem[q]
        /\ LET old == mem[p]
               new == mem'[p]
           IN \/ Start(old, new) \/ Exec(old, new) \/ End(old, new) \/ Fork(old, new)
              \/ Store(old, new) \/ Map(old, new) \/ Deliver(old, new) \/ Return(old, new)

Spec == Init /\ [][Next]_mem
=============================================================================
