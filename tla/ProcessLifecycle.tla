-------------------------- MODULE ProcessLifecycle --------------------------
(***************************************************************************)
(* What the kernel promises of its processes, by their numbers: each is    *)
(* created once, dies once and is collected once, and only one that is     *)
(* ready runs.  Nothing is said of task structures, queues or interrupts.  *)
(***************************************************************************)
EXTENDS Integers

CONSTANT Numbers \* what a process can be called; 0 is idle and 1 the shell

VARIABLES
    life,   \* how far each number has got
    parent, \* the process it belongs to; 0 if it is idle's
    cpu     \* the process that runs

lifeVars == <<life, parent, cpu>>

Init ==
    /\ life = [n \in Numbers |-> IF n \in {0, 1} THEN "ready" ELSE "unused"]
    /\ parent = [n \in Numbers |-> 0]
    /\ cpu = 0

\* Whoever runs after the step is ready then.
Dispatch == cpu' \in Numbers /\ life'[cpu'] = "ready"

\* Numbers are given out in order, each of them once.
Create(n) ==
    /\ life[n] = "unused" /\ \A m \in Numbers : m < n => life[m] # "unused"
    /\ life' = [life EXCEPT ![n] = "ready"]
    /\ \E p \in {0, cpu} : parent' = [parent EXCEPT ![n] = p]
    /\ UNCHANGED cpu

\* The running process ends, and its children become idle's.
Exit ==
    /\ cpu # 0
    /\ life' = [life EXCEPT ![cpu] = "dead"]
    /\ parent' = [n \in Numbers |-> IF parent[n] = cpu THEN 0 ELSE parent[n]]
    /\ Dispatch

\* It ends any process but idle: a stopped one stays its parent's, a killed
\* one becomes idle's, even when it was dead before.
Stop(n) ==
    /\ n # 0 /\ life[n] \in {"ready", "asleep"}
    /\ life' = [life EXCEPT ![n] = "dead"]
    /\ UNCHANGED parent
    /\ IF n = cpu THEN Dispatch ELSE UNCHANGED cpu

Kill(n) ==
    /\ n \notin {0, cpu} /\ life[n] \in {"ready", "asleep", "dead"}
    /\ life' = [life EXCEPT ![n] = "dead"]
    /\ parent' = [parent EXCEPT ![n] = 0]
    /\ UNCHANGED cpu

Sleep ==
    /\ cpu # 0
    /\ life' = [life EXCEPT ![cpu] = "asleep"]
    /\ UNCHANGED parent
    /\ Dispatch

\* Sleepers wake up, and the CPU may go to somebody else.
Switch ==
    /\ \E woken \in SUBSET {n \in Numbers : life[n] = "asleep"} :
           life' = [n \in Numbers |-> IF n \in woken THEN "ready" ELSE life[n]]
    /\ UNCHANGED parent
    /\ Dispatch

\* The running process takes back what a dead one has left; idle only what is
\* its own.
Collect(n) ==
    /\ life[n] = "dead" /\ (cpu = 0 => parent[n] = 0)
    /\ life' = [life EXCEPT ![n] = "collected"]
    /\ parent' = [parent EXCEPT ![n] = 0]
    /\ UNCHANGED cpu

Next ==
    \/ \E n \in Numbers : Create(n) \/ Stop(n) \/ Kill(n) \/ Collect(n)
    \/ Exit \/ Sleep \/ Switch

Spec == Init /\ [][Next]_lifeVars
=============================================================================
