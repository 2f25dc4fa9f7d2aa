---------------------------- MODULE TameThreads ----------------------------
(***************************************************************************)
(* Threads with programs that keep to three rules, and the inductive       *)
(* invariant that holds of the kernel as long as they do.                  *)
(***************************************************************************)
EXTENDS Threads

\* A program leaves pid 0 alone, kills itself with exit and not with kill, and
\* does not take back a handler it has registered.
ASSUME TamePrograms ==
    /\ 0 \in Protected
    /\ "selfkill" \notin Calls /\ "unsignal" \notin Calls

\* What makes RunningTaskIsQueued, VictimIsIdlesAlone, CurrentIsRunnable and
\* WaitpidWalksWholeQueue inductive.  The queue is a ring without repetitions
\* headed by idle, and with idle's victim it is all there is on the heap.
QueueInv ==
    /\ run_queue # <<>> /\ IsInjective(run_queue) /\ run_queue[1] = Idle
    /\ heap = Range(run_queue) \cup ({zombie_to_free} \ {NULL})
    /\ zombie_to_free \notin Range(run_queue)

\* Idle is always runnable, nobody else runs its code, and it has a victim
\* exactly between the two halves of kill_zombies.
IdlePcs == {"kz", "kz_free", "yield"}
IdleInv ==
    /\ pid[Idle] = 0 /\ state[Idle] = "RUNNING"
    /\ \A t \in Tasks : pc[t] \in IdlePcs <=> t = Idle
    /\ pc[Idle] = "kz_free" <=> zombie_to_free # NULL

\* The current task is queued and runnable, and only signals with a handler
\* are ever pending.
RunInv ==
    /\ current \in Range(run_queue) /\ state[current] = "RUNNING"
    /\ \A t \in Tasks : pending[t] \subseteq handlers[t]

\* A walk of do_waitpid starts at idle.
WaitInv == \A t \in Tasks : pc[t] = "wp_scan" => curr[t] = Idle

InductiveInv == TypeOK /\ QueueInv /\ IdleInv /\ RunInv /\ WaitInv

-----------------------------------------------------------------------------
(* The processes behind the task structures *)

\* The tasks in the queue, and the one that answers to a number.
Queued == Range(run_queue)
Known(n) == \E t \in Queued : pid[t] = n
Named(n) == CHOOSE t \in Queued : pid[t] = n

Life(t) == IF state[t] = "RUNNING" THEN "ready"
           ELSE IF state[t] = "SLEEPING" THEN "asleep" ELSE "dead"

\* A number that has been given out and is not in the queue has been collected.
Lives == [n \in Pids |-> IF n >= nr_threads THEN "unused"
                         ELSE IF Known(n) THEN Life(Named(n)) ELSE "collected"]
Parents == [n \in Pids |-> IF Known(n) THEN ppid[Named(n)] ELSE 0]

Processes == INSTANCE ProcessLifecycle WITH
    Numbers <- Pids, life <- Lives, parent <- Parents, cpu <- pid[current]

\* Whatever is preempted where, and whichever task_struct is used again for
\* whom: a process is created, dies and is collected once each, its number
\* stays its own, it runs only while it is ready, and idle collects nobody who
\* has a parent left.
IsProcessLifecycle == Processes!Spec
=============================================================================
