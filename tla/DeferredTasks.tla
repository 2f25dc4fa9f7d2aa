--------------------------- MODULE DeferredTasks ---------------------------
(***************************************************************************)
(* Deferred tasks (src/kernel/src/task.c): a list ordered by priority,     *)
(* which the trap handler empties on the way out of every interrupt, and   *)
(* the shell's testTask command by a call.  A task runs with interrupts    *)
(* enabled, so interrupts nest in it, and a timer interrupt may switch to  *)
(* another thread in the middle of it.                                     *)
(***************************************************************************)
EXTENDS Integers, SequencesExt

CONSTANTS
    Threads,
    shell,          \* the thread that adds tasks
    Batch,          \* the priorities testTask adds, in its order (1, 5, 3 in the code)
    Outlasts,       \* whether a task may run until the timer takes the CPU away
    MaxTasks,       \* bound: tasks added and not done
    MaxDepth        \* bound: interrupts nested in one thread

ASSUME TasksAssumption ==
    /\ shell \in Threads /\ Batch \in Seq(Nat)
    /\ Outlasts \in BOOLEAN /\ MaxTasks \in Nat /\ MaxDepth \in Nat

VARIABLES
    tasks,              \* the list: priorities, and numbers that tell tasks apart
    current_priority,
    current,            \* the thread that has the CPU
    calls,              \* per thread: its nested calls of run_tasks, the innermost last
    to_add              \* what testTask has yet to add, or <<>> outside of it

tasksVars == <<tasks, current_priority, current, calls, to_add>>

Priorities == Range(Batch)

\* A call of run_tasks stands at the loop's head or in a task it runs.  The
\* one that testTask makes has interrupts enabled at the loop's head as well.
NoTask == [priority |-> -1, id |-> 0]
AtLoop(direct) == [task |-> NoTask, prev_priority |-> -1, direct |-> direct]
InTask(call) == call.task # NoTask

RunningOf(t) == {call.task : call \in {x \in Range(calls[t]) : InTask(x)}}
Running == UNION {RunningOf(t) : t \in Threads}

Initial_priority == -1

TasksInit ==
    /\ tasks = <<>> /\ current_priority = Initial_priority
    /\ current = shell
    /\ calls = [t \in Threads |-> <<>>] /\ to_add = <<>>

Innermost == Last(calls[current])

\* Interrupts are enabled.
Open == calls[current] # <<>> => InTask(Innermost) \/ Innermost.direct

\* A number no living task has.
FreshTaskId == CHOOSE n \in 1..MaxTasks :
    \A x \in Range(tasks) \cup Running : x.id # n

\* Mutant: the head is not compared with.
InsertPosition_AfterHead(p) ==
    Cardinality({i \in DOMAIN tasks : i = 1 \/ tasks[i].priority >= p}) + 1

\* Behind every task of at least its priority.
InsertPosition(p) == Cardinality({i \in DOMAIN tasks : tasks[i].priority >= p}) + 1

\* The shell gets the command testTask.
command_testTask ==
    /\ current = shell /\ calls[shell] = <<>> /\ to_add = <<>>
    /\ Len(tasks) + Cardinality(Running) + Len(Batch) <= MaxTasks
    /\ to_add' = Batch
    /\ UNCHANGED <<tasks, current_priority, current, calls>>

\* The next add_task of testTask, and its call of run_tasks after the last.
\* Without memory (kmalloc fails) nothing is added.
add_task ==
    /\ current = shell /\ calls[shell] = <<>> /\ to_add # <<>>
    /\ to_add' = Tail(to_add)
    /\ LET p == Head(to_add) IN
       \/ tasks' = InsertAt(tasks, InsertPosition(p), [priority |-> p, id |-> FreshTaskId])
       \/ UNCHANGED tasks
    /\ calls' = [calls EXCEPT ![shell] = IF to_add' = <<>> THEN <<AtLoop(TRUE)>> ELSE <<>>]
    /\ UNCHANGED <<current_priority, current>>

\* An interrupt; its handler may call schedule() before run_tasks is called.
interrupt(next) ==
    /\ Open /\ Len(calls[current]) < MaxDepth
    /\ next # current => Outlasts \/ RunningOf(current) = {}
    /\ calls' = [calls EXCEPT ![current] = Append(@, AtLoop(FALSE))]
    /\ current' = next
    /\ UNCHANGED <<tasks, current_priority, to_add>>

Startable == tasks # <<>> /\ Head(tasks).priority > current_priority

\* One round of run_tasks up to the call of the task, or the end of the loop.
run_tasks ==
    /\ calls[current] # <<>> /\ ~InTask(Innermost)
    /\ UNCHANGED <<current, to_add>>
    /\ IF Startable
       THEN /\ calls' = [calls EXCEPT ![current] = Append(Front(@),
                   [Innermost EXCEPT !.task = Head(tasks), !.prev_priority = current_priority])]
            /\ current_priority' = Head(tasks).priority
            /\ tasks' = Tail(tasks)
       ELSE /\ calls' = [calls EXCEPT ![current] = Front(@)]
            /\ UNCHANGED <<tasks, current_priority>>

\* Mutant: the priority is not put back.
Restored_Not == current_priority

Restored == Innermost.prev_priority

\* The task returns: the priority is put back and the loop goes on.
task_returns ==
    /\ calls[current] # <<>> /\ InTask(Innermost)
    /\ current_priority' = Restored
    /\ calls' = [calls EXCEPT ![current] = Append(Front(@), AtLoop(Innermost.direct))]
    /\ UNCHANGED <<tasks, current, to_add>>

TasksNext ==
    \/ command_testTask \/ add_task
    \/ \E t \in Threads : interrupt(t)
    \/ run_tasks
    \/ task_returns

TasksSpec == TasksInit /\ [][TasksNext]_tasksVars

\* Interrupts leave time for tasks to return, each thread's interrupts are carried through, and there is
\* always another interrupt, in particular one that gives another thread the CPU.
TasksFairness ==
    /\ SF_tasksVars(run_tasks) /\ SF_tasksVars(task_returns)
    /\ \A t \in Threads : SF_tasksVars(interrupt(t))

TasksFairSpec == TasksSpec /\ TasksFairness

-----------------------------------------------------------------------------
(* Properties *)

\* The types of the variables.
TasksTypeOK ==
    /\ tasks \in Seq([priority : Priorities, id : 1..MaxTasks])
    /\ current_priority \in Priorities \cup {-1} /\ current \in Threads
    /\ \A t \in Threads : \A call \in Range(calls[t]) :
           /\ call.task \in [priority : Priorities, id : 1..MaxTasks] \cup {NoTask}
           /\ call.prev_priority \in Priorities \cup {-1}

\* current_priority is that of the most urgent task that has been started and
\* has not returned, -1 if there is none.
PriorityIsOfRunning ==
    /\ TasksTypeOK
    /\ \A x \in Running : x.priority <= current_priority
    /\ current_priority # -1 => \E x \in Running : x.priority = current_priority

\* The comment on current_priority: -1 means that no task is running (and no
\* task running means -1).
IdlePriority == Running = {} => current_priority = -1

\* A task is started only if it is more urgent than every task that has been
\* started, and at least as urgent as every task that waits.
MostUrgentStarts ==
    [][\A x \in Running' \ Running :
          /\ \A y \in Running : x.priority > y.priority
          /\ \A y \in Range(tasks) : x.priority >= y.priority]_tasksVars

\* The comment in testTask: its tasks "will be executed in priority order".
BatchInOrder ==
    [][\A x \in Running' \ Running : \A p \in Range(to_add) : p <= x.priority]_tasksVars

\* A task that waits gets started.
TasksRun == \A n \in 1..MaxTasks :
    (\E x \in Range(tasks) : x.id = n) ~> ~\E x \in Range(tasks) : x.id = n
=============================================================================
