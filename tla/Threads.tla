------------------------------ MODULE Threads ------------------------------
(***************************************************************************)
(* Threads, the run queue and process life cycle of the kernel             *)
(* (src/kernel/src/thread.c, with the callers in shell.c, syscall.c,       *)
(* timer.c and trap.c).                                                    *)
(*                                                                         *)
(* One hart: the only concurrency is preemption by the timer interrupt     *)
(* where sstatus.SIE is set, and schedule().  A step is what the current   *)
(* task does between two points where another task can get the CPU or an   *)
(* interrupt can be taken.  A process in U-mode may make any system call.  *)
(***************************************************************************)
EXTENDS Integers, SequencesExt

CONSTANTS
    Tasks,      \* the addresses kmalloc hands out for a struct task_struct
    Idle,       \* the task_struct of the idle thread (pid 0)
    Shell,      \* the task_struct of the shell thread (pid 1)
    NULL,
    Sigs,       \* signal numbers, a set of naturals
    Calls,      \* what programs and the shell's user do in this instance
    Protected,  \* pids no program stops or kills
    FooThreads, \* threads the shell's testThread command starts (3 in the code)
    MaxPid,     \* bound: no thread is created once nr_threads reaches it
    MaxTimers   \* bound: no usleep while this many timer events are pending

ASSUME ConstantsAssumption ==
    /\ Idle \in Tasks /\ Shell \in Tasks /\ Idle # Shell
    /\ NULL \notin Tasks
    /\ Sigs \subseteq Nat
    /\ FooThreads \in Nat /\ MaxPid \in Nat /\ MaxTimers \in Nat
    /\ MaxPid >= 2

VARIABLES
    run_queue,  \* the circular list: [1] is *run_queue, [i+1] is [i]->next
    heap,       \* the task_structs kmalloc has handed out and not got back
    nr_threads,
    current,    \* the tp register
    state, pid, ppid,              \* fields of each task_struct
    handlers, pending, handling,   \* signal_handlers, pending_signals, is_handling_signal
    pc,         \* where each task runs or resumes
    arg,        \* its local: the pid waited for, or the pid testThread has read
    curr,       \* its local in user_program_execute: the new task, and in
                \* do_waitpid: the queue head it has read
    left,       \* threads testThread has still to start
    zombie_to_free,                \* the local of kill_zombies
    timers      \* the pending wakeup_callback events, in order of expiry

taskVars == <<state, pid, ppid, handlers, pending, handling>>
vars == <<run_queue, heap, nr_threads, current, state, pid, ppid, handlers,
          pending, handling, pc, arg, curr, left, zombie_to_free, timers>>

Pids == 0..(MaxPid - 1)
States == {"RUNNING", "ZOMBIE", "SLEEPING"}
\* Code that runs with interrupts enabled, whichever thread runs it.
Open == {"user", "uart", "prompt", "kz", "kz_free", "yield", "foo",
         "exec_return", "tt_read", "tt_create", "tt_yield"}
\* do_waitpid runs with interrupts enabled only when the shell calls it.
Waiting == {"wp_read", "wp_scan", "wp_yield"}
Pcs == Open \cup Waiting \cup {"ret", "gone", "raw"}

-----------------------------------------------------------------------------
(* The run queue *)

\* Mutant: the new task becomes the head of the queue.
Enqueue_AtHead(q, t) == <<t>> \o q

\* The head of the queue stays the head: a new task goes right behind it.
Enqueue(q, t) == IF q = <<>> THEN <<t>> ELSE InsertAt(q, 2, t)

\* Mutant: the task is never unlinked.
Dequeue_Never(q, t) == q

Dequeue(q, t) ==
    IF \E i \in DOMAIN q : q[i] = t
    THEN RemoveAt(q, CHOOSE i \in DOMAIN q : q[i] = t)
    ELSE q

\* The positions a walk along ->next passes strictly between i and j.
Passed(q, i, j) ==
    {k \in DOMAIN q : IF i < j THEN i < k /\ k < j ELSE k < j \/ i < k}

\* Mutant: the walk starts at run_queue->next instead of c->next.
StopsAt_FromHead(q, st, c, t) ==
    \E j \in DOMAIN q :
        /\ q[j] = t /\ st[t] = "RUNNING"
        /\ \A k \in Passed(q, 1, j) : st[q[k]] # "RUNNING"

\* Mutant: the walk does not look at the state of the tasks.
StopsAt_AnyState(q, st, c, t) ==
    \E i, j \in DOMAIN q : q[i] = c /\ q[j] = t /\ Passed(q, i, j) = {}

\* t is where the walk of schedule() from c->next stops: the first RUNNING
\* task, or c again.
StopsAt(q, st, c, t) ==
    \E i, j \in DOMAIN q :
        /\ q[i] = c /\ q[j] = t
        /\ t = c \/ st[t] = "RUNNING"
        /\ \A k \in Passed(q, i, j) : st[q[k]] # "RUNNING"

\* The switch reads the queue and the states as the step leaves them.
schedule == current' \in Tasks /\ StopsAt(run_queue', state', current, current')

\* t is the first task with pid p in the queue q.
Finds(q, p, t) ==
    \E i \in DOMAIN q : /\ q[i] = t /\ pid[t] = p
                        /\ \A j \in 1..(i - 1) : pid[q[j]] # p

Absent(q, p) == \A i \in DOMAIN q : pid[q[i]] # p

Goto(label) == pc' = [pc EXCEPT ![current] = label]

IsShell(t) == pid[t] = 1
\* Where a call returns to: the way out of the trap, or the shell's prompt.
Home(t) == IF IsShell(t) THEN "prompt" ELSE "ret"

Calling(call) == pc[current] = "user" /\ call \in Calls

-----------------------------------------------------------------------------
(* Thread creation *)

\* Mutant: numbers are counted from the tasks there are, so one is used again.
NewPid_Counted == Len(run_queue)

NewPid == nr_threads

\* thread_create: t is fresh from kmalloc, gets number n and is runnable and
\* in the queue at once.
thread_create(t, n, parent, hs) ==
    /\ t \in Tasks \ heap
    /\ n + 1 <= MaxPid
    /\ heap' = heap \cup {t}
    /\ nr_threads' = n + 1
    /\ pid' = [pid EXCEPT ![t] = n]
    /\ ppid' = [ppid EXCEPT ![t] = parent]
    /\ state' = [state EXCEPT ![t] = "RUNNING"]
    /\ handlers' = [handlers EXCEPT ![t] = hs]
    /\ pending' = [pending EXCEPT ![t] = {}]
    /\ handling' = [handling EXCEPT ![t] = FALSE]
    /\ run_queue' = Enqueue(run_queue, t)

\* The shell's exec command: user_program_execute up to the end of its critical
\* section.
user_program_execute ==
    /\ pc[current] = "prompt" /\ "exec" \in Calls
    /\ \E t \in Tasks :
        /\ thread_create(t, NewPid, pid[current], {})
        /\ pc' = [pc EXCEPT ![t] = "user", ![current] = "exec_return"]
        /\ curr' = [curr EXCEPT ![current] = t]
    /\ UNCHANGED <<current, arg, left, zombie_to_free, timers>>

\* return task->pid, and do_waitpid is called with it.  By now others may have
\* ended and collected the task: its task_struct may be another's, or hold
\* anything.
user_program_execute_returns ==
    /\ pc[current] = "exec_return"
    /\ LET task == curr[current]
       IN \E p \in IF task \in heap THEN {pid[task]} ELSE Pids :
             arg' = [arg EXCEPT ![current] = p]
    /\ curr' = [curr EXCEPT ![current] = NULL]
    /\ Goto("wp_read")
    /\ UNCHANGED <<taskVars, run_queue, heap, nr_threads, current, left,
                   zombie_to_free, timers>>

\* The child resumes in _ret_from_fork, with the parent's handlers.
do_fork ==
    /\ Calling("fork")
    /\ \E t \in Tasks :
        /\ thread_create(t, NewPid, pid[current], handlers[current])
        /\ pc' = [pc EXCEPT ![t] = "user", ![current] = "ret"]
    /\ UNCHANGED <<current, arg, curr, left, zombie_to_free, timers>>

\* alloc_page fails while the page tables are copied: do_fork returns -1
\* before it sets the child's ppid and context (thread.ra is still 0).
do_fork_fails ==
    /\ Calling("oom")
    /\ \E t \in Tasks :
        /\ thread_create(t, NewPid, 0, {})
        /\ pc' = [pc EXCEPT ![t] = "raw", ![current] = "ret"]
    /\ UNCHANGED <<current, arg, curr, left, zombie_to_free, timers>>

\* The shell's testThread command.  It runs with interrupts enabled, so the
\* increment of nr_threads in thread_create is a load and, later, a store.
test_threads ==
    /\ pc[current] = "prompt" /\ "testThread" \in Calls
    /\ left' = FooThreads
    /\ Goto("tt_read")
    /\ UNCHANGED <<taskVars, run_queue, heap, nr_threads, current, arg, curr,
                   zombie_to_free, timers>>

test_threads_read ==
    /\ pc[current] = "tt_read"
    /\ arg' = [arg EXCEPT ![current] = nr_threads]
    /\ Goto(IF left = 0 THEN "tt_yield" ELSE "tt_create")
    /\ UNCHANGED <<taskVars, run_queue, heap, nr_threads, current, curr, left,
                   zombie_to_free, timers>>

test_threads_create ==
    /\ pc[current] = "tt_create"
    /\ left' = left - 1
    /\ \E t \in Tasks :
        /\ thread_create(t, arg[current], 0, {})
        /\ pc' = [pc EXCEPT ![t] = "foo", ![current] = "tt_read"]
    /\ UNCHANGED <<current, arg, curr, zombie_to_free, timers>>

test_threads_yield ==
    /\ pc[current] = "tt_yield"
    /\ Goto("prompt")
    /\ UNCHANGED <<taskVars, run_queue, heap, nr_threads, arg, curr, left,
                   zombie_to_free, timers>>
    /\ schedule

-----------------------------------------------------------------------------
(* Termination *)

\* Mutant: the children are not handed over.
Reparented_Not == ppid

\* The children of the current task that are in the queue become orphans.
Reparented == [t \in Tasks |-> IF t \in Range(run_queue) /\ ppid[t] = pid[current]
                               THEN 0 ELSE ppid[t]]

\* The exit system call, a fault the trap handler cannot serve, or the end of
\* foo.  A half-built child also ends here: it starts at address 0 in S-mode
\* and faults there until the page allocator is empty.
thread_exit ==
    /\ Calling("exit") \/ pc[current] \in {"foo", "raw"}
    /\ state' = [state EXCEPT ![current] = "ZOMBIE"]
    /\ ppid' = Reparented
    /\ Goto("gone")
    /\ UNCHANGED <<run_queue, heap, nr_threads, pid, handlers, pending,
                   handling, arg, curr, left, zombie_to_free, timers>>
    /\ schedule

do_stop ==
    /\ Calling("stop")
    /\ UNCHANGED <<run_queue, heap, nr_threads, pid, ppid, handlers, pending,
                   handling, arg, curr, left, zombie_to_free, timers>>
    /\ \E p \in Pids \ Protected :
        \/ /\ Absent(run_queue, p)
           /\ Goto("ret")
           /\ UNCHANGED <<state, current>>
        \/ \E t \in Tasks :
            /\ Finds(run_queue, p, t)
            /\ state' = [state EXCEPT ![t] = "ZOMBIE"]
            /\ IF t = current THEN Goto("gone") /\ schedule
                              ELSE Goto("ret") /\ UNCHANGED current

\* A registered handler gets the signal; otherwise the target dies, as an
\* orphan.  A process that kills itself goes on to U-mode.
do_kill ==
    /\ Calling("kill")
    /\ Goto("ret")
    /\ UNCHANGED <<run_queue, heap, nr_threads, current, pid, handlers,
                   handling, arg, curr, left, zombie_to_free, timers>>
    /\ \E p \in Pids \ Protected, s \in Sigs :
        \/ Absent(run_queue, p) /\ UNCHANGED <<state, ppid, pending>>
        \/ \E t \in Tasks :
            /\ Finds(run_queue, p, t)
            /\ IF s \in handlers[t]
               THEN /\ pending' = [pending EXCEPT ![t] = @ \cup {s}]
                    /\ UNCHANGED <<state, ppid>>
               ELSE /\ t = current => "selfkill" \in Calls
                    /\ state' = [state EXCEPT ![t] = "ZOMBIE"]
                    /\ ppid' = [ppid EXCEPT ![t] = 0]
                    /\ UNCHANGED pending

-----------------------------------------------------------------------------
(* Reaping *)

\* Mutant: any orphan is taken, dead or not.
OrphanZombie_Alive(t) == ppid[t] = 0

OrphanZombie(t) == state[t] = "ZOMBIE" /\ ppid[t] = 0

\* The critical section of kill_zombies takes one orphan zombie out of the
\* queue, the first one met from run_queue->next on, the head last.
kill_zombies ==
    /\ pc[current] = "kz"
    /\ LET orphans == {i \in DOMAIN run_queue : OrphanZombie(run_queue[i])}
       IN IF orphans = {}
          THEN Goto("yield") /\ UNCHANGED <<run_queue, zombie_to_free>>
          ELSE \E i \in orphans :
                /\ i = 1 => orphans = {1}
                /\ \A j \in orphans : j = 1 \/ i <= j
                /\ run_queue' = Dequeue(run_queue, run_queue[i])
                /\ zombie_to_free' = run_queue[i]
                /\ Goto("kz_free")
    /\ UNCHANGED <<taskVars, heap, nr_threads, current, arg, curr, left, timers>>

\* The rest of kill_zombies, with interrupts enabled again.
kill_zombies_free ==
    /\ pc[current] = "kz_free"
    /\ heap' = heap \ {zombie_to_free}
    /\ zombie_to_free' = NULL
    /\ Goto("yield")
    /\ UNCHANGED <<taskVars, run_queue, nr_threads, current, arg, curr, left, timers>>

\* Mutant: idle reaps once and then only schedules.
idle_yield_NoReaping ==
    /\ pc[current] = "yield"
    /\ UNCHANGED <<taskVars, run_queue, heap, nr_threads, pc, arg, curr, left,
                   zombie_to_free, timers>>
    /\ schedule

idle_yield ==
    /\ pc[current] = "yield"
    /\ Goto("kz")
    /\ UNCHANGED <<taskVars, run_queue, heap, nr_threads, arg, curr, left,
                   zombie_to_free, timers>>
    /\ schedule

waitpid_call ==
    /\ Calling("waitpid")
    /\ \E p \in Pids : arg' = [arg EXCEPT ![current] = p]
    /\ Goto("wp_read")
    /\ UNCHANGED <<taskVars, run_queue, heap, nr_threads, current, curr, left,
                   zombie_to_free, timers>>

\* do_waitpid reads run_queue before it disables interrupts.
do_waitpid_read ==
    /\ pc[current] = "wp_read"
    /\ curr' = [curr EXCEPT ![current] = run_queue[1]]
    /\ Goto("wp_scan")
    /\ UNCHANGED <<taskVars, run_queue, heap, nr_threads, current, arg, left,
                   zombie_to_free, timers>>

\* Mutant: the test is the one of kill_zombies.
Reapable_Orphan(t) == state[t] = "ZOMBIE" /\ ppid[t] = 0

Reapable(t) == state[t] = "ZOMBIE"

\* Its critical section walks from the head it read to the head there is now.
do_waitpid_scan ==
    /\ pc[current] = "wp_scan"
    /\ curr' = [curr EXCEPT ![current] = NULL]
    /\ UNCHANGED <<taskVars, nr_threads, current, left, zombie_to_free, timers>>
    /\ \E first \in DOMAIN run_queue :
        LET walk == SubSeq(run_queue, first, Len(run_queue))
            p == arg[current]
        IN /\ run_queue[first] = curr[current]
           /\ \/ /\ Absent(walk, p)
                 /\ Goto(Home(current))
                 /\ arg' = [arg EXCEPT ![current] = 0]
                 /\ UNCHANGED <<run_queue, heap>>
              \/ \E t \in Tasks :
                  /\ Finds(walk, p, t)
                  /\ IF Reapable(t)
                     THEN /\ run_queue' = Dequeue(run_queue, t)
                          /\ heap' = heap \ {t}
                          /\ arg' = [arg EXCEPT ![current] = 0]
                          /\ Goto(Home(current))
                     ELSE /\ Goto("wp_yield")
                          /\ UNCHANGED <<run_queue, heap, arg>>

do_waitpid_yield ==
    /\ pc[current] = "wp_yield"
    /\ Goto("wp_read")
    /\ UNCHANGED <<taskVars, run_queue, heap, nr_threads, arg, curr, left,
                   zombie_to_free, timers>>
    /\ schedule

-----------------------------------------------------------------------------
(* Sleeping and the timer interrupt *)

\* add_timer_ticks keeps the events sorted by expiry; the time is arbitrary.
\* Without memory for the event it gives up, and the task sleeps all the same.
do_usleep ==
    /\ Calling("usleep")
    /\ Goto("ret")
    /\ UNCHANGED <<run_queue, heap, nr_threads, pid, ppid, handlers, pending,
                   handling, arg, curr, left, zombie_to_free>>
    /\ \/ UNCHANGED <<state, current, timers>>  \* usleep(0)
       \/ /\ state' = [state EXCEPT ![current] = "SLEEPING"]
          /\ \/ /\ Len(timers) < MaxTimers
                /\ \E i \in 1..(Len(timers) + 1) :
                    timers' = InsertAt(timers, i, [task |-> current, by |-> pid[current]])
             \/ "oom" \in Calls /\ UNCHANGED timers
          /\ schedule

\* Mutant: the callback does not check that the task sleeps.
wakeup_callback_Blind(k) ==
    [t \in Tasks |-> IF \E i \in 1..k : timers[i].task = t THEN "RUNNING" ELSE state[t]]

\* Mutant: the last expired event is dropped without its callback.
wakeup_callback_Short(k) ==
    [t \in Tasks |-> IF state[t] = "SLEEPING" /\ \E i \in 1..(k - 1) : timers[i].task = t
                     THEN "RUNNING" ELSE state[t]]

\* The states after wakeup_callback(task) for the first k timer events.
wakeup_callback(k) ==
    [t \in Tasks |-> IF state[t] = "SLEEPING" /\ \E i \in 1..k : timers[i].task = t
                     THEN "RUNNING" ELSE state[t]]

Interruptible(t) == pc[t] \in Open \/ (IsShell(t) /\ pc[t] \in Waiting)

\* core_timer_handler: the first k events have expired, preempt_callback among
\* them if resched.  A process interrupted in U-mode leaves by signal_check.
core_timer_handler(k, resched) ==
    /\ Interruptible(current)
    /\ state' = wakeup_callback(k)
    /\ timers' = SubSeq(timers, k + 1, Len(timers))
    /\ IF pc[current] = "user" THEN Goto("ret") ELSE UNCHANGED pc
    /\ UNCHANGED <<run_queue, heap, nr_threads, pid, ppid, handlers, pending,
                   handling, arg, curr, left, zombie_to_free>>
    /\ IF resched THEN schedule ELSE UNCHANGED current

timer_interrupt ==
    \E k \in 0..Len(timers), resched \in BOOLEAN : core_timer_handler(k, resched)

-----------------------------------------------------------------------------
(* Signals and the console system calls *)

\* Registering a handler, or NULL for the default action.
do_signal ==
    /\ Calling("signal")
    /\ \E s \in Sigs :
        \/ handlers' = [handlers EXCEPT ![current] = @ \cup {s}]
        \/ /\ "unsignal" \in Calls
           /\ handlers' = [handlers EXCEPT ![current] = @ \ {s}]
    /\ Goto("ret")
    /\ UNCHANGED <<run_queue, heap, nr_threads, current, state, pid, ppid, pending,
                   handling, arg, curr, left, zombie_to_free, timers>>

\* The way out of every trap to U-mode: deliver the lowest pending signal.
signal_check ==
    /\ pc[current] = "ret"
    /\ Goto("user")
    /\ UNCHANGED <<run_queue, heap, nr_threads, current, pid, handlers, arg, curr,
                   left, zombie_to_free, timers>>
    /\ IF pending[current] = {} \/ handling[current]
       THEN UNCHANGED <<state, ppid, pending, handling>>
       ELSE \E s \in pending[current] :
             /\ \A r \in pending[current] : s <= r
             /\ pending' = [pending EXCEPT ![current] = @ \ {s}]
             /\ IF s \in handlers[current]
                THEN /\ handling' = [handling EXCEPT ![current] = TRUE]
                     /\ UNCHANGED <<state, ppid>>
                ELSE /\ state' = [state EXCEPT ![current] = "ZOMBIE"]
                     /\ ppid' = [ppid EXCEPT ![current] = 0]
                     /\ UNCHANGED handling

\* The trampoline under the handler makes this call when the handler returns.
do_sigreturn ==
    /\ pc[current] = "user" /\ handling[current]
    /\ handling' = [handling EXCEPT ![current] = FALSE]
    /\ Goto("ret")
    /\ UNCHANGED <<run_queue, heap, nr_threads, current, state, pid, ppid, handlers,
                   pending, arg, curr, left, zombie_to_free, timers>>

\* uart_read and uart_write run in the kernel with interrupts enabled.
uart_syscall ==
    /\ \/ Calling("uart") /\ Goto("uart")
       \/ pc[current] = "uart" /\ Goto("ret")
    /\ UNCHANGED <<taskVars, run_queue, heap, nr_threads, current, arg, curr, left,
                   zombie_to_free, timers>>

-----------------------------------------------------------------------------
(* main has created idle and the shell and runs as idle. *)
Init ==
    /\ run_queue = <<Idle, Shell>>
    /\ heap = {Idle, Shell}
    /\ nr_threads = 2
    /\ current = Idle
    /\ state = [t \in Tasks |-> "RUNNING"]
    /\ pid = [t \in Tasks |-> IF t = Shell THEN 1 ELSE 0]
    /\ ppid = [t \in Tasks |-> 0]
    /\ handlers = [t \in Tasks |-> {}]
    /\ pending = [t \in Tasks |-> {}]
    /\ handling = [t \in Tasks |-> FALSE]
    /\ pc = [t \in Tasks |-> IF t = Idle THEN "kz" ELSE "prompt"]
    /\ arg = [t \in Tasks |-> 0]
    /\ curr = [t \in Tasks |-> NULL]
    /\ left = 0
    /\ zombie_to_free = NULL
    /\ timers = <<>>

\* What the kernel does next by itself, as opposed to a program's calls.
KernelStep ==
    \/ user_program_execute_returns
    \/ test_threads_read \/ test_threads_create \/ test_threads_yield
    \/ kill_zombies \/ kill_zombies_free \/ idle_yield
    \/ do_waitpid_read \/ do_waitpid_scan \/ do_waitpid_yield
    \/ signal_check

Call ==
    \/ user_program_execute \/ test_threads
    \/ do_fork \/ do_fork_fails \/ waitpid_call
    \/ thread_exit \/ do_stop \/ do_kill \/ do_usleep
    \/ do_signal \/ do_sigreturn \/ uart_syscall

Next == KernelStep \/ Call \/ timer_interrupt

Spec == Init /\ [][Next]_vars

-----------------------------------------------------------------------------
(* Safety *)

\* The types of the variables.
TypeOK ==
    /\ run_queue \in Seq(Tasks)
    /\ heap \subseteq Tasks
    /\ nr_threads \in Nat
    /\ current \in Tasks
    /\ state \in [Tasks -> States]
    /\ pid \in [Tasks -> Nat] /\ ppid \in [Tasks -> Nat]
    /\ handlers \in [Tasks -> SUBSET Sigs] /\ pending \in [Tasks -> SUBSET Sigs]
    /\ handling \in [Tasks -> BOOLEAN]
    /\ pc \in [Tasks -> Pcs]
    /\ arg \in [Tasks -> Nat]
    /\ curr \in [Tasks -> Tasks \cup {NULL}]
    /\ left \in Int
    /\ zombie_to_free \in Tasks \cup {NULL}
    /\ timers \in Seq([task : Tasks, by : Nat])

\* The task on the CPU is linked in the run queue and its task_struct (with its
\* kernel stack) is allocated: no reaper frees the ground a thread stands on.
RunningTaskIsQueued == current \in Range(run_queue) /\ current \in heap

\* Once idle has picked a zombie it is the only one that can free it: between
\* the critical section of kill_zombies and its kfree calls, with interrupts
\* enabled, no waitpid can reach the same task_struct.
VictimIsIdlesAlone ==
    zombie_to_free # NULL =>
        /\ zombie_to_free \in heap
        /\ zombie_to_free \notin Range(run_queue)

\* do_waitpid reads run_queue outside its critical section (thread.c:503); the
\* head it walks from is nevertheless still the head when it walks.
WaitpidWalksWholeQueue ==
    \A t \in Range(run_queue) : pc[t] = "wp_scan" => curr[t] = run_queue[1]

\* schedule() always finds a runnable task, and nothing stops the one on the
\* CPU behind its back: what runs is in state THREAD_RUNNING.
CurrentIsRunnable == state[current] = "RUNNING"

\* No two tasks of the queue answer to one pid, so waitpid, stop and kill reach
\* the task they name.
PidsAreUnique ==
    \A s, t \in Range(run_queue) : pid[s] = pid[t] => s = t

\* Somebody will free every zombie: it is an orphan, which idle frees, or its
\* parent is still there to wait for it.
ZombieHasReaper ==
    \A z \in Range(run_queue) : state[z] = "ZOMBIE" =>
        \/ ppid[z] = 0
        \/ \E t \in Range(run_queue) : pid[t] = ppid[z] /\ state[t] # "ZOMBIE"

\* A sleeping task has its own timer event pending: no wakeup is ever lost.
SleeperHasTimer ==
    \A t \in Range(run_queue) : state[t] = "SLEEPING" =>
        \E i \in DOMAIN timers : timers[i].task = t /\ timers[i].by = pid[t]

\* A terminated thread stays terminated: no wakeup, signal or scheduling step
\* makes the zombie run again; only a new thread may reuse its task_struct.
ZombiesStayDead ==
    [][\A t \in Tasks : state[t] = "ZOMBIE" =>
           state'[t] = "ZOMBIE" \/ (t \notin heap /\ t \in heap')]_vars

\* A sleeper is woken by the event its own usleep has added, hence no earlier
\* than it asked for (thread.c:598, "Sleep at least one tick").
WokenByOwnTimer ==
    [][\A t \in Tasks : state[t] = "SLEEPING" /\ state'[t] = "RUNNING" /\ t \in heap =>
           \E i \in DOMAIN timers :
               /\ timers[i] = [task |-> t, by |-> pid[t]]
               /\ i <= Len(timers) - Len(timers')]_vars

\* The scheduler never switches to a thread that is not completely set up
\* (thread.c:338-340; for a fork's child thread.c:480, "When scheduler picks the
\* child, switch_to returns into _ret_from_fork").
OnlyCompleteThreadsRun == pc[current] # "raw"

\* A parent that waits for its child's pid collects its child, not another task
\* (thread.c:348, "Set parent PID so do_waitpid can reap it").
WaitpidCollectsTheChild ==
    [][pc[current] = "wp_scan" =>
         \A t \in heap \ heap' :
            (\E c \in Range(run_queue) : ppid[c] = pid[current] /\ pid[c] = pid[t])
                => ppid[t] = pid[current]]_vars

-----------------------------------------------------------------------------
(* Liveness *)

\* Every runnable thread of the queue gets the CPU, or stops being runnable.
RunnableGetsCpu ==
    \A t \in Tasks : (t \in Range(run_queue) /\ state[t] = "RUNNING")
                        ~> (current = t \/ state[t] # "RUNNING")

\* A zombie that has become an orphan, before or after its death, is freed in
\* the end.
OrphansAreFreed ==
    \A t \in Tasks, p \in Pids :
        (t \in heap /\ pid[t] = p /\ state[t] = "ZOMBIE" /\ ppid[t] = 0)
            ~> (t \notin heap \/ pid[t] # p)

\* waitpid returns once the process it names has terminated.
WaitpidReturns ==
    \A t \in Tasks, p \in Pids :
        (pc[t] \in Waiting /\ arg[t] = p /\ \A u \in Range(run_queue) :
                                               pid[u] = p => state[u] = "ZOMBIE")
            ~> (pc[t] \notin Waiting \/ t \notin Range(run_queue))

\* A thread whose time slice comes again and again gets its kernel step done (a
\* slice of 1/32 s is far longer than a step).  A timer interrupt that is due
\* is taken as soon as interrupts are enabled: preempt_callback re-arms itself,
\* and every event expires.  Nothing is assumed of the programs: a process may
\* compute, or make system calls, forever.
Fairness ==
    /\ \A t \in Tasks : SF_vars(KernelStep /\ current = t)
    /\ SF_vars(core_timer_handler(Len(timers), TRUE))

FairSpec == Spec /\ Fairness
=============================================================================
