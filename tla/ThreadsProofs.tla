--------------------------- MODULE ThreadsProofs ---------------------------
(***************************************************************************)
(* Theorems about Threads, for every set of task_structs, of signals and   *)
(* of calls, whatever the bounds.                                          *)
(***************************************************************************)
EXTENDS TameThreads, SequenceLemmas

-----------------------------------------------------------------------------
(* The run queue's operators *)

\* Inserting t behind the head: what stands where afterwards.
LEMMA EnqueueElements ==
    ASSUME NEW q \in Seq(Tasks), q # <<>>, NEW t \in Tasks
    PROVE  /\ Enqueue(q, t) \in Seq(Tasks)
           /\ Len(Enqueue(q, t)) = Len(q) + 1
           /\ \A i \in 1..(Len(q) + 1) :
                Enqueue(q, t)[i] = IF i < 2 THEN q[i] ELSE IF i = 2 THEN t ELSE q[i - 1]
<1>1. 2 \in 1..(Len(q) + 1)
  BY EmptySeq, LenProperties
<1>2. Enqueue(q, t) = InsertAt(q, 2, t)
  BY DEF Enqueue
<1> DEFINE e == InsertAt(q, 2, t)
<1>3. /\ e \in Seq(Tasks) /\ Len(e) = Len(q) + 1
      /\ \A i \in 1..(Len(q) + 1) :
           e[i] = IF i < 2 THEN q[i] ELSE IF i = 2 THEN t ELSE q[i - 1]
  BY <1>1, InsertAtElements
<1> HIDE DEF e
<1>4. Enqueue(q, t) = e
  BY <1>2 DEF e
<1>5. QED
  BY <1>3, <1>4

\* A fresh task joins the queue: nobody else leaves or enters, the head stays.
LEMMA EnqueueFresh ==
    ASSUME NEW q \in Seq(Tasks), q # <<>>, IsInjective(q),
           NEW t \in Tasks, t \notin Range(q)
    PROVE  /\ Enqueue(q, t) \in Seq(Tasks) /\ Enqueue(q, t) # <<>>
           /\ IsInjective(Enqueue(q, t))
           /\ Enqueue(q, t)[1] = q[1]
           /\ Range(Enqueue(q, t)) = Range(q) \cup {t}
<1> DEFINE e == Enqueue(q, t)
<1>1. /\ e \in Seq(Tasks) /\ Len(e) = Len(q) + 1
      /\ \A i \in 1..(Len(q) + 1) :
           e[i] = IF i < 2 THEN q[i] ELSE IF i = 2 THEN t ELSE q[i - 1]
  BY EnqueueElements
<1>2. /\ Len(q) \in Nat /\ Len(q) >= 1
      /\ DOMAIN q = 1..Len(q) /\ DOMAIN e = 1..(Len(q) + 1)
  BY <1>1, EmptySeq, LenProperties
<1> HIDE DEF e
<1>3. \A i \in DOMAIN q : q[i] # t
  BY DEF Range
<1>4. IsInjective(e)
  <2>1. SUFFICES ASSUME NEW i \in DOMAIN e, NEW j \in DOMAIN e, e[i] = e[j]
                 PROVE  i = j
    BY DEF IsInjective
  <2> DEFINE old(n) == IF n < 2 THEN n ELSE n - 1
  <2>2. \A n \in DOMAIN e : n # 2 => old(n) \in DOMAIN q /\ e[n] = q[old(n)]
    BY <1>1, <1>2
  <2>3. e[2] = t
    BY <1>1, <1>2
  <2>4. CASE i # 2 /\ j # 2
    <3>1. old(i) = old(j) BY <2>1, <2>2, <2>4 DEF IsInjective
    <3>2. QED BY <1>2, <2>4, <3>1
  <2>5. CASE i = 2 /\ j # 2
    BY <1>3, <2>1, <2>2, <2>3, <2>5
  <2>6. CASE i # 2 /\ j = 2
    BY <1>3, <2>1, <2>2, <2>3, <2>6
  <2>7. QED BY <2>4, <2>5, <2>6
<1>5. Range(e) \subseteq Range(q) \cup {t}
  <2>1. SUFFICES ASSUME NEW i \in DOMAIN e PROVE e[i] \in Range(q) \cup {t}
    BY DEF Range
  <2>2. CASE i < 2
    <3>1. i \in DOMAIN q /\ e[i] = q[i] BY <1>1, <1>2, <2>2
    <3>2. QED BY <3>1 DEF Range
  <2>3. CASE i = 2
    BY <1>1, <1>2, <2>3
  <2>4. CASE i > 2
    <3>1. i - 1 \in DOMAIN q /\ e[i] = q[i - 1] BY <1>1, <1>2, <2>4
    <3>2. QED BY <3>1 DEF Range
  <2>5. QED BY <1>2, <2>2, <2>3, <2>4
<1>6. t \in Range(e)
  <2>1. 2 \in DOMAIN e /\ e[2] = t
    BY <1>1, <1>2
  <2>2. QED BY <2>1 DEF Range
<1>7. Range(q) \subseteq Range(e)
  <2>1. SUFFICES ASSUME NEW i \in DOMAIN q PROVE q[i] \in Range(e)
    BY DEF Range
  <2>2. CASE i = 1
    <3>1. 1 \in DOMAIN e /\ e[1] = q[i] BY <1>1, <1>2, <2>2
    <3>2. QED BY <3>1 DEF Range
  <2>3. CASE i # 1
    <3>1. i + 1 \in DOMAIN e /\ e[i + 1] = q[i] BY <1>1, <1>2, <2>3
    <3>2. QED BY <3>1 DEF Range
  <2>4. QED BY <2>2, <2>3
<1>8. e # <<>> /\ e[1] = q[1]
  BY <1>1, <1>2
<1>9. QED
  BY <1>1, <1>4, <1>5, <1>6, <1>7, <1>8 DEF e

\* Taking a task other than the head out: the others stay, the head stays.
LEMMA DequeueOther ==
    ASSUME NEW q \in Seq(Tasks), q # <<>>, IsInjective(q),
           NEW t \in Range(q), t # q[1]
    PROVE  /\ Dequeue(q, t) \in Seq(Tasks) /\ Dequeue(q, t) # <<>>
           /\ IsInjective(Dequeue(q, t))
           /\ Dequeue(q, t)[1] = q[1]
           /\ Range(Dequeue(q, t)) = Range(q) \ {t}
<1> DEFINE k == CHOOSE i \in DOMAIN q : q[i] = t
           d == Dequeue(q, t)
<1>1. k \in DOMAIN q /\ q[k] = t
  BY DEF Range
<1>2. /\ Len(q) \in Nat /\ Len(q) >= 1 /\ DOMAIN q = 1..Len(q)
  BY EmptySeq, LenProperties
<1>3. k \in 2..Len(q)
  BY <1>1, <1>2
<1>4. d = RemoveAt(q, k)
  <2>1. \E i \in DOMAIN q : q[i] = t BY <1>1
  <2>2. QED BY <2>1 DEF Dequeue
<1> HIDE DEF k, d
<1>6. /\ d \in Seq(Tasks) /\ Len(d) = Len(q) - 1
      /\ \A i \in 1..(Len(q) - 1) : d[i] = IF i < k THEN q[i] ELSE q[i + 1]
  <2>1. k \in 1..Len(q) BY <1>1, <1>2
  <2>2. QED BY <1>4, <2>1, RemoveAtElements
<1>7. DOMAIN d = 1..(Len(q) - 1)
  BY <1>6, LenProperties
<1>8. IsInjective(d)
  <2>1. SUFFICES ASSUME NEW i \in DOMAIN d, NEW j \in DOMAIN d, d[i] = d[j]
                 PROVE  i = j
    BY DEF IsInjective
  <2> DEFINE old(n) == IF n < k THEN n ELSE n + 1
  <2>2. \A n \in DOMAIN d : old(n) \in DOMAIN q /\ d[n] = q[old(n)]
    BY <1>2, <1>3, <1>6, <1>7
  <2>3. old(i) = old(j)
    BY <2>1, <2>2 DEF IsInjective
  <2>4. QED BY <1>2, <1>3, <1>7, <2>3
<1>9. Range(d) \subseteq Range(q) \ {t}
  <2>1. SUFFICES ASSUME NEW i \in DOMAIN d PROVE d[i] \in Range(q) \ {t}
    BY DEF Range
  <2>2. CASE i < k
    BY <1>1, <1>2, <1>3, <1>6, <1>7, <2>2 DEF Range, IsInjective
  <2>3. CASE ~(i < k)
    <3>1. i + 1 \in DOMAIN q /\ i + 1 # k /\ d[i] = q[i + 1]
      BY <1>2, <1>3, <1>6, <1>7, <2>3
    <3>2. QED BY <1>1, <3>1 DEF Range, IsInjective
  <2>4. QED BY <2>2, <2>3
<1>10. Range(q) \ {t} \subseteq Range(d)
  <2>1. SUFFICES ASSUME NEW i \in DOMAIN q, q[i] # t PROVE q[i] \in Range(d)
    BY DEF Range
  <2>2. CASE i < k
    <3>1. i \in DOMAIN d /\ d[i] = q[i]
      BY <1>2, <1>3, <1>6, <1>7, <2>2
    <3>2. QED BY <3>1 DEF Range
  <2>3. CASE i > k
    <3>1. i - 1 \in DOMAIN d /\ d[i - 1] = q[i]
      BY <1>2, <1>3, <1>6, <1>7, <2>3
    <3>2. QED BY <3>1 DEF Range
  <2>4. QED BY <1>1, <1>2, <1>3, <2>1, <2>2, <2>3
<1>11. d # <<>> /\ d[1] = q[1]
  BY <1>2, <1>3, <1>6
<1>12. QED
  BY <1>6, <1>8, <1>9, <1>10, <1>11 DEF d

\* Enqueue and Dequeue keep a sequence of tasks a sequence of tasks.
LEMMA QueueOperatorsTyped ==
    ASSUME NEW q \in Seq(Tasks), NEW t \in Tasks
    PROVE  Enqueue(q, t) \in Seq(Tasks) /\ Dequeue(q, t) \in Seq(Tasks)
<1>1. Enqueue(q, t) \in Seq(Tasks)
  <2>1. CASE q = <<>>
    BY <2>1 DEF Enqueue
  <2>2. CASE q # <<>>
    BY <2>2, EnqueueElements
  <2>3. QED BY <2>1, <2>2
<1>2. Dequeue(q, t) \in Seq(Tasks)
  <2>1. CASE \E i \in DOMAIN q : q[i] = t
    <3> DEFINE k == CHOOSE i \in DOMAIN q : q[i] = t
    <3>1. k \in DOMAIN q
      BY <2>1
    <3>2. k \in 1..Len(q)
      BY <3>1, LenProperties
    <3>3. Dequeue(q, t) = RemoveAt(q, k)
      BY <2>1 DEF Dequeue
    <3> HIDE DEF k
    <3>4. QED BY <3>2, <3>3, RemoveAtElements
  <2>2. CASE ~ \E i \in DOMAIN q : q[i] = t
    BY <2>2 DEF Dequeue
  <2>3. QED BY <2>1, <2>2
<1>3. QED
  BY <1>1, <1>2

\* While idle is runnable and queued, the walk of schedule() stops at a
\* runnable task of the queue: it never comes back to a caller that is not.
LEMMA ScheduleFindsRunnable ==
    ASSUME NEW q \in Seq(Tasks), IsInjective(q), Idle \in Range(q),
           NEW st, st[Idle] = "RUNNING",
           NEW c, NEW t, StopsAt(q, st, c, t)
    PROVE  t \in Range(q) /\ st[t] = "RUNNING"
<1>1. PICK i \in DOMAIN q, j \in DOMAIN q :
        /\ q[i] = c /\ q[j] = t
        /\ t = c \/ st[t] = "RUNNING"
        /\ \A k \in Passed(q, i, j) : st[q[k]] # "RUNNING"
  BY DEF StopsAt
<1>2. PICK m \in DOMAIN q : q[m] = Idle
  BY DEF Range
<1>3. DOMAIN q \subseteq Nat
  BY LenProperties
<1>4. ASSUME st[t] # "RUNNING" PROVE FALSE
  <2>1. i = j
    BY <1>1, <1>4 DEF IsInjective
  <2>2. m # i
    BY <1>1, <1>2, <1>4
  <2>3. m \in Passed(q, i, j)
    BY <1>3, <2>1, <2>2 DEF Passed
  <2>4. QED BY <1>1, <1>2, <2>3
<1>5. QED
  BY <1>1, <1>4 DEF Range

-----------------------------------------------------------------------------
(* Type correctness *)

\* schedule() leaves a task in tp.
LEMMA ScheduleTyped == schedule => current' \in Tasks
  BY DEF schedule

\* The timer list stays a list of wakeup events.
LEMMA TimersTyped ==
    ASSUME TypeOK
    PROVE  /\ \A i \in 1..(Len(timers) + 1), t \in Tasks, n \in Nat :
                InsertAt(timers, i, [task |-> t, by |-> n]) \in Seq([task : Tasks, by : Nat])
           /\ \A k \in 0..Len(timers) :
                SubSeq(timers, k + 1, Len(timers)) \in Seq([task : Tasks, by : Nat])
<1> DEFINE E == [task : Tasks, by : Nat]
<1>1. timers \in Seq(E) /\ Len(timers) \in Nat
  BY LenProperties DEF TypeOK
<1>2. ASSUME NEW i \in 1..(Len(timers) + 1), NEW t \in Tasks, NEW n \in Nat
      PROVE  InsertAt(timers, i, [task |-> t, by |-> n]) \in Seq(E)
  <2>1. [task |-> t, by |-> n] \in E
    OBVIOUS
  <2> HIDE DEF E
  <2>2. QED BY <1>1, <1>2, <2>1, InsertAtElements
<1>3. ASSUME NEW k \in 0..Len(timers)
      PROVE  SubSeq(timers, k + 1, Len(timers)) \in Seq(E)
  <2> HIDE DEF E
  <2>1. /\ k + 1 \in 1..(Len(timers) + 1)
        /\ Len(timers) \in 0..Len(timers)
        /\ k + 1 <= Len(timers) + 1
    BY <1>1, <1>3
  <2>2. QED BY <1>1, <2>1, PartElements
<1>4. QED
  BY <1>2, <1>3

\* Creating a thread keeps the types of all it touches.
LEMMA CreateTyped ==
    ASSUME TypeOK, NEW t \in Tasks, NEW n \in Nat, NEW parent \in Nat,
           NEW hs \in SUBSET Sigs, thread_create(t, n, parent, hs)
    PROVE  /\ run_queue' \in Seq(Tasks) /\ heap' \subseteq Tasks /\ nr_threads' \in Nat
           /\ state' \in [Tasks -> States]
           /\ pid' \in [Tasks -> Nat] /\ ppid' \in [Tasks -> Nat]
           /\ handlers' \in [Tasks -> SUBSET Sigs] /\ pending' \in [Tasks -> SUBSET Sigs]
           /\ handling' \in [Tasks -> BOOLEAN]
<1>1. run_queue' \in Seq(Tasks)
  BY QueueOperatorsTyped DEF TypeOK, thread_create
<1>2. heap' \subseteq Tasks /\ nr_threads' \in Nat
  BY DEF TypeOK, thread_create
<1>3. state' \in [Tasks -> States] /\ handling' \in [Tasks -> BOOLEAN]
  BY DEF TypeOK, thread_create, States
<1>4. pid' \in [Tasks -> Nat] /\ ppid' \in [Tasks -> Nat]
  BY DEF TypeOK, thread_create
<1>5. handlers' \in [Tasks -> SUBSET Sigs] /\ pending' \in [Tasks -> SUBSET Sigs]
  BY DEF TypeOK, thread_create
<1>6. QED
  BY <1>1, <1>2, <1>3, <1>4, <1>5

\* So does the whole step of one of its callers.
LEMMA CreateStepTyped ==
    ASSUME TypeOK, NEW t \in Tasks, NEW n \in Nat, NEW parent \in Nat,
           NEW hs \in SUBSET Sigs, thread_create(t, n, parent, hs),
           NEW x \in Pcs, NEW y \in Pcs, pc' = [pc EXCEPT ![t] = x, ![current] = y],
           UNCHANGED <<current, zombie_to_free, timers>>,
           curr' \in [Tasks -> Tasks \cup {NULL}], arg' \in [Tasks -> Nat], left' \in Int
    PROVE  TypeOK'
<1>1. pc' \in [Tasks -> Pcs]
  BY DEF TypeOK
<1>2. current' \in Tasks
  BY DEF TypeOK
<1>3. zombie_to_free' \in Tasks \cup {NULL} /\ timers' \in Seq([task : Tasks, by : Nat])
  BY DEF TypeOK
<1>4. QED
  BY <1>1, <1>2, <1>3, CreateTyped DEF TypeOK

\* Every step keeps the types of the variables.
LEMMA TypeStep == TypeOK /\ run_queue # <<>> /\ [Next]_vars => TypeOK'
<1> SUFFICES ASSUME TypeOK, run_queue # <<>>, [Next]_vars PROVE TypeOK'
  OBVIOUS
<1> USE DEF Goto, Pcs, Open, Waiting, States
<1>1. CASE user_program_execute
  <2>1. PICK t \in Tasks :
          /\ thread_create(t, NewPid, pid[current], {})
          /\ pc' = [pc EXCEPT ![t] = "user", ![current] = "exec_return"]
          /\ curr' = [curr EXCEPT ![current] = t]
    BY <1>1 DEF user_program_execute
  <2>2. NewPid \in Nat /\ pid[current] \in Nat /\ {} \in SUBSET Sigs
    BY DEF TypeOK, NewPid
  <2>3. arg' \in [Tasks -> Nat] /\ left' \in Int /\ curr' \in [Tasks -> Tasks \cup {NULL}]
    BY <1>1, <2>1 DEF TypeOK, user_program_execute
  <2>4. UNCHANGED <<current, zombie_to_free, timers>>
    BY <1>1 DEF user_program_execute
  <2>5. "user" \in Pcs /\ "exec_return" \in Pcs
    OBVIOUS
  <2>6. QED BY <2>1, <2>2, <2>3, <2>4, <2>5, CreateStepTyped
<1>2. CASE do_fork
  <2>1. PICK t \in Tasks :
          /\ thread_create(t, NewPid, pid[current], handlers[current])
          /\ pc' = [pc EXCEPT ![t] = "user", ![current] = "ret"]
    BY <1>2 DEF do_fork
  <2>2. NewPid \in Nat /\ pid[current] \in Nat /\ handlers[current] \in SUBSET Sigs
    BY DEF TypeOK, NewPid
  <2>3. arg' \in [Tasks -> Nat] /\ left' \in Int /\ curr' \in [Tasks -> Tasks \cup {NULL}]
    BY <1>2 DEF TypeOK, do_fork
  <2>4. UNCHANGED <<current, zombie_to_free, timers>>
    BY <1>2 DEF do_fork
  <2>5. "user" \in Pcs /\ "ret" \in Pcs
    OBVIOUS
  <2>6. QED BY <2>1, <2>2, <2>3, <2>4, <2>5, CreateStepTyped
<1>3. CASE do_fork_fails
  <2>1. PICK t \in Tasks :
          /\ thread_create(t, NewPid, 0, {})
          /\ pc' = [pc EXCEPT ![t] = "raw", ![current] = "ret"]
    BY <1>3 DEF do_fork_fails
  <2>2. NewPid \in Nat /\ 0 \in Nat /\ {} \in SUBSET Sigs
    BY DEF TypeOK, NewPid
  <2>3. arg' \in [Tasks -> Nat] /\ left' \in Int /\ curr' \in [Tasks -> Tasks \cup {NULL}]
    BY <1>3 DEF TypeOK, do_fork_fails
  <2>4. UNCHANGED <<current, zombie_to_free, timers>>
    BY <1>3 DEF do_fork_fails
  <2>5. "raw" \in Pcs /\ "ret" \in Pcs
    OBVIOUS
  <2>6. QED BY <2>1, <2>2, <2>3, <2>4, <2>5, CreateStepTyped
<1>4. CASE test_threads
  <2>1. left' \in Int
    BY <1>4, ConstantsAssumption DEF test_threads
  <2>2. pc' \in [Tasks -> Pcs]
    BY <1>4 DEF TypeOK, test_threads
  <2>3. QED BY <1>4, <2>1, <2>2 DEF TypeOK, test_threads, taskVars
<1>5. CASE test_threads_read
  BY <1>5 DEF TypeOK, test_threads_read, taskVars
<1>6. CASE test_threads_create
  <2>1. PICK t \in Tasks :
          /\ thread_create(t, arg[current], 0, {})
          /\ pc' = [pc EXCEPT ![t] = "foo", ![current] = "tt_read"]
    BY <1>6 DEF test_threads_create
  <2>2. arg[current] \in Nat /\ 0 \in Nat /\ {} \in SUBSET Sigs
    BY DEF TypeOK
  <2>3. arg' \in [Tasks -> Nat] /\ left' \in Int /\ curr' \in [Tasks -> Tasks \cup {NULL}]
    <3>1. arg' \in [Tasks -> Nat]
      BY <1>6 DEF TypeOK, test_threads_create
    <3>2. left' \in Int /\ curr' \in [Tasks -> Tasks \cup {NULL}]
      BY <1>6 DEF TypeOK, test_threads_create
    <3>3. QED BY <3>1, <3>2
  <2>4. UNCHANGED <<current, zombie_to_free, timers>>
    BY <1>6 DEF test_threads_create
  <2>5. "foo" \in Pcs /\ "tt_read" \in Pcs
    OBVIOUS
  <2>6. QED BY <2>1, <2>2, <2>3, <2>4, <2>5, CreateStepTyped
<1>7. CASE test_threads_yield
  BY <1>7, ScheduleTyped DEF TypeOK, test_threads_yield, taskVars
<1>8. CASE thread_exit
  BY <1>8, ScheduleTyped DEF TypeOK, thread_exit, Reparented
<1>9. CASE do_stop
  BY <1>9, ScheduleTyped DEF TypeOK, do_stop
<1>10. CASE do_kill
  <2>1. PICK t \in Tasks, m \in Sigs :
          \/ UNCHANGED <<state, ppid, pending>>
          \/ pending' = [pending EXCEPT ![t] = @ \cup {m}] /\ UNCHANGED <<state, ppid>>
          \/ /\ state' = [state EXCEPT ![t] = "ZOMBIE"]
             /\ ppid' = [ppid EXCEPT ![t] = 0]
             /\ UNCHANGED pending
    BY <1>10, ConstantsAssumption DEF do_kill
  <2>2. state' \in [Tasks -> States]
    BY <2>1 DEF TypeOK
  <2>3. ppid' \in [Tasks -> Nat]
    <3>1. ppid \in [Tasks -> Nat] BY DEF TypeOK
    <3>2. QED BY <2>1, <3>1
  <2>4. pending' \in [Tasks -> SUBSET Sigs]
    <3>1. pending[t] \cup {m} \in SUBSET Sigs BY DEF TypeOK
    <3>2. QED BY <2>1, <3>1 DEF TypeOK
  <2>5. QED BY <1>10, <2>2, <2>3, <2>4 DEF TypeOK, do_kill
<1>11. CASE kill_zombies
  <2>1. CASE UNCHANGED <<run_queue, zombie_to_free>>
    BY <1>11, <2>1 DEF TypeOK, kill_zombies, taskVars
  <2>2. CASE \E i \in DOMAIN run_queue :
               /\ run_queue' = Dequeue(run_queue, run_queue[i])
               /\ zombie_to_free' = run_queue[i]
               /\ Goto("kz_free")
    <3>1. PICK i \in DOMAIN run_queue :
               /\ run_queue' = Dequeue(run_queue, run_queue[i])
               /\ zombie_to_free' = run_queue[i]
               /\ Goto("kz_free")
      BY <2>2
    <3>2. run_queue[i] \in Tasks
      BY ElementOfSeq, LenProperties DEF TypeOK
    <3>3. run_queue' \in Seq(Tasks)
      BY <3>1, <3>2, QueueOperatorsTyped DEF TypeOK
    <3>4. QED
      BY <1>11, <3>1, <3>2, <3>3 DEF TypeOK, kill_zombies, taskVars
  <2>3. QED
    BY <1>11, <2>1, <2>2 DEF kill_zombies
<1>12. CASE kill_zombies_free
  <2>1. heap' \subseteq Tasks /\ zombie_to_free' = NULL
    BY <1>12 DEF TypeOK, kill_zombies_free
  <2>2. pc' \in [Tasks -> Pcs]
    BY <1>12 DEF TypeOK, kill_zombies_free
  <2>3. UNCHANGED <<taskVars, run_queue, nr_threads, current, arg, curr, left, timers>>
    BY <1>12 DEF kill_zombies_free
  <2>4. QED BY <2>1, <2>2, <2>3 DEF TypeOK, taskVars
<1>13. CASE idle_yield
  BY <1>13, ScheduleTyped DEF TypeOK, idle_yield, taskVars
<1>14. CASE waitpid_call
  <2>1. arg' \in [Tasks -> Nat]
    BY <1>14 DEF TypeOK, waitpid_call, Pids
  <2>2. pc' \in [Tasks -> Pcs]
    BY <1>14 DEF TypeOK, waitpid_call
  <2>3. QED BY <1>14, <2>1, <2>2 DEF TypeOK, waitpid_call, taskVars
<1>15. CASE do_waitpid_read
  <2>1. run_queue[1] \in Tasks
    BY EmptySeq, ElementOfSeq, LenProperties DEF TypeOK
  <2>2. QED BY <1>15, <2>1 DEF TypeOK, do_waitpid_read, taskVars
<1>16. CASE do_waitpid_scan
  <2>1. PICK first \in DOMAIN run_queue, t \in Tasks :
          \/ UNCHANGED <<run_queue, heap, arg>> /\ (Goto(Home(current)) \/ Goto("wp_yield"))
          \/ /\ UNCHANGED <<run_queue, heap>> /\ arg' = [arg EXCEPT ![current] = 0]
             /\ Goto(Home(current))
          \/ /\ run_queue' = Dequeue(run_queue, t) /\ heap' = heap \ {t}
             /\ arg' = [arg EXCEPT ![current] = 0] /\ Goto(Home(current))
    BY <1>16, ConstantsAssumption DEF do_waitpid_scan
  <2>2. run_queue' \in Seq(Tasks) /\ heap' \subseteq Tasks
    <3>1. Dequeue(run_queue, t) \in Seq(Tasks)
      BY QueueOperatorsTyped DEF TypeOK
    <3>2. QED BY <2>1, <3>1 DEF TypeOK
  <2>3. Home(current) \in Pcs
    BY DEF Home
  <2>4. pc' \in [Tasks -> Pcs] /\ arg' \in [Tasks -> Nat]
    <3>1. \/ pc' = [pc EXCEPT ![current] = Home(current)]
          \/ pc' = [pc EXCEPT ![current] = "wp_yield"]
      BY <2>1
    <3>2. arg' = arg \/ arg' = [arg EXCEPT ![current] = 0]
      BY <2>1
    <3>3. pc' \in [Tasks -> Pcs]
      BY <2>3, <3>1 DEF TypeOK
    <3>4. arg' \in [Tasks -> Nat]
      <4>1. arg \in [Tasks -> Nat] BY DEF TypeOK
      <4>2. QED BY <3>2, <4>1
    <3>5. QED BY <3>3, <3>4
  <2>5. curr' \in [Tasks -> Tasks \cup {NULL}]
    BY <1>16 DEF TypeOK, do_waitpid_scan
  <2>6. QED BY <1>16, <2>2, <2>4, <2>5 DEF TypeOK, do_waitpid_scan, taskVars
<1>17. CASE do_waitpid_yield
  BY <1>17, ScheduleTyped DEF TypeOK, do_waitpid_yield, taskVars
<1>18. CASE do_usleep
  <2>1. pid[current] \in Nat /\ current \in Tasks
    BY DEF TypeOK
  <2>2. timers' \in Seq([task : Tasks, by : Nat])
    <3>1. CASE UNCHANGED timers
      BY <3>1 DEF TypeOK
    <3>2. CASE \E i \in 1..(Len(timers) + 1) :
                 timers' = InsertAt(timers, i, [task |-> current, by |-> pid[current]])
      BY <2>1, <3>2, TimersTyped
    <3>3. QED BY <1>18, <3>1, <3>2 DEF do_usleep
  <2>3. state' \in [Tasks -> States] /\ pc' \in [Tasks -> Pcs]
    BY <1>18 DEF TypeOK, do_usleep
  <2>4. current' \in Tasks
    BY <1>18, <2>1, ScheduleTyped DEF do_usleep
  <2>5. UNCHANGED <<run_queue, heap, nr_threads, pid, ppid, handlers, pending,
                    handling, arg, curr, left, zombie_to_free>>
    BY <1>18 DEF do_usleep
  <2>6. QED BY <2>2, <2>3, <2>4, <2>5 DEF TypeOK
<1>19. CASE timer_interrupt
  <2>1. PICK k \in 0..Len(timers), resched \in BOOLEAN : core_timer_handler(k, resched)
    BY <1>19 DEF timer_interrupt
  <2>2. state' \in [Tasks -> States]
    BY <2>1 DEF TypeOK, core_timer_handler, wakeup_callback
  <2>3. timers' \in Seq([task : Tasks, by : Nat])
    BY <2>1, TimersTyped DEF core_timer_handler
  <2>4. current' \in Tasks
    <3>1. schedule \/ UNCHANGED current
      BY <2>1 DEF core_timer_handler
    <3>2. QED BY <3>1, ScheduleTyped DEF TypeOK
  <2>5. pc' \in [Tasks -> Pcs]
    <3>1. Goto("ret") \/ UNCHANGED pc
      BY <2>1 DEF core_timer_handler
    <3>2. QED BY <3>1 DEF TypeOK
  <2>6. QED BY <2>1, <2>2, <2>3, <2>4, <2>5 DEF TypeOK, core_timer_handler
<1>20. CASE do_signal
  <2>1. PICK m \in Sigs : \/ handlers' = [handlers EXCEPT ![current] = @ \cup {m}]
                          \/ handlers' = [handlers EXCEPT ![current] = @ \ {m}]
    BY <1>20 DEF do_signal
  <2>2. /\ handlers[current] \cup {m} \in SUBSET Sigs
        /\ handlers[current] \ {m} \in SUBSET Sigs
    BY DEF TypeOK
  <2>3. handlers' \in [Tasks -> SUBSET Sigs]
    BY <2>1, <2>2 DEF TypeOK
  <2>4. QED BY <1>20, <2>3 DEF TypeOK, do_signal
<1>21. CASE signal_check
  <2>1. CASE pending[current] = {} \/ handling[current]
    BY <1>21, <2>1 DEF TypeOK, signal_check
  <2>2. CASE ~(pending[current] = {} \/ handling[current])
    <3>1. PICK m \in pending[current] :
            /\ pending' = [pending EXCEPT ![current] = @ \ {m}]
            /\ \/ /\ handling' = [handling EXCEPT ![current] = TRUE]
                  /\ UNCHANGED <<state, ppid>>
               \/ /\ state' = [state EXCEPT ![current] = "ZOMBIE"]
                  /\ ppid' = [ppid EXCEPT ![current] = 0]
                  /\ UNCHANGED handling
      BY <1>21, <2>2 DEF signal_check
    <3>2. pending[current] \ {m} \in SUBSET Sigs
      BY DEF TypeOK
    <3>3. pending' \in [Tasks -> SUBSET Sigs]
      BY <3>1, <3>2 DEF TypeOK
    <3>4. state' \in [Tasks -> States] /\ ppid' \in [Tasks -> Nat]
      <4>1. ppid \in [Tasks -> Nat] /\ state \in [Tasks -> States] BY DEF TypeOK
      <4>2. ppid' \in [Tasks -> Nat] BY <3>1, <4>1
      <4>3. state' \in [Tasks -> States] BY <3>1, <4>1
      <4>4. QED BY <4>2, <4>3
    <3>5. handling' \in [Tasks -> BOOLEAN]
      BY <3>1 DEF TypeOK
    <3>6. QED BY <1>21, <3>3, <3>4, <3>5 DEF TypeOK, signal_check
  <2>3. QED BY <2>1, <2>2
<1>22. CASE do_sigreturn
  BY <1>22 DEF TypeOK, do_sigreturn
<1>23. CASE uart_syscall
  BY <1>23 DEF TypeOK, uart_syscall, taskVars
<1>24. CASE UNCHANGED vars
  BY <1>24 DEF TypeOK, vars
<1>25. CASE user_program_execute_returns
  <2>1. PICK p \in Nat : arg' = [arg EXCEPT ![current] = p]
    <3>1. PICK task : task = curr[current]
      OBVIOUS
    <3>2. PICK p \in IF task \in heap THEN {pid[task]} ELSE Pids :
                arg' = [arg EXCEPT ![current] = p]
      BY <1>25, <3>1 DEF user_program_execute_returns
    <3>3. task \in heap => pid[task] \in Nat
      BY DEF TypeOK
    <3>4. Pids \subseteq Nat
      BY ConstantsAssumption DEF Pids
    <3>5. QED BY <3>2, <3>3, <3>4
  <2>2. arg' \in [Tasks -> Nat] /\ curr' \in [Tasks -> Tasks \cup {NULL}] /\ pc' \in [Tasks -> Pcs]
    BY <1>25, <2>1 DEF TypeOK, user_program_execute_returns
  <2>3. QED BY <1>25, <2>2 DEF TypeOK, user_program_execute_returns, taskVars
<1>26. QED
  BY <1>1, <1>2, <1>3, <1>4, <1>5, <1>6, <1>7, <1>8, <1>9, <1>10, <1>11, <1>12,
     <1>13, <1>14, <1>15, <1>16, <1>17, <1>18, <1>19, <1>20, <1>21, <1>22, <1>23,
     <1>24, <1>25 DEF Next, KernelStep, Call

-----------------------------------------------------------------------------
(* The inductive invariant *)

\* What the cases below conclude, and the part of RunInv about signals.
Rest == QueueInv /\ IdleInv /\ RunInv /\ WaitInv
SignalInv == \A t \in Tasks : pending[t] \subseteq handlers[t]

\* Idle is in the queue, and it is idle that executes idle's code.
LEMMA IdleFacts ==
    ASSUME InductiveInv
    PROVE  /\ Idle \in Tasks /\ Idle \in Range(run_queue) /\ Range(run_queue) \subseteq Tasks
           /\ current \in Tasks
           /\ pc[current] \in IdlePcs <=> current = Idle
<1>1. 1 \in DOMAIN run_queue
  BY EmptySeq, LenProperties DEF InductiveInv, TypeOK, QueueInv
<1>2. Idle \in Range(run_queue)
  BY <1>1 DEF InductiveInv, QueueInv, Range
<1>3. Range(run_queue) \subseteq Tasks
  BY ElementOfSeq, LenProperties DEF InductiveInv, TypeOK, Range
<1>4. current \in Tasks
  BY DEF InductiveInv, TypeOK
<1>5. QED
  BY <1>2, <1>3, <1>4, ConstantsAssumption DEF InductiveInv, IdleInv

\* A step that leaves the queue and the heap alone.
LEMMA QueueFrame ==
    QueueInv /\ UNCHANGED <<run_queue, heap, zombie_to_free>> => QueueInv'
  BY DEF QueueInv

\* A step of a task other than idle that does not touch idle.
LEMMA IdleFrame ==
    ASSUME InductiveInv, current # Idle, NEW x, x \notin IdlePcs, Goto(x),
           state'[Idle] = state[Idle], pid'[Idle] = pid[Idle], UNCHANGED zombie_to_free
    PROVE  IdleInv'
<1>1. current \in Tasks /\ Idle \in Tasks /\ pc \in [Tasks -> Pcs]
  BY IdleFacts DEF InductiveInv, TypeOK
<1>2. \A t \in Tasks : pc'[t] = IF t = current THEN x ELSE pc[t]
  BY <1>1 DEF Goto
<1>3. QED
  BY <1>1, <1>2 DEF InductiveInv, IdleInv

\* A step of the current task that neither reads the queue's head nor drops it.
LEMMA WaitFrame ==
    ASSUME InductiveInv, NEW x, x # "wp_scan", Goto(x),
           \A t \in Tasks : t # current => curr'[t] = curr[t]
    PROVE  WaitInv'
<1>1. current \in Tasks /\ pc \in [Tasks -> Pcs]
  BY DEF InductiveInv, TypeOK
<1>2. \A t \in Tasks : pc'[t] = IF t = current THEN x ELSE pc[t]
  BY <1>1 DEF Goto
<1>3. QED
  BY <1>1, <1>2 DEF InductiveInv, WaitInv

\* Whoever schedule() switches to is queued and runnable.
LEMMA ScheduleRuns ==
    ASSUME TypeOK', QueueInv', IdleInv', SignalInv', schedule
    PROVE  RunInv'
<1>1. 1 \in DOMAIN run_queue'
  BY EmptySeq, LenProperties DEF TypeOK, QueueInv
<1>2. Idle \in Range(run_queue')
  BY <1>1 DEF QueueInv, Range
<1>3. /\ run_queue' \in Seq(Tasks) /\ IsInjective(run_queue')
      /\ state'[Idle] = "RUNNING"
      /\ StopsAt(run_queue', state', current, current')
  BY DEF TypeOK, QueueInv, IdleInv, schedule
<1>4. current' \in Range(run_queue') /\ state'[current'] = "RUNNING"
  BY <1>2, <1>3, ScheduleFindsRunnable
<1>5. QED
  BY <1>4 DEF RunInv, SignalInv

\* thread_create puts a fresh task into the ring and on the heap.
LEMMA CreateKeepsRest ==
    ASSUME InductiveInv, current # Idle,
           NEW t \in Tasks, NEW n, NEW parent, NEW hs, thread_create(t, n, parent, hs),
           NEW x \in {"user", "foo", "raw"}, NEW y \in {"exec_return", "ret", "tt_read"},
           pc' = [pc EXCEPT ![t] = x, ![current] = y],
           \A u \in Tasks : u # current => curr'[u] = curr[u],
           UNCHANGED <<current, zombie_to_free>>
    PROVE  Rest'
<1>1. /\ t \notin heap /\ t \notin Range(run_queue) /\ t # Idle /\ t # current
      /\ t # zombie_to_free /\ current \in Range(run_queue) /\ current \in Tasks
  BY IdleFacts, ConstantsAssumption DEF InductiveInv, QueueInv, RunInv, thread_create
<1>2. /\ run_queue \in Seq(Tasks) /\ run_queue # <<>> /\ IsInjective(run_queue)
      /\ run_queue' = Enqueue(run_queue, t)
  BY DEF InductiveInv, TypeOK, QueueInv, thread_create
<1>3. /\ run_queue' # <<>> /\ IsInjective(run_queue') /\ run_queue'[1] = run_queue[1]
      /\ Range(run_queue') = Range(run_queue) \cup {t}
  BY <1>1, <1>2, EnqueueFresh
<1>4. QueueInv'
  BY <1>1, <1>3 DEF InductiveInv, QueueInv, thread_create
<1>5. \A u \in Tasks : pc'[u] = IF u = current THEN y ELSE IF u = t THEN x ELSE pc[u]
  BY <1>1 DEF InductiveInv, TypeOK
<1>6. \A u \in Tasks : u # t =>
         /\ state'[u] = state[u] /\ pid'[u] = pid[u]
         /\ pending'[u] = pending[u] /\ handlers'[u] = handlers[u]
  BY DEF InductiveInv, TypeOK, thread_create
<1>7. Idle \in Tasks
  BY IdleFacts
<1>8. IdleInv'
  <2>1. pid'[Idle] = 0 /\ state'[Idle] = "RUNNING"
    BY <1>1, <1>6, <1>7 DEF InductiveInv, IdleInv
  <2>2. \A u \in Tasks : pc'[u] \in IdlePcs <=> u = Idle
    BY <1>1, <1>5 DEF InductiveInv, IdleInv, IdlePcs
  <2>3. pc'[Idle] = pc[Idle]
    BY <1>1, <1>5, <1>7
  <2>4. QED BY <2>1, <2>2, <2>3 DEF InductiveInv, IdleInv
<1>9. RunInv'
  <2>1. pending'[t] = {}
    BY DEF InductiveInv, TypeOK, thread_create
  <2>2. QED BY <1>1, <1>3, <1>6, <2>1 DEF InductiveInv, RunInv
<1>10. WaitInv'
  BY <1>5 DEF InductiveInv, WaitInv
<1>11. QED
  BY <1>4, <1>8, <1>9, <1>10 DEF Rest

\* Every step of the specification keeps the rest of the inductive invariant.
LEMMA RestStep == InductiveInv /\ TypeOK' /\ [Next]_vars => Rest'
<1> SUFFICES ASSUME InductiveInv, TypeOK', [Next]_vars PROVE Rest'
  OBVIOUS
<1>1. /\ Idle \in Tasks /\ Idle \in Range(run_queue) /\ Range(run_queue) \subseteq Tasks
      /\ current \in Tasks /\ current \in Range(run_queue) /\ state[current] = "RUNNING"
      /\ pc[current] \in IdlePcs <=> current = Idle
      /\ pid[Idle] = 0 /\ state[Idle] = "RUNNING"
  BY IdleFacts DEF InductiveInv, IdleInv, RunInv
<1>2. /\ state \in [Tasks -> States] /\ pc \in [Tasks -> Pcs] /\ pid \in [Tasks -> Nat]
      /\ pending \in [Tasks -> SUBSET Sigs] /\ handlers \in [Tasks -> SUBSET Sigs]
  BY DEF InductiveInv, TypeOK
<1>3. SignalInv /\ QueueInv /\ IdleInv /\ RunInv /\ WaitInv
  BY DEF InductiveInv, RunInv, SignalInv
<1>4. CASE user_program_execute
  <2>1. PICK t \in Tasks :
          /\ thread_create(t, NewPid, pid[current], {})
          /\ pc' = [pc EXCEPT ![t] = "user", ![current] = "exec_return"]
          /\ curr' = [curr EXCEPT ![current] = t]
    BY <1>4 DEF user_program_execute
  <2>2. current # Idle
    BY <1>1, <1>4 DEF user_program_execute, IdlePcs
  <2>3. \A u \in Tasks : u # current => curr'[u] = curr[u]
    BY <2>1 DEF InductiveInv, TypeOK
  <2>4. QED BY <1>4, <2>1, <2>2, <2>3, CreateKeepsRest DEF user_program_execute
<1>5. CASE do_fork
  <2>1. PICK t \in Tasks :
          /\ thread_create(t, NewPid, pid[current], handlers[current])
          /\ pc' = [pc EXCEPT ![t] = "user", ![current] = "ret"]
    BY <1>5 DEF do_fork
  <2>2. current # Idle
    BY <1>1, <1>5 DEF do_fork, Calling, IdlePcs
  <2>3. QED BY <1>5, <2>1, <2>2, CreateKeepsRest DEF do_fork
<1>6. CASE do_fork_fails
  <2>1. PICK t \in Tasks :
          /\ thread_create(t, NewPid, 0, {})
          /\ pc' = [pc EXCEPT ![t] = "raw", ![current] = "ret"]
    BY <1>6 DEF do_fork_fails
  <2>2. current # Idle
    BY <1>1, <1>6 DEF do_fork_fails, Calling, IdlePcs
  <2>3. QED BY <1>6, <2>1, <2>2, CreateKeepsRest DEF do_fork_fails
<1>7. CASE test_threads_create
  <2>1. PICK t \in Tasks :
          /\ thread_create(t, arg[current], 0, {})
          /\ pc' = [pc EXCEPT ![t] = "foo", ![current] = "tt_read"]
    BY <1>7 DEF test_threads_create
  <2>2. current # Idle
    BY <1>1, <1>7 DEF test_threads_create, IdlePcs
  <2>3. QED BY <1>7, <2>1, <2>2, CreateKeepsRest DEF test_threads_create
\* The steps that change nothing but the position of the current task, or its
\* signals, or the value it waits for.
<1>8. ASSUME current # Idle, NEW x, x \notin IdlePcs, x # "wp_scan", Goto(x),
             UNCHANGED <<run_queue, heap, current, state, pid, curr, zombie_to_free>>,
             SignalInv'
      PROVE  Rest'
  <2>1. QueueInv' BY <1>3, <1>8, QueueFrame
  <2>2. IdleInv' BY <1>8, IdleFrame
  <2>3. WaitInv' BY <1>8, WaitFrame
  <2>4. RunInv' BY <1>1, <1>8 DEF RunInv, SignalInv
  <2>5. QED BY <2>1, <2>2, <2>3, <2>4 DEF Rest
\* The steps by which a task other than idle gives up the CPU.
<1>9. ASSUME current # Idle, NEW x, x \notin IdlePcs, x # "wp_scan", Goto(x),
             UNCHANGED <<run_queue, heap, pid, curr, zombie_to_free>>,
             state'[Idle] = "RUNNING", SignalInv', schedule
      PROVE  Rest'
  <2>1. QueueInv' BY <1>3, <1>9, QueueFrame
  <2>2. IdleInv' BY <1>1, <1>9, IdleFrame
  <2>3. WaitInv' BY <1>9, WaitFrame
  <2>4. RunInv' BY <1>9, <2>1, <2>2, ScheduleRuns
  <2>5. QED BY <2>1, <2>2, <2>3, <2>4 DEF Rest
<1>10. CASE test_threads
  <2>1. current # Idle BY <1>1, <1>10 DEF test_threads, IdlePcs
  <2>2. SignalInv' BY <1>3, <1>10 DEF SignalInv, test_threads, taskVars
  <2>3. QED BY <1>8, <1>10, <2>1, <2>2 DEF test_threads, taskVars, IdlePcs
<1>11. CASE test_threads_read
  <2>1. current # Idle BY <1>1, <1>11 DEF test_threads_read, IdlePcs
  <2>2. SignalInv' BY <1>3, <1>11 DEF SignalInv, test_threads_read, taskVars
  <2>3. Goto("tt_yield") \/ Goto("tt_create") BY <1>11 DEF test_threads_read
  <2>4. QED BY <1>8, <1>11, <2>1, <2>2, <2>3 DEF test_threads_read, taskVars, IdlePcs
<1>12. CASE test_threads_yield
  <2>1. current # Idle BY <1>1, <1>12 DEF test_threads_yield, IdlePcs
  <2>2. SignalInv' BY <1>3, <1>12 DEF SignalInv, test_threads_yield, taskVars
  <2>3. QED BY <1>1, <1>9, <1>12, <2>1, <2>2 DEF test_threads_yield, taskVars, IdlePcs
<1>13. CASE thread_exit
  <2>1. current # Idle BY <1>1, <1>13 DEF thread_exit, Calling, IdlePcs
  <2>2. SignalInv' BY <1>3, <1>13 DEF SignalInv, thread_exit
  <2>3. state'[Idle] = "RUNNING" BY <1>1, <1>2, <1>13, <2>1 DEF thread_exit
  <2>4. QED BY <1>9, <1>13, <2>1, <2>2, <2>3 DEF thread_exit, IdlePcs
\* A task that Finds names is in the queue, and it is not idle if its pid is
\* not protected.
<1>14. ASSUME NEW p \in Pids \ Protected, NEW t \in Tasks, Finds(run_queue, p, t)
       PROVE  t # Idle
  BY <1>1, <1>14, TamePrograms DEF Finds
<1>15. CASE do_stop
  <2>1. current # Idle BY <1>1, <1>15 DEF do_stop, Calling, IdlePcs
  <2>2. SignalInv' BY <1>3, <1>15 DEF SignalInv, do_stop
  <2>3. CASE Goto("ret") /\ UNCHANGED <<state, current>>
    BY <1>8, <1>15, <2>1, <2>2, <2>3 DEF do_stop, IdlePcs
  <2>4. CASE \E p \in Pids \ Protected, t \in Tasks :
               /\ Finds(run_queue, p, t)
               /\ state' = [state EXCEPT ![t] = "ZOMBIE"]
               /\ IF t = current THEN Goto("gone") /\ schedule
                                 ELSE Goto("ret") /\ UNCHANGED current
    <3>1. PICK p \in Pids \ Protected, t \in Tasks :
               /\ Finds(run_queue, p, t)
               /\ state' = [state EXCEPT ![t] = "ZOMBIE"]
               /\ IF t = current THEN Goto("gone") /\ schedule
                                 ELSE Goto("ret") /\ UNCHANGED current
      BY <2>4
    <3>2. t # Idle /\ state'[Idle] = "RUNNING"
      BY <1>1, <1>2, <1>14, <3>1
    <3>3. CASE t = current
      BY <1>9, <1>15, <2>1, <2>2, <3>1, <3>2, <3>3 DEF do_stop, IdlePcs
    <3>4. CASE t # current
      <4>1. QueueInv' BY <1>3, <1>15, QueueFrame DEF do_stop
      <4>2. IdleInv'
        BY <1>1, <1>15, <2>1, <3>1, <3>2, <3>4, IdleFrame DEF do_stop, IdlePcs
      <4>3. WaitInv' BY <1>15, <3>1, <3>4, WaitFrame DEF do_stop
      <4>4. RunInv' BY <1>1, <1>2, <1>15, <2>2, <3>1, <3>4 DEF RunInv, SignalInv, do_stop
      <4>5. QED BY <4>1, <4>2, <4>3, <4>4 DEF Rest
    <3>5. QED BY <3>3, <3>4
  <2>5. QED BY <1>15, <2>3, <2>4 DEF do_stop
<1>16. CASE do_kill
  <2>1. current # Idle BY <1>1, <1>16 DEF do_kill, Calling, IdlePcs
  <2>2. PICK p \in Pids \ Protected, m \in Sigs :
          \/ UNCHANGED <<state, ppid, pending>>
          \/ \E t \in Tasks :
              /\ Finds(run_queue, p, t)
              /\ IF m \in handlers[t]
                 THEN /\ pending' = [pending EXCEPT ![t] = @ \cup {m}]
                      /\ UNCHANGED <<state, ppid>>
                 ELSE /\ t = current => "selfkill" \in Calls
                      /\ state' = [state EXCEPT ![t] = "ZOMBIE"]
                      /\ UNCHANGED pending
    BY <1>16 DEF do_kill
  <2>3. Goto("ret") /\ UNCHANGED <<run_queue, heap, current, pid, curr, zombie_to_free, handlers>>
    BY <1>16 DEF do_kill
  <2>4. QueueInv' BY <1>3, <2>3, QueueFrame
  <2>5. WaitInv' BY <2>3, WaitFrame
  <2>6. state'[Idle] = "RUNNING" /\ state'[current] = "RUNNING"
    <3>1. CASE state' = state
      BY <1>1, <3>1
    <3>2. CASE \E t \in Tasks : /\ Finds(run_queue, p, t) /\ t # current
                               /\ state' = [state EXCEPT ![t] = "ZOMBIE"]
      BY <1>1, <1>2, <1>14, <3>2
    <3>3. QED BY <2>2, <3>1, <3>2, TamePrograms
  <2>7. SignalInv'
    <3>1. CASE pending' = pending
      BY <1>3, <2>3, <3>1 DEF SignalInv
    <3>2. CASE \E t \in Tasks : m \in handlers[t] /\ pending' = [pending EXCEPT ![t] = @ \cup {m}]
      <4>1. PICK t \in Tasks : m \in handlers[t] /\ pending' = [pending EXCEPT ![t] = @ \cup {m}]
        BY <3>2
      <4>2. \A u \in Tasks : pending'[u] = IF u = t THEN pending[u] \cup {m} ELSE pending[u]
        BY <1>2, <4>1
      <4>3. QED BY <1>3, <2>3, <4>1, <4>2 DEF SignalInv
    <3>3. QED BY <2>2, <3>1, <3>2
  <2>8. IdleInv'
    BY <1>1, <2>1, <2>3, <2>6, IdleFrame DEF IdlePcs
  <2>9. RunInv' BY <1>1, <2>3, <2>6, <2>7 DEF RunInv, SignalInv
  <2>10. QED BY <2>4, <2>5, <2>8, <2>9 DEF Rest
\* Idle's own code: the steps that go to x and keep the CPU.
<1>17. ASSUME current = Idle, NEW x \in IdlePcs, Goto(x),
              UNCHANGED <<state, pid, pending, handlers, current, curr>>,
              (x = "kz_free") <=> (zombie_to_free' # NULL),
              QueueInv'
       PROVE  Rest'
  <2>1. \A t \in Tasks : pc'[t] = IF t = Idle THEN x ELSE pc[t]
    BY <1>1, <1>2, <1>17 DEF Goto
  <2>2. IdleInv'
    BY <1>1, <1>3, <1>17, <2>1 DEF IdleInv
  <2>3. WaitInv'
    BY <1>17, WaitFrame DEF IdlePcs
  <2>4. 1 \in DOMAIN run_queue'
    BY <1>17, EmptySeq, LenProperties DEF TypeOK, QueueInv
  <2>5. current' \in Range(run_queue')
    BY <1>17, <2>4 DEF QueueInv, Range
  <2>6. RunInv'
    BY <1>3, <1>17, <2>5 DEF RunInv, SignalInv
  <2>7. QED BY <1>17, <2>2, <2>3, <2>6 DEF Rest
<1>18. CASE kill_zombies
  <2>1. /\ current = Idle /\ zombie_to_free = NULL
        /\ UNCHANGED <<state, pid, pending, handlers, heap, current, curr>>
    BY <1>1, <1>3, <1>18 DEF kill_zombies, IdlePcs, IdleInv, taskVars
  <2>2. CASE Goto("yield") /\ UNCHANGED <<run_queue, zombie_to_free>>
    <3>1. QueueInv' BY <1>3, <2>1, <2>2, QueueFrame
    <3>2. QED BY <1>17, <2>1, <2>2, <3>1 DEF IdlePcs
  <2>3. CASE \E i \in DOMAIN run_queue :
               /\ state[run_queue[i]] = "ZOMBIE"
               /\ run_queue' = Dequeue(run_queue, run_queue[i])
               /\ zombie_to_free' = run_queue[i]
               /\ Goto("kz_free")
    <3>1. PICK i \in DOMAIN run_queue :
               /\ state[run_queue[i]] = "ZOMBIE"
               /\ run_queue' = Dequeue(run_queue, run_queue[i])
               /\ zombie_to_free' = run_queue[i]
               /\ Goto("kz_free")
      BY <2>3
    <3> DEFINE z == run_queue[i]
    <3>2. z \in Range(run_queue) /\ z # Idle /\ z # NULL
      BY <1>1, <3>1, ConstantsAssumption DEF Range
    <3>3. /\ run_queue' # <<>> /\ IsInjective(run_queue')
          /\ run_queue'[1] = run_queue[1]
          /\ Range(run_queue') = Range(run_queue) \ {z}
      BY <1>3, <3>1, <3>2, DequeueOther DEF InductiveInv, TypeOK, QueueInv
    <3>4. QueueInv'
      BY <1>3, <2>1, <3>1, <3>2, <3>3 DEF QueueInv
    <3>5. QED BY <1>17, <2>1, <3>1, <3>2, <3>4 DEF IdlePcs
  <2>4. QED BY <1>18, <2>2, <2>3 DEF kill_zombies, OrphanZombie
<1>19. CASE kill_zombies_free
  <2>1. /\ current = Idle /\ Goto("yield") /\ zombie_to_free' = NULL
        /\ heap' = heap \ {zombie_to_free}
        /\ UNCHANGED <<state, pid, pending, handlers, run_queue, current, curr>>
    BY <1>1, <1>19 DEF kill_zombies_free, IdlePcs, taskVars
  <2>2. NULL \notin Range(run_queue)
    BY <1>1, ConstantsAssumption
  <2>3. QueueInv'
    BY <1>3, <2>1, <2>2 DEF QueueInv
  <2>4. QED BY <1>17, <2>1, <2>3 DEF IdlePcs
<1>20. CASE idle_yield
  <2>1. /\ current = Idle /\ pc[Idle] = "yield" /\ Goto("kz") /\ schedule
        /\ UNCHANGED <<state, pid, pending, handlers, run_queue, heap, curr, zombie_to_free>>
    BY <1>1, <1>20 DEF idle_yield, IdlePcs, taskVars
  <2>2. QueueInv' BY <1>3, <2>1, QueueFrame
  <2>3. \A t \in Tasks : pc'[t] = IF t = Idle THEN "kz" ELSE pc[t]
    BY <1>1, <1>2, <2>1 DEF Goto
  <2>4. IdleInv'
    BY <1>1, <1>3, <2>1, <2>3 DEF IdleInv, IdlePcs
  <2>5. WaitInv' BY <2>1, WaitFrame
  <2>6. SignalInv' BY <1>3, <2>1 DEF SignalInv
  <2>7. RunInv' BY <2>1, <2>2, <2>4, <2>6, ScheduleRuns
  <2>8. QED BY <2>2, <2>4, <2>5, <2>7 DEF Rest
<1>21. CASE waitpid_call
  <2>1. current # Idle BY <1>1, <1>21 DEF waitpid_call, Calling, IdlePcs
  <2>2. SignalInv' BY <1>3, <1>21 DEF SignalInv, waitpid_call, taskVars
  <2>3. QED BY <1>8, <1>21, <2>1, <2>2 DEF waitpid_call, taskVars, IdlePcs
<1>33. CASE user_program_execute_returns
  <2>1. /\ current # Idle /\ Goto("wp_read") /\ curr' = [curr EXCEPT ![current] = NULL]
        /\ UNCHANGED <<state, pid, pending, handlers, run_queue, heap, current, zombie_to_free>>
    BY <1>1, <1>33 DEF user_program_execute_returns, IdlePcs, taskVars
  <2>2. \A t \in Tasks : t # current => curr'[t] = curr[t]
    BY <2>1 DEF InductiveInv, TypeOK
  <2>3. QueueInv' BY <1>3, <2>1, QueueFrame
  <2>4. IdleInv' BY <2>1, IdleFrame DEF IdlePcs
  <2>5. WaitInv' BY <2>1, <2>2, WaitFrame
  <2>6. RunInv' BY <1>3, <2>1 DEF RunInv
  <2>7. QED BY <2>3, <2>4, <2>5, <2>6 DEF Rest
<1>22. CASE do_waitpid_read
  <2>1. /\ current # Idle /\ Goto("wp_scan") /\ curr' = [curr EXCEPT ![current] = Idle]
        /\ UNCHANGED <<state, pid, pending, handlers, run_queue, heap, current, zombie_to_free>>
    BY <1>1, <1>3, <1>22 DEF do_waitpid_read, IdlePcs, taskVars, QueueInv
  <2>2. QueueInv' BY <1>3, <2>1, QueueFrame
  <2>3. IdleInv' BY <2>1, IdleFrame DEF IdlePcs
  <2>4. WaitInv'
    <3>1. curr \in [Tasks -> Tasks \cup {NULL}] BY DEF InductiveInv, TypeOK
    <3>2. \A t \in Tasks : /\ pc'[t] = IF t = current THEN "wp_scan" ELSE pc[t]
                           /\ curr'[t] = IF t = current THEN Idle ELSE curr[t]
      BY <1>1, <1>2, <2>1, <3>1 DEF Goto
    <3>3. QED BY <1>3, <3>2 DEF WaitInv
  <2>5. RunInv' BY <1>3, <2>1 DEF RunInv
  <2>6. QED BY <2>2, <2>3, <2>4, <2>5 DEF Rest
<1>23. CASE do_waitpid_scan
  <2>1. PICK x \in {"ret", "prompt", "wp_yield"} : Goto(x)
    BY <1>23 DEF do_waitpid_scan, Home
  <2>2. /\ current # Idle /\ curr' = [curr EXCEPT ![current] = NULL]
        /\ UNCHANGED <<state, pid, pending, handlers, current, zombie_to_free>>
    BY <1>1, <1>23 DEF do_waitpid_scan, IdlePcs, taskVars
  <2>3. QueueInv' /\ current \in Range(run_queue')
    <3>1. CASE UNCHANGED <<run_queue, heap>>
      BY <1>1, <1>3, <2>2, <3>1, QueueFrame
    <3>2. CASE ~ UNCHANGED <<run_queue, heap>>
      <4>1. PICK first \in DOMAIN run_queue, t \in Tasks :
              /\ Finds(SubSeq(run_queue, first, Len(run_queue)), arg[current], t)
              /\ state[t] = "ZOMBIE"
              /\ run_queue' = Dequeue(run_queue, t)
              /\ heap' = heap \ {t}
        BY <1>23, <3>2 DEF do_waitpid_scan, Reapable
      <4>2. t \in Range(run_queue)
        <5> DEFINE walk == SubSeq(run_queue, first, Len(run_queue))
        <5>1. run_queue \in Seq(Tasks) /\ Len(run_queue) \in Nat /\ first \in 1..Len(run_queue)
          BY LenProperties DEF InductiveInv, TypeOK
        <5>2. /\ walk \in Seq(Tasks) /\ Len(walk) = Len(run_queue) - first + 1
              /\ \A i \in 1..(Len(run_queue) - first + 1) : walk[i] = run_queue[first + i - 1]
          <6>1. /\ first \in 1..(Len(run_queue) + 1) /\ Len(run_queue) \in 0..Len(run_queue)
                /\ first <= Len(run_queue) + 1
            BY <5>1
          <6>2. QED BY <5>1, <6>1, PartElements
        <5>3. PICK i \in DOMAIN walk : walk[i] = t
          BY <4>1 DEF Finds
        <5> HIDE DEF walk
        <5>4. first + i - 1 \in 1..Len(run_queue) /\ run_queue[first + i - 1] = t
          BY <5>1, <5>2, <5>3, LenProperties
        <5>5. first + i - 1 \in DOMAIN run_queue
          BY <5>1, <5>4, LenProperties
        <5>6. QED BY <5>4, <5>5 DEF Range
      <4>3. t # Idle /\ t # current
        BY <1>1, <4>1
      <4>4. /\ run_queue' # <<>> /\ IsInjective(run_queue')
            /\ run_queue'[1] = run_queue[1]
            /\ Range(run_queue') = Range(run_queue) \ {t}
        BY <1>3, <4>1, <4>2, <4>3, DequeueOther DEF InductiveInv, TypeOK, QueueInv
      <4>5. t # NULL /\ t # zombie_to_free
        BY <1>3, <4>2, ConstantsAssumption DEF QueueInv
      <4>6. QueueInv'
        BY <1>3, <2>2, <4>1, <4>4, <4>5 DEF QueueInv
      <4>7. QED BY <1>1, <4>3, <4>4, <4>6
    <3>3. QED BY <3>1, <3>2
  <2>4. IdleInv' BY <2>1, <2>2, IdleFrame DEF IdlePcs
  <2>5. WaitInv'
    <3>1. \A t \in Tasks : t # current => curr'[t] = curr[t]
      BY <2>2 DEF InductiveInv, TypeOK
    <3>2. QED BY <2>1, <3>1, WaitFrame
  <2>6. RunInv' BY <1>3, <2>2, <2>3 DEF RunInv
  <2>7. QED BY <2>3, <2>4, <2>5, <2>6 DEF Rest
<1>24. CASE do_waitpid_yield
  <2>1. current # Idle BY <1>1, <1>24 DEF do_waitpid_yield, IdlePcs
  <2>2. SignalInv' BY <1>3, <1>24 DEF SignalInv, do_waitpid_yield, taskVars
  <2>3. QED BY <1>1, <1>9, <1>24, <2>1, <2>2 DEF do_waitpid_yield, taskVars, IdlePcs
<1>25. CASE do_usleep
  <2>1. current # Idle BY <1>1, <1>25 DEF do_usleep, Calling, IdlePcs
  <2>2. SignalInv' BY <1>3, <1>25 DEF SignalInv, do_usleep
  <2>3. CASE UNCHANGED <<state, current, timers>>
    BY <1>8, <1>25, <2>1, <2>2, <2>3 DEF do_usleep, IdlePcs
  <2>4. CASE state' = [state EXCEPT ![current] = "SLEEPING"] /\ schedule
    <3>1. state'[Idle] = "RUNNING" BY <1>1, <1>2, <2>1, <2>4
    <3>2. QED BY <1>9, <1>25, <2>1, <2>2, <2>4, <3>1 DEF do_usleep, IdlePcs
  <2>5. QED BY <1>25, <2>3, <2>4 DEF do_usleep
<1>26. CASE timer_interrupt
  <2>1. PICK k \in 0..Len(timers), resched \in BOOLEAN : core_timer_handler(k, resched)
    BY <1>26 DEF timer_interrupt
  <2>2. UNCHANGED <<run_queue, heap, pid, pending, handlers, curr, zombie_to_free>>
    BY <2>1 DEF core_timer_handler
  <2>3. \A t \in Tasks : state[t] = "RUNNING" => state'[t] = "RUNNING"
    BY <2>1 DEF core_timer_handler, wakeup_callback
  <2>4. \A t \in Tasks : pc'[t] = pc[t] \/ (pc[t] = "user" /\ pc'[t] = "ret")
    BY <1>1, <1>2, <2>1 DEF core_timer_handler, Goto
  <2>5. QueueInv' BY <1>3, <2>2, QueueFrame
  <2>6. IdleInv'
    <3>1. \A t \in Tasks : pc'[t] \in IdlePcs <=> pc[t] \in IdlePcs
      BY <2>4 DEF IdlePcs
    <3>2. pc'[Idle] = pc[Idle]
      BY <1>1, <1>3, <2>4 DEF IdleInv, IdlePcs
    <3>3. QED BY <1>1, <1>3, <2>2, <2>3, <3>1, <3>2 DEF IdleInv
  <2>7. WaitInv' BY <1>3, <2>2, <2>4 DEF WaitInv
  <2>8. SignalInv' BY <1>3, <2>2 DEF SignalInv
  <2>9. CASE schedule
    <3>1. RunInv' BY <2>5, <2>6, <2>8, <2>9, ScheduleRuns
    <3>2. QED BY <2>5, <2>6, <2>7, <3>1 DEF Rest
  <2>10. CASE UNCHANGED current
    <3>1. RunInv' BY <1>1, <2>2, <2>3, <2>8, <2>10 DEF RunInv, SignalInv
    <3>2. QED BY <2>5, <2>6, <2>7, <3>1 DEF Rest
  <2>11. QED BY <2>1, <2>9, <2>10 DEF core_timer_handler
<1>27. CASE do_signal
  <2>1. current # Idle BY <1>1, <1>27 DEF do_signal, Calling, IdlePcs
  <2>2. PICK m \in Sigs : handlers' = [handlers EXCEPT ![current] = @ \cup {m}]
    BY <1>27, TamePrograms DEF do_signal
  <2>3. \A t \in Tasks : handlers[t] \subseteq handlers'[t]
    BY <1>2, <2>2
  <2>4. SignalInv'
    <3>1. UNCHANGED pending BY <1>27 DEF do_signal
    <3>2. QED BY <1>3, <2>3, <3>1 DEF SignalInv
  <2>5. QED BY <1>8, <1>27, <2>1, <2>4 DEF do_signal, IdlePcs
<1>28. CASE signal_check
  <2>1. current # Idle BY <1>1, <1>28 DEF signal_check, IdlePcs
  <2>2. UNCHANGED <<state, pending>>
        \/ \E m \in pending[current] : /\ pending' = [pending EXCEPT ![current] = @ \ {m}]
                                       /\ UNCHANGED state
    BY <1>1, <1>3, <1>28 DEF signal_check, SignalInv
  <2>3. state' = state /\ \A t \in Tasks : pending'[t] \subseteq pending[t]
    BY <1>2, <2>2
  <2>4. SignalInv'
    <3>1. UNCHANGED handlers BY <1>28 DEF signal_check
    <3>2. QED BY <1>3, <2>3, <3>1 DEF SignalInv
  <2>5. QED BY <1>8, <1>28, <2>1, <2>3, <2>4 DEF signal_check, IdlePcs
<1>29. CASE do_sigreturn
  <2>1. current # Idle BY <1>1, <1>29 DEF do_sigreturn, IdlePcs
  <2>2. SignalInv' BY <1>3, <1>29 DEF SignalInv, do_sigreturn
  <2>3. QED BY <1>8, <1>29, <2>1, <2>2 DEF do_sigreturn, IdlePcs
<1>30. CASE uart_syscall
  <2>1. current # Idle BY <1>1, <1>30 DEF uart_syscall, Calling, IdlePcs
  <2>2. SignalInv' BY <1>3, <1>30 DEF SignalInv, uart_syscall, taskVars
  <2>3. QED BY <1>8, <1>30, <2>1, <2>2 DEF uart_syscall, taskVars, IdlePcs
<1>31. CASE UNCHANGED vars
  <2>1. QueueInv' BY <1>3, <1>31, QueueFrame DEF vars
  <2>2. IdleInv' /\ RunInv' /\ WaitInv'
    BY <1>3, <1>31 DEF vars, IdleInv, RunInv, WaitInv
  <2>3. QED BY <2>1, <2>2 DEF Rest
<1>32. QED
  BY <1>4, <1>5, <1>6, <1>7, <1>10, <1>11, <1>12, <1>13, <1>15, <1>16, <1>18, <1>19,
     <1>20, <1>21, <1>22, <1>23, <1>24, <1>25, <1>26, <1>27, <1>28, <1>29, <1>30,
     <1>31, <1>33 DEF Next, KernelStep, Call

-----------------------------------------------------------------------------
(* The theorems *)

\* The invariant holds when main starts to run as idle.
LEMMA InvInit == Init => InductiveInv
<1> SUFFICES ASSUME Init PROVE InductiveInv
  OBVIOUS
<1> DEFINE q == <<Idle, Shell>>
<1>1. /\ q \in Seq(Tasks) /\ Len(q) = 2 /\ DOMAIN q = 1..2 /\ q[1] = Idle /\ q[2] = Shell
  BY ConstantsAssumption
<1>2. run_queue = q /\ heap = {Idle, Shell} /\ zombie_to_free = NULL
  BY DEF Init
<1> HIDE DEF q
<1>3. Range(q) = {Idle, Shell} /\ IsInjective(q) /\ q # <<>>
  <2>1. IsInjective(q) BY <1>1, ConstantsAssumption DEF IsInjective
  <2>2. Range(q) = {Idle, Shell}
    <3>1. 1 \in DOMAIN q /\ 2 \in DOMAIN q /\ \A i \in DOMAIN q : i = 1 \/ i = 2
      BY <1>1
    <3>2. QED BY <1>1, <3>1 DEF Range
  <2>3. q # <<>> BY <1>1
  <2>4. QED BY <2>1, <2>2, <2>3
<1>4. TypeOK
  <2>1. timers \in Seq([task : Tasks, by : Nat]) BY DEF Init
  <2>2. /\ pid \in [Tasks -> Nat] /\ ppid \in [Tasks -> Nat] /\ arg \in [Tasks -> Nat]
        /\ nr_threads \in Nat /\ left \in Int
    BY DEF Init
  <2>3. /\ state \in [Tasks -> States] /\ pc \in [Tasks -> Pcs]
        /\ handling \in [Tasks -> BOOLEAN]
    BY DEF Init, States, Pcs, Open
  <2>4. /\ handlers \in [Tasks -> SUBSET Sigs] /\ pending \in [Tasks -> SUBSET Sigs]
        /\ curr \in [Tasks -> Tasks \cup {NULL}] /\ zombie_to_free \in Tasks \cup {NULL}
    BY DEF Init
  <2>5. run_queue \in Seq(Tasks) /\ heap \subseteq Tasks /\ current \in Tasks
    BY <1>1, <1>2, ConstantsAssumption DEF Init
  <2>6. QED BY <2>1, <2>2, <2>3, <2>4, <2>5 DEF TypeOK
<1>5. QueueInv
  BY <1>1, <1>2, <1>3, ConstantsAssumption DEF QueueInv
<1>6. IdleInv
  BY <1>2, ConstantsAssumption DEF Init, IdleInv, IdlePcs
<1>7. RunInv
  BY <1>2, <1>3, ConstantsAssumption DEF Init, RunInv
<1>8. WaitInv
  BY DEF Init, WaitInv
<1>9. QED
  BY <1>4, <1>5, <1>6, <1>7, <1>8 DEF InductiveInv

\* Every step of the kernel keeps the invariant.
LEMMA InvStep == InductiveInv /\ [Next]_vars => InductiveInv'
<1> SUFFICES ASSUME InductiveInv, [Next]_vars PROVE InductiveInv'
  OBVIOUS
<1>1. TypeOK'
  BY TypeStep DEF InductiveInv, QueueInv
<1>2. Rest'
  BY <1>1, RestStep
<1>3. QED
  BY <1>1, <1>2 DEF InductiveInv, Rest

\* The inductive invariant holds in every reachable state, for any number of
\* task_structs, processes, signals and timer events.
THEOREM Invariance == Spec => []InductiveInv
<1>1. Init => InductiveInv
  BY InvInit
<1>2. InductiveInv /\ [Next]_vars => InductiveInv'
  BY InvStep
<1>3. QED
  BY <1>1, <1>2, PTL DEF Spec

\* Type correctness.
THEOREM TypeCorrect == Spec => []TypeOK
<1>1. InductiveInv => TypeOK
  BY DEF InductiveInv
<1>2. QED
  BY <1>1, Invariance, PTL

\* The thread on the CPU is in the run queue and its task_struct, with the
\* kernel stack it stands on, is allocated: neither kill_zombies nor do_waitpid
\* ever frees it.
THEOREM RunningIsQueued == Spec => []RunningTaskIsQueued
<1>1. InductiveInv => RunningTaskIsQueued
  BY DEF InductiveInv, QueueInv, RunInv, RunningTaskIsQueued
<1>2. QED
  BY <1>1, Invariance, PTL

\* Between the two halves of kill_zombies, with interrupts enabled, nobody else
\* can reach the task_struct that idle is about to free: no double free.
THEOREM VictimIsSafe == Spec => []VictimIsIdlesAlone
<1>1. InductiveInv => VictimIsIdlesAlone
  BY DEF InductiveInv, QueueInv, VictimIsIdlesAlone
<1>2. QED
  BY <1>1, Invariance, PTL

\* schedule() never leaves the CPU to a sleeping or terminated thread.
THEOREM RunningIsRunnable == Spec => []CurrentIsRunnable
<1>1. InductiveInv => CurrentIsRunnable
  BY DEF InductiveInv, RunInv, CurrentIsRunnable
<1>2. QED
  BY <1>1, Invariance, PTL

\* The head that do_waitpid reads with interrupts enabled is still the head of
\* the queue when its critical section walks from it.
THEOREM WaitpidSeesAll == Spec => []WaitpidWalksWholeQueue
<1>1. InductiveInv => WaitpidWalksWholeQueue
  <2> SUFFICES ASSUME InductiveInv, NEW t \in Range(run_queue), pc[t] = "wp_scan"
               PROVE  curr[t] = run_queue[1]
    BY DEF WaitpidWalksWholeQueue
  <2>1. t \in Tasks BY IdleFacts
  <2>2. QED BY <2>1 DEF InductiveInv, WaitInv, QueueInv
<1>2. QED
  BY <1>1, Invariance, PTL

\* What a step does to the state of a terminated thread.
LEMMA ZombieStep ==
    ASSUME InductiveInv, [Next]_vars, NEW t \in Tasks, state[t] = "ZOMBIE"
    PROVE  state'[t] = "ZOMBIE" \/ (t \notin heap /\ t \in heap')
<1>1. state \in [Tasks -> States] /\ t # current
  BY DEF InductiveInv, TypeOK, RunInv
<1>2. ASSUME NEW u \in Tasks, NEW n, NEW parent, NEW hs, thread_create(u, n, parent, hs)
      PROVE  state'[t] = "ZOMBIE" \/ (t \notin heap /\ t \in heap')
  BY <1>1, <1>2 DEF thread_create
<1>3. CASE user_program_execute \/ do_fork \/ do_fork_fails \/ test_threads_create
  BY <1>2, <1>3 DEF user_program_execute, do_fork, do_fork_fails, test_threads_create
<1>4. CASE thread_exit \/ do_stop \/ do_kill \/ signal_check
  BY <1>1, <1>4 DEF thread_exit, do_stop, do_kill, signal_check
<1>5. CASE do_usleep
  BY <1>1, <1>5 DEF do_usleep
<1>6. CASE timer_interrupt
  BY <1>1, <1>6 DEF timer_interrupt, core_timer_handler, wakeup_callback
<1>7. CASE \/ test_threads \/ test_threads_read \/ test_threads_yield \/ kill_zombies
           \/ kill_zombies_free \/ idle_yield \/ waitpid_call \/ user_program_execute_returns
           \/ do_waitpid_read
           \/ do_waitpid_scan \/ do_waitpid_yield \/ do_signal \/ do_sigreturn
           \/ uart_syscall \/ UNCHANGED vars
  <2>1. UNCHANGED state
    BY <1>7 DEF test_threads, test_threads_read, test_threads_yield, kill_zombies,
       kill_zombies_free, idle_yield, waitpid_call, user_program_execute_returns,
       do_waitpid_read, do_waitpid_scan, do_waitpid_yield, do_signal, do_sigreturn,
       uart_syscall, vars, taskVars
  <2>2. QED BY <2>1
<1>8. QED
  BY <1>3, <1>4, <1>5, <1>6, <1>7 DEF Next, KernelStep, Call

\* A thread that has terminated is never run again: no late timer event, signal
\* or scheduling step brings a zombie back.
THEOREM DeadIsDead == Spec => ZombiesStayDead
<1>1. InductiveInv /\ [Next]_vars =>
        [\A t \in Tasks : state[t] = "ZOMBIE" =>
            state'[t] = "ZOMBIE" \/ (t \notin heap /\ t \in heap')]_vars
  BY ZombieStep
<1>2. QED
  BY <1>1, Invariance, PTL DEF Spec, ZombiesStayDead

-----------------------------------------------------------------------------
(* Who is in the queue, and under which numbers *)

Creation == user_program_execute \/ do_fork \/ do_fork_fails \/ test_threads_create

\* A walk of do_waitpid meets tasks of the queue only.
LEMMA WalkInQueue ==
    ASSUME TypeOK, NEW first \in DOMAIN run_queue, NEW p, NEW t,
           Finds(SubSeq(run_queue, first, Len(run_queue)), p, t)
    PROVE  t \in Queued
<1> DEFINE walk == SubSeq(run_queue, first, Len(run_queue))
<1>1. run_queue \in Seq(Tasks) /\ Len(run_queue) \in Nat /\ first \in 1..Len(run_queue)
  BY LenProperties DEF TypeOK
<1>2. /\ walk \in Seq(Tasks) /\ Len(walk) = Len(run_queue) - first + 1
      /\ \A i \in 1..(Len(run_queue) - first + 1) : walk[i] = run_queue[first + i - 1]
  <2>1. /\ first \in 1..(Len(run_queue) + 1) /\ Len(run_queue) \in 0..Len(run_queue)
        /\ first <= Len(run_queue) + 1
    BY <1>1
  <2>2. QED BY <1>1, <2>1, PartElements
<1>3. PICK i \in DOMAIN walk : walk[i] = t
  BY DEF Finds
<1> HIDE DEF walk
<1>4. first + i - 1 \in 1..Len(run_queue) /\ run_queue[first + i - 1] = t
  BY <1>1, <1>2, <1>3, LenProperties
<1>5. first + i - 1 \in DOMAIN run_queue
  BY <1>1, <1>4, LenProperties
<1>6. QED
  BY <1>4, <1>5 DEF Queued, Range

\* Whoever leaves the queue has terminated; except by thread_create nobody
\* enters it and no number changes.
LEMMA QueueOnlyShrinks ==
    ASSUME InductiveInv, [Next]_vars, ~Creation
    PROVE  /\ UNCHANGED <<pid, nr_threads>>
           /\ Queued' \subseteq Queued
           /\ \A t \in Queued \ Queued' : state[t] = "ZOMBIE" /\ state'[t] = "ZOMBIE"
<1>1. /\ run_queue # <<>> /\ IsInjective(run_queue) /\ run_queue \in Seq(Tasks)
      /\ run_queue[1] = Idle /\ state[Idle] = "RUNNING" /\ TypeOK
  BY DEF InductiveInv, QueueInv, TypeOK, IdleInv
<1>2. ASSUME NEW z \in Queued, state[z] = "ZOMBIE", run_queue' = Dequeue(run_queue, z),
             UNCHANGED state
      PROVE  /\ Queued' \subseteq Queued
             /\ \A t \in Queued \ Queued' : state[t] = "ZOMBIE" /\ state'[t] = "ZOMBIE"
  <2>1. Range(Dequeue(run_queue, z)) = Queued \ {z}
    BY <1>1, <1>2, DequeueOther DEF Queued
  <2>2. QED BY <1>2, <2>1 DEF Queued
<1>3. CASE UNCHANGED <<run_queue, pid, nr_threads>>
  BY <1>3 DEF Queued
<1>4. CASE kill_zombies
  <2>1. UNCHANGED <<pid, nr_threads, state>>
    BY <1>4 DEF kill_zombies, taskVars
  <2>2. CASE UNCHANGED run_queue
    BY <1>3, <2>1, <2>2
  <2>3. CASE \E i \in DOMAIN run_queue : /\ OrphanZombie(run_queue[i])
                                         /\ run_queue' = Dequeue(run_queue, run_queue[i])
    <3>1. PICK i \in DOMAIN run_queue : /\ OrphanZombie(run_queue[i])
                                        /\ run_queue' = Dequeue(run_queue, run_queue[i])
      BY <2>3
    <3>2. run_queue[i] \in Queued /\ state[run_queue[i]] = "ZOMBIE"
      BY <3>1 DEF Queued, Range, OrphanZombie
    <3>3. QED BY <1>2, <2>1, <3>1, <3>2
  <2>4. QED BY <1>4, <2>2, <2>3 DEF kill_zombies
<1>5. CASE do_waitpid_scan
  <2>1. UNCHANGED <<pid, nr_threads, state>>
    BY <1>5 DEF do_waitpid_scan, taskVars
  <2>2. CASE UNCHANGED run_queue
    BY <1>3, <2>1, <2>2
  <2>3. CASE \E first \in DOMAIN run_queue, t \in Tasks :
               /\ Finds(SubSeq(run_queue, first, Len(run_queue)), arg[current], t)
               /\ Reapable(t) /\ run_queue' = Dequeue(run_queue, t)
    <3>1. PICK first \in DOMAIN run_queue, t \in Tasks :
               /\ Finds(SubSeq(run_queue, first, Len(run_queue)), arg[current], t)
               /\ Reapable(t) /\ run_queue' = Dequeue(run_queue, t)
      BY <2>3
    <3>2. t \in Queued /\ state[t] = "ZOMBIE"
      BY <1>1, <3>1, WalkInQueue DEF Reapable
    <3>3. QED BY <1>2, <2>1, <3>1, <3>2
  <2>4. QED BY <1>5, <2>2, <2>3 DEF do_waitpid_scan
<1>6. CASE \/ test_threads \/ test_threads_read \/ test_threads_yield
           \/ kill_zombies_free \/ idle_yield \/ waitpid_call \/ user_program_execute_returns
           \/ do_waitpid_read
           \/ do_waitpid_yield \/ do_signal \/ do_sigreturn \/ uart_syscall
           \/ UNCHANGED vars
  <2>1. UNCHANGED <<run_queue, pid, nr_threads>>
    BY <1>6 DEF test_threads, test_threads_read, test_threads_yield, kill_zombies_free,
       idle_yield, waitpid_call, user_program_execute_returns,
       do_waitpid_read, do_waitpid_yield, do_signal,
       do_sigreturn, uart_syscall, vars, taskVars
  <2>2. QED BY <1>3, <2>1
<1>7. CASE thread_exit \/ do_stop \/ do_kill \/ do_usleep \/ signal_check \/ timer_interrupt
  <2>1. UNCHANGED <<run_queue, pid, nr_threads>>
    BY <1>7 DEF thread_exit, do_stop, do_kill, do_usleep, signal_check,
       timer_interrupt, core_timer_handler
  <2>2. QED BY <1>3, <2>1
<1>8. QED
  BY <1>4, <1>5, <1>6, <1>7 DEF Next, KernelStep, Call, Creation

\* What thread_create does: a task that is not queued becomes so, running, with
\* a number and a parent, and the others keep theirs.
LEMMA CreateFacts ==
    ASSUME InductiveInv, NEW t \in Tasks, NEW n \in Nat, NEW parent \in Nat, NEW hs,
           thread_create(t, n, parent, hs)
    PROVE  /\ t \notin Queued /\ t # current /\ current \in Queued
           /\ Queued' = Queued \cup {t}
           /\ pid'[t] = n /\ ppid'[t] = parent /\ state'[t] = "RUNNING" /\ nr_threads' = n + 1
           /\ \A u \in Queued : u \in Tasks /\ u # t /\ pid'[u] = pid[u]
                                /\ ppid'[u] = ppid[u] /\ state'[u] = state[u]
<1>1. /\ run_queue # <<>> /\ IsInjective(run_queue) /\ run_queue \in Seq(Tasks)
      /\ current \in Queued /\ Queued \subseteq heap
      /\ pid \in [Tasks -> Nat] /\ ppid \in [Tasks -> Nat] /\ state \in [Tasks -> States]
  BY DEF InductiveInv, QueueInv, TypeOK, RunInv, Queued
<1>2. t \notin Queued
  BY <1>1 DEF thread_create
<1>3. Range(Enqueue(run_queue, t)) = Queued \cup {t}
  BY <1>1, <1>2, EnqueueFresh DEF Queued
<1>4. Queued' = Queued \cup {t}
  BY <1>3 DEF thread_create, Queued
<1>5. Queued \subseteq Tasks
  BY IdleFacts DEF Queued
<1>6. QED
  BY <1>1, <1>2, <1>4, <1>5 DEF thread_create

\* The four callers of thread_create.
LEMMA CreationFacts ==
    ASSUME InductiveInv, Creation
    PROVE  \E t \in Tasks, n \in Nat, parent \in {0, pid[current]}, hs \in SUBSET Sigs :
              parent \in Nat /\ thread_create(t, n, parent, hs)
<1>1. /\ 0 \in Nat /\ pid[current] \in Nat /\ arg[current] \in Nat /\ nr_threads \in Nat
      /\ {} \in SUBSET Sigs /\ handlers[current] \in SUBSET Sigs
  BY DEF InductiveInv, TypeOK
<1>2. CASE user_program_execute
  BY <1>1, <1>2 DEF user_program_execute, NewPid
<1>3. CASE do_fork
  BY <1>1, <1>3 DEF do_fork, NewPid
<1>4. CASE do_fork_fails
  BY <1>1, <1>4 DEF do_fork_fails, NewPid
<1>5. CASE test_threads_create
  BY <1>1, <1>5 DEF test_threads_create
<1>6. QED
  BY <1>2, <1>3, <1>4, <1>5 DEF Creation

-----------------------------------------------------------------------------
(* Thread numbers *)

ShellPcs == {"prompt", "tt_read", "tt_create", "tt_yield"}

\* Numbers are below nr_threads, the shell's code is run by pid 1 alone, and the
\* number testThread has read is still the next one when it creates a thread.
PidInv ==
    /\ nr_threads >= 2
    /\ \A t \in Queued : pid[t] < nr_threads
    /\ \A t \in Queued : pc[t] \in ShellPcs => pid[t] = 1
    /\ \A t \in Queued : pc[t] = "tt_create" => arg[t] = nr_threads
    /\ "testThread" \notin Calls => \A t \in Queued : pc[t] \notin {"tt_read", "tt_create"}
    /\ PidsAreUnique

\* The shell's testThread reads nr_threads and writes it back with interrupts
\* enabled; a process that forks in between gets the same number.
NoPidRace == "testThread" \notin Calls \/ Calls \cap {"fork", "oom"} = {}

\* Positions outside of thread creation: nobody but the shell gets to its code.
PidMove(x) ==
    /\ Goto(x)
    /\ x \in ShellPcs => pid[current] = 1
    /\ x \in {"tt_read", "tt_create"} => "testThread" \in Calls
    /\ x = "tt_create" => arg'[current] = nr_threads
    /\ \A t \in Tasks : t # current => arg'[t] = arg[t]

LEMMA PidMoveKeeps ==
    ASSUME InductiveInv, PidInv, UNCHANGED <<pid, nr_threads>>, Queued' \subseteq Queued,
           NEW x, PidMove(x)
    PROVE  PidInv'
<1>1. current \in Tasks /\ pc \in [Tasks -> Pcs] /\ Queued \subseteq Tasks
  BY IdleFacts DEF InductiveInv, TypeOK, Queued
<1>2. \A t \in Tasks : pc'[t] = IF t = current THEN x ELSE pc[t]
  BY <1>1 DEF PidMove, Goto
<1>3. ASSUME NEW t \in Queued'
      PROVE  /\ t \in Queued /\ t \in Tasks /\ pid'[t] = pid[t]
             /\ pid'[t] < nr_threads'
             /\ pc'[t] \in ShellPcs => pid'[t] = 1
             /\ pc'[t] = "tt_create" => arg'[t] = nr_threads'
             /\ "testThread" \notin Calls => pc'[t] \notin {"tt_read", "tt_create"}
  <2>1. t \in Queued /\ t \in Tasks
    BY <1>1
  <2>2. CASE t = current
    BY <1>2, <2>1, <2>2 DEF PidMove, PidInv
  <2>3. CASE t # current
    BY <1>2, <2>1, <2>3 DEF PidMove, PidInv
  <2>4. QED BY <2>1, <2>2, <2>3
<1>4. PidsAreUnique'
  BY <1>3 DEF PidInv, PidsAreUnique, Queued
<1>5. QED
  BY <1>3, <1>4 DEF PidInv

\* A new thread with the next number.
LEMMA PidCreateKeeps ==
    ASSUME InductiveInv, PidInv, NEW t \in Tasks, NEW parent \in Nat, NEW hs,
           thread_create(t, nr_threads, parent, hs),
           \A u \in Queued : pc[u] = "tt_create" => u = current,
           NEW x \in {"user", "foo", "raw"}, NEW y \in {"exec_return", "ret", "tt_read"},
           y = "tt_read" => pc[current] = "tt_create",
           pc' = [pc EXCEPT ![t] = x, ![current] = y]
    PROVE  PidInv'
<1>1. nr_threads \in Nat /\ pc \in [Tasks -> Pcs] /\ current \in Tasks
  BY DEF InductiveInv, TypeOK
<1>2. /\ t \notin Queued /\ t # current /\ current \in Queued
      /\ Queued' = Queued \cup {t}
      /\ pid'[t] = nr_threads /\ nr_threads' = nr_threads + 1
      /\ \A u \in Queued : u \in Tasks /\ u # t /\ pid'[u] = pid[u]
  BY <1>1, CreateFacts
<1>3. \A u \in Queued : pid[u] < nr_threads /\ pid[u] \in Nat
  BY <1>2 DEF PidInv, InductiveInv, TypeOK
<1>4. \A u \in Tasks : pc'[u] = IF u = current THEN y ELSE IF u = t THEN x ELSE pc[u]
  BY <1>1, <1>2
<1>5. nr_threads' >= 2 /\ \A u \in Queued' : pid'[u] < nr_threads'
  BY <1>1, <1>2, <1>3 DEF PidInv
<1>6. \A u \in Queued' : pc'[u] \in ShellPcs => pid'[u] = 1
  BY <1>2, <1>4 DEF PidInv, ShellPcs
<1>7. \A u \in Queued' : pc'[u] # "tt_create"
  BY <1>2, <1>4
<1>8. "testThread" \notin Calls => \A u \in Queued' : pc'[u] \notin {"tt_read", "tt_create"}
  BY <1>2, <1>4 DEF PidInv
<1>9. PidsAreUnique'
  <2>1. \A u, v \in Queued : pid[u] = pid[v] => u = v
    BY DEF PidInv, PidsAreUnique, Queued
  <2>2. \A u \in Queued : pid'[u] # pid'[t]
    BY <1>1, <1>2, <1>3
  <2>3. \A u, v \in Queued' : pid'[u] = pid'[v] => u = v
    BY <1>2, <2>1, <2>2
  <2>4. QED BY <2>3 DEF PidsAreUnique, Queued
<1>10. QED
  BY <1>5, <1>6, <1>7, <1>8, <1>9 DEF PidInv

LEMMA PidStep ==
    ASSUME NoPidRace, InductiveInv, PidInv, [Next]_vars
    PROVE  PidInv'
<1>1. /\ current \in Queued /\ current \in Tasks /\ nr_threads \in Nat
      /\ pid \in [Tasks -> Nat] /\ arg \in [Tasks -> Nat] /\ pc \in [Tasks -> Pcs]
      /\ \A u, v \in Queued : pid[u] = pid[v] => u = v
  BY DEF InductiveInv, RunInv, TypeOK, Queued, PidInv, PidsAreUnique
\* While the shell's code runs, nobody else is in testThread.
<1>2. ASSUME pc[current] \in ShellPcs
      PROVE  \A u \in Queued : pc[u] = "tt_create" => u = current
  <2>1. \A u \in Queued : pc[u] = "tt_create" => pid[u] = 1
    BY DEF PidInv, ShellPcs
  <2>2. pid[current] = 1
    BY <1>1, <1>2 DEF PidInv
  <2>3. QED BY <1>1, <2>1, <2>2
<1>3. ASSUME "fork" \in Calls \/ "oom" \in Calls
      PROVE  \A u \in Queued : pc[u] # "tt_create"
  BY <1>3 DEF NoPidRace, PidInv
<1>4. CASE user_program_execute
  <2>1. PICK t \in Tasks : /\ thread_create(t, nr_threads, pid[current], {})
                           /\ pc' = [pc EXCEPT ![t] = "user", ![current] = "exec_return"]
    BY <1>4 DEF user_program_execute, NewPid
  <2>2. pid[current] \in Nat /\ pc[current] \in ShellPcs
    BY <1>1, <1>4 DEF user_program_execute, ShellPcs
  <2>3. QED BY <1>2, <2>1, <2>2, PidCreateKeeps
<1>5. CASE do_fork
  <2>1. PICK t \in Tasks : /\ thread_create(t, nr_threads, pid[current], handlers[current])
                           /\ pc' = [pc EXCEPT ![t] = "user", ![current] = "ret"]
    BY <1>5 DEF do_fork, NewPid
  <2>2. pid[current] \in Nat /\ "fork" \in Calls
    BY <1>1, <1>5 DEF do_fork, Calling
  <2>3. QED BY <1>3, <2>1, <2>2, PidCreateKeeps
<1>6. CASE do_fork_fails
  <2>1. PICK t \in Tasks : /\ thread_create(t, nr_threads, 0, {})
                           /\ pc' = [pc EXCEPT ![t] = "raw", ![current] = "ret"]
    BY <1>6 DEF do_fork_fails, NewPid
  <2>2. "oom" \in Calls
    BY <1>6 DEF do_fork_fails, Calling
  <2>3. QED BY <1>3, <2>1, <2>2, PidCreateKeeps
<1>7. CASE test_threads_create
  <2>1. pc[current] = "tt_create" /\ pc[current] \in ShellPcs
    BY <1>7 DEF test_threads_create, ShellPcs
  <2>2. arg[current] = nr_threads
    BY <1>1, <2>1 DEF PidInv
  <2>3. PICK t \in Tasks : /\ thread_create(t, nr_threads, 0, {})
                           /\ pc' = [pc EXCEPT ![t] = "foo", ![current] = "tt_read"]
    BY <1>7, <2>2 DEF test_threads_create
  <2>4. QED BY <1>2, <2>1, <2>3, PidCreateKeeps
<1>8. ASSUME ~Creation PROVE UNCHANGED <<pid, nr_threads>> /\ Queued' \subseteq Queued
  BY <1>8, QueueOnlyShrinks
<1>9. ASSUME NEW x, PidMove(x), UNCHANGED <<pid, nr_threads>>, Queued' \subseteq Queued
      PROVE  PidInv'
  BY <1>9, PidMoveKeeps
<1>10. CASE ~Creation
  <2> DEFINE Quiet == {"ret", "gone", "user", "uart", "kz_free", "yield", "kz", "wp_read",
                       "wp_scan", "wp_yield"}
  <2>1. ASSUME NEW x \in Quiet, Goto(x), \A t \in Tasks : t # current => arg'[t] = arg[t]
        PROVE  PidInv'
    <3>1. PidMove(x)
      BY <2>1 DEF PidMove, ShellPcs
    <3>2. QED BY <1>8, <1>9, <1>10, <3>1
  <2>2. CASE test_threads
    <3>1. PidMove("tt_read")
      BY <1>1, <2>2 DEF PidMove, test_threads, PidInv, ShellPcs
    <3>2. QED BY <1>8, <1>9, <1>10, <3>1
  <2>3. CASE test_threads_read
    <3>1. /\ pc[current] = "tt_read" /\ arg' = [arg EXCEPT ![current] = nr_threads]
          /\ UNCHANGED nr_threads /\ (Goto("tt_yield") \/ Goto("tt_create"))
      BY <2>3 DEF test_threads_read
    <3>2. pid[current] = 1 /\ "testThread" \in Calls
      BY <1>1, <3>1 DEF PidInv, ShellPcs
    <3>3. PidMove("tt_yield") \/ PidMove("tt_create")
      BY <1>1, <3>1, <3>2 DEF PidMove
    <3>4. QED BY <1>8, <1>9, <1>10, <3>3
  <2>4. CASE test_threads_yield
    <3>1. PidMove("prompt")
      BY <1>1, <2>4 DEF PidMove, test_threads_yield, PidInv, ShellPcs
    <3>2. QED BY <1>8, <1>9, <1>10, <3>1
  <2>5. CASE do_waitpid_scan
    <3>1. \A t \in Tasks : t # current => arg'[t] = arg[t]
      BY <1>1, <2>5 DEF do_waitpid_scan
    <3>2. CASE Goto("wp_yield") \/ Goto("ret")
      BY <2>1, <3>1, <3>2
    <3>3. CASE Goto("prompt") /\ pid[current] = 1
      <4>1. PidMove("prompt")
        BY <3>1, <3>3 DEF PidMove
      <4>2. QED BY <1>8, <1>9, <1>10, <4>1
    <3>4. QED BY <2>5, <3>2, <3>3 DEF do_waitpid_scan, Home, IsShell
  <2>6. CASE timer_interrupt
    <3>1. PICK k \in 0..Len(timers), resched \in BOOLEAN : core_timer_handler(k, resched)
      BY <2>6 DEF timer_interrupt
    <3>2. arg' = arg /\ (Goto("ret") \/ pc' = pc)
      BY <3>1 DEF core_timer_handler
    <3>3. CASE Goto("ret")
      BY <2>1, <3>2, <3>3
    <3>4. CASE pc' = pc
      BY <1>8, <1>10, <3>2, <3>4 DEF PidInv, PidsAreUnique, Queued
    <3>5. QED BY <3>2, <3>3, <3>4
  <2>7. CASE UNCHANGED vars
    BY <2>7 DEF vars, PidInv, PidsAreUnique, Queued
  <2>8. CASE \/ thread_exit \/ do_kill \/ kill_zombies_free \/ idle_yield \/ do_waitpid_read
             \/ do_waitpid_yield \/ do_usleep \/ do_signal \/ signal_check \/ do_sigreturn
    <3>1. arg' = arg /\ \E x \in Quiet : Goto(x)
      BY <2>8 DEF thread_exit, do_kill, kill_zombies_free, idle_yield, do_waitpid_read,
         do_waitpid_yield, do_usleep, do_signal, signal_check, do_sigreturn
    <3>2. QED BY <2>1, <3>1
  <2>9. CASE do_stop \/ kill_zombies \/ uart_syscall
    <3>1. arg' = arg /\ \E x \in Quiet : Goto(x)
      BY <2>9 DEF do_stop, kill_zombies, uart_syscall
    <3>2. QED BY <2>1, <3>1
  <2>10. CASE waitpid_call \/ user_program_execute_returns
    <3>1. Goto("wp_read") /\ \A t \in Tasks : t # current => arg'[t] = arg[t]
      BY <1>1, <2>10 DEF waitpid_call, user_program_execute_returns
    <3>2. QED BY <2>1, <3>1
  <2>11. QED
    BY <1>10, <2>2, <2>3, <2>4, <2>5, <2>6, <2>7, <2>8, <2>9, <2>10
       DEF Next, KernelStep, Call, Creation
<1>11. QED
  BY <1>4, <1>5, <1>6, <1>7, <1>10 DEF Creation

\* main leaves idle and the shell in the queue.
LEMMA QueuedInit == Init => Queued = {Idle, Shell}
<1> SUFFICES ASSUME Init PROVE Queued = {Idle, Shell}
  OBVIOUS
<1> DEFINE q == <<Idle, Shell>>
<1>1. DOMAIN q = 1..2 /\ q[1] = Idle /\ q[2] = Shell
  OBVIOUS
<1> HIDE DEF q
<1>2. 1 \in DOMAIN q /\ 2 \in DOMAIN q /\ \A i \in DOMAIN q : i = 1 \/ i = 2
  BY <1>1
<1>3. Range(q) = {Idle, Shell}
  BY <1>1, <1>2 DEF Range
<1>4. run_queue = q
  BY DEF Init, q
<1>5. QED
  BY <1>3, <1>4 DEF Queued

LEMMA PidInit == Init => PidInv
<1> SUFFICES ASSUME Init PROVE PidInv
  OBVIOUS
<1>1. Queued = {Idle, Shell}
  BY QueuedInit
<1>2. /\ nr_threads = 2 /\ Idle # Shell /\ Idle \in Tasks /\ Shell \in Tasks
      /\ pid[Idle] = 0 /\ pid[Shell] = 1 /\ pc[Idle] = "kz" /\ pc[Shell] = "prompt"
  BY ConstantsAssumption DEF Init
<1>3. PidsAreUnique
  BY <1>1, <1>2 DEF PidsAreUnique, Queued
<1>4. QED
  BY <1>1, <1>2, <1>3 DEF PidInv, ShellPcs

\* Two threads never share a number, however threads come and go, unless
\* testThread's three threads are created while processes fork.
THEOREM NumbersAreUnique == NoPidRace => (Spec => []PidsAreUnique)
<1> SUFFICES ASSUME NoPidRace PROVE Spec => []PidsAreUnique
  OBVIOUS
<1>1. InductiveInv /\ PidInv /\ [Next]_vars => PidInv'
  BY PidStep
<1>2. PidInv => PidsAreUnique
  BY DEF PidInv
<1>3. QED
  BY <1>1, <1>2, PidInit, Invariance, PTL DEF Spec

-----------------------------------------------------------------------------
(* Sleepers *)

Event == [task : Tasks, by : Nat]
\* The timer events hold the one that wakes t.
Wakes(q, t, p) == \E i \in DOMAIN q : q[i].task = t /\ q[i].by = p

\* Adding an event leaves the others, and removing the first k those after.
LEMMA EventsKept ==
    ASSUME NEW q \in Seq(Event)
    PROVE  /\ \A i \in 1..(Len(q) + 1), e \in Event :
                /\ Wakes(InsertAt(q, i, e), e.task, e.by)
                /\ \A t, p : Wakes(q, t, p) => Wakes(InsertAt(q, i, e), t, p)
           /\ \A k \in 0..Len(q) : \A t, p :
                Wakes(q, t, p) => \/ Wakes(SubSeq(q, k + 1, Len(q)), t, p)
                                  \/ \E i \in 1..k : q[i].task = t
<1>1. Len(q) \in Nat /\ DOMAIN q = 1..Len(q)
  BY LenProperties
<1>2. ASSUME NEW i \in 1..(Len(q) + 1), NEW e \in Event
      PROVE  /\ Wakes(InsertAt(q, i, e), e.task, e.by)
             /\ \A t, p : Wakes(q, t, p) => Wakes(InsertAt(q, i, e), t, p)
  <2> DEFINE r == InsertAt(q, i, e)
  <2>1. /\ r \in Seq(Event) /\ Len(r) = Len(q) + 1
        /\ \A j \in 1..(Len(q) + 1) : r[j] = IF j < i THEN q[j] ELSE IF j = i THEN e ELSE q[j - 1]
    BY <1>2, InsertAtElements
  <2> HIDE DEF r
  <2>2. DOMAIN r = 1..(Len(q) + 1)
    BY <2>1, LenProperties
  <2>3. r[i] = e
    BY <1>1, <1>2, <2>1
  <2>4. ASSUME NEW j \in DOMAIN q PROVE \E m \in DOMAIN r : r[m] = q[j]
    <3>1. CASE j < i
      BY <1>1, <1>2, <2>1, <2>2, <2>4, <3>1
    <3>2. CASE ~(j < i)
      <4>1. j + 1 \in 1..(Len(q) + 1) /\ ~(j + 1 < i) /\ j + 1 # i /\ j + 1 - 1 = j
        BY <1>1, <1>2, <2>4, <3>2
      <4>2. QED BY <2>1, <2>2, <4>1
    <3>3. QED BY <3>1, <3>2
  <2>5. Wakes(r, e.task, e.by)
    BY <1>2, <2>2, <2>3 DEF Wakes
  <2>6. \A t, p : Wakes(q, t, p) => Wakes(r, t, p)
    BY <2>4 DEF Wakes
  <2>7. QED BY <2>5, <2>6 DEF r
<1>3. ASSUME NEW k \in 0..Len(q), NEW t, NEW p, Wakes(q, t, p)
      PROVE  \/ Wakes(SubSeq(q, k + 1, Len(q)), t, p)
             \/ \E i \in 1..k : q[i].task = t
  <2>1. PICK i \in 1..Len(q) : q[i].task = t /\ q[i].by = p
    BY <1>1, <1>3 DEF Wakes
  <2>2. CASE i <= k
    <3>1. i \in 1..k
      BY <1>1, <1>3, <2>1, <2>2
    <3>2. QED BY <2>1, <3>1
  <2>3. CASE ~(i <= k)
    <3> DEFINE r == SubSeq(q, k + 1, Len(q))
    <3>1. /\ k + 1 \in 1..(Len(q) + 1) /\ Len(q) \in 0..Len(q) /\ k + 1 <= Len(q) + 1
          /\ i - k \in 1..(Len(q) - (k + 1) + 1) /\ k + 1 + (i - k) - 1 = i
      BY <1>1, <1>3, <2>1, <2>3
    <3>2. /\ r \in Seq(Event) /\ Len(r) = Len(q) - (k + 1) + 1 /\ r[i - k] = q[i]
      BY <3>1, PartElements
    <3> HIDE DEF r
    <3>3. i - k \in DOMAIN r
      BY <3>1, <3>2, LenProperties
    <3>4. Wakes(r, t, p)
      BY <2>1, <3>2, <3>3 DEF Wakes
    <3>5. QED BY <3>4 DEF r
  <2>4. QED BY <2>2, <2>3
<1>4. QED
  BY <1>2, <1>3

\* A step that adds or changes no sleeper and no event.
LEMMA SleepFrame ==
    ASSUME SleeperHasTimer, Queued' \subseteq Queued, UNCHANGED <<pid, timers>>,
           \A t \in Queued : state'[t] = "SLEEPING" => state[t] = "SLEEPING"
    PROVE  SleeperHasTimer'
  BY DEF SleeperHasTimer, Queued

LEMMA SleepStep ==
    ASSUME "oom" \notin Calls, InductiveInv, SleeperHasTimer, [Next]_vars
    PROVE  SleeperHasTimer'
<1>1. /\ current \in Tasks /\ state \in [Tasks -> States] /\ Queued \subseteq Tasks
      /\ pid \in [Tasks -> Nat]
  BY IdleFacts DEF InductiveInv, TypeOK, Queued
<1>2. timers \in Seq(Event)
  BY DEF InductiveInv, TypeOK, Event
<1>3. ASSUME NEW t \in Queued, state[t] = "SLEEPING" PROVE Wakes(timers, t, pid[t])
  BY <1>3 DEF SleeperHasTimer, Wakes, Queued
<1>4. ASSUME \A t \in Queued' : state'[t] = "SLEEPING" => Wakes(timers', t, pid'[t])
      PROVE  SleeperHasTimer'
  BY <1>4 DEF SleeperHasTimer, Wakes, Queued
<1>5. CASE Creation
  <2>1. PICK t \in Tasks, n \in Nat, parent \in Nat, hs \in SUBSET Sigs :
            thread_create(t, n, parent, hs)
    BY <1>5, CreationFacts
  <2>2. UNCHANGED timers
    BY <1>5 DEF Creation, user_program_execute, do_fork, do_fork_fails, test_threads_create
  <2>3. /\ Queued' = Queued \cup {t} /\ state'[t] = "RUNNING"
        /\ \A u \in Queued : u # t /\ pid'[u] = pid[u] /\ state'[u] = state[u]
    BY <2>1, CreateFacts
  <2>4. QED BY <1>3, <1>4, <2>2, <2>3
<1>6. ASSUME ~Creation PROVE UNCHANGED pid /\ Queued' \subseteq Queued
  BY <1>6, QueueOnlyShrinks
<1>7. CASE do_usleep
  <2>1. Queued' \subseteq Queued /\ UNCHANGED pid
    BY <1>7 DEF do_usleep, Queued
  <2>2. CASE UNCHANGED <<state, timers>>
    BY <2>1, <2>2, SleepFrame
  <2>3. CASE /\ state' = [state EXCEPT ![current] = "SLEEPING"]
             /\ \E i \in 1..(Len(timers) + 1) :
                    timers' = InsertAt(timers, i, [task |-> current, by |-> pid[current]])
    <3> DEFINE e == [task |-> current, by |-> pid[current]]
    <3>1. e \in Event /\ e.task = current /\ e.by = pid[current]
      BY <1>1 DEF Event
    <3>2. PICK i \in 1..(Len(timers) + 1) : timers' = InsertAt(timers, i, e)
      BY <2>3
    <3> HIDE DEF e
    <3>3. /\ Wakes(timers', current, pid[current])
          /\ \A t, p : Wakes(timers, t, p) => Wakes(timers', t, p)
      BY <1>2, <3>1, <3>2, EventsKept
    <3>4. \A t \in Queued : t # current => state'[t] = state[t]
      BY <1>1, <2>3
    <3>5. QED BY <1>3, <1>4, <2>1, <3>3, <3>4
  <2>4. QED BY <1>7, <2>2, <2>3 DEF do_usleep
<1>8. CASE timer_interrupt
  <2>1. PICK k \in 0..Len(timers), resched \in BOOLEAN : core_timer_handler(k, resched)
    BY <1>8 DEF timer_interrupt
  <2>2. /\ state' = wakeup_callback(k) /\ timers' = SubSeq(timers, k + 1, Len(timers))
        /\ Queued' = Queued /\ UNCHANGED pid
    BY <2>1 DEF core_timer_handler, Queued
  <2>3. ASSUME NEW t \in Queued, state'[t] = "SLEEPING" PROVE Wakes(timers', t, pid[t])
    <3>1. state[t] = "SLEEPING" /\ ~ \E i \in 1..k : timers[i].task = t
      BY <1>1, <2>2, <2>3 DEF wakeup_callback
    <3>2. QED BY <1>2, <1>3, <2>2, <3>1, EventsKept
  <2>4. QED BY <1>4, <2>2, <2>3
<1>9. CASE ~Creation /\ (thread_exit \/ do_stop \/ do_kill \/ signal_check)
  <2>1. \A t \in Tasks : state'[t] = "SLEEPING" => state[t] = "SLEEPING"
    BY <1>1, <1>9 DEF thread_exit, do_stop, do_kill, signal_check
  <2>2. UNCHANGED timers
    BY <1>9 DEF thread_exit, do_stop, do_kill, signal_check
  <2>3. QED BY <1>1, <1>6, <1>9, <2>1, <2>2, SleepFrame
<1>10. CASE /\ ~Creation
            /\ \/ test_threads \/ test_threads_read \/ test_threads_yield \/ kill_zombies
               \/ kill_zombies_free \/ idle_yield \/ waitpid_call \/ user_program_execute_returns
               \/ do_waitpid_read
               \/ do_waitpid_scan \/ do_waitpid_yield \/ do_signal \/ do_sigreturn
               \/ uart_syscall \/ UNCHANGED vars
  <2>1. UNCHANGED <<state, timers>>
    BY <1>10 DEF test_threads, test_threads_read, test_threads_yield, kill_zombies,
       kill_zombies_free, idle_yield, waitpid_call, user_program_execute_returns,
       do_waitpid_read, do_waitpid_scan, do_waitpid_yield, do_signal, do_sigreturn,
       uart_syscall, vars, taskVars
  <2>2. QED BY <1>6, <1>10, <2>1, SleepFrame
<1>11. QED
  BY <1>5, <1>7, <1>8, <1>9, <1>10 DEF Next, KernelStep, Call, Creation

\* While memory for timer events lasts, no wakeup is lost: a sleeping thread's
\* own event is pending, whatever other threads' and dead threads' events are.
THEOREM NoWakeupIsLost == "oom" \notin Calls => (Spec => []SleeperHasTimer)
<1> SUFFICES ASSUME "oom" \notin Calls PROVE Spec => []SleeperHasTimer
  OBVIOUS
<1>1. Init => SleeperHasTimer
  <2> SUFFICES ASSUME Init PROVE \A t \in Queued : state[t] # "SLEEPING"
    BY DEF SleeperHasTimer, Queued
  <2>1. Queued \subseteq Tasks
    BY InvInit, IdleFacts DEF Queued
  <2>2. QED BY <2>1 DEF Init
<1>2. InductiveInv /\ SleeperHasTimer /\ [Next]_vars => SleeperHasTimer'
  BY SleepStep
<1>3. QED
  BY <1>1, <1>2, Invariance, PTL DEF Spec

-----------------------------------------------------------------------------
(* Parents *)

\* Every thread of the queue is an orphan or has a parent that lives.
ParentInv ==
    \A z \in Queued : ppid[z] = 0 \/ \E t \in Queued : pid[t] = ppid[z] /\ state[t] # "ZOMBIE"

\* do_stop and do_kill leave the children of the task they end as they are.
NoKilling == Calls \cap {"stop", "kill"} = {}

\* A step that ends nobody and changes no parent.
LEMMA ParentFrame ==
    ASSUME InductiveInv, ParentInv, [Next]_vars, ~Creation, UNCHANGED ppid,
           \A t \in Tasks : state[t] # "ZOMBIE" => state'[t] # "ZOMBIE"
    PROVE  ParentInv'
<1>1. /\ UNCHANGED pid /\ Queued' \subseteq Queued /\ Queued \subseteq Tasks
      /\ \A t \in Queued \ Queued' : state[t] = "ZOMBIE"
  BY QueueOnlyShrinks, IdleFacts DEF Queued
<1>2. ASSUME NEW z \in Queued', ppid'[z] # 0
      PROVE  \E t \in Queued' : pid'[t] = ppid'[z] /\ state'[t] # "ZOMBIE"
  <2>1. PICK t \in Queued : pid[t] = ppid[z] /\ state[t] # "ZOMBIE"
    BY <1>1, <1>2 DEF ParentInv
  <2>2. t \in Queued' /\ state'[t] # "ZOMBIE"
    BY <1>1, <2>1
  <2>3. QED BY <1>1, <2>1, <2>2
<1>3. QED
  BY <1>2 DEF ParentInv

LEMMA ParentStep ==
    ASSUME NoKilling, InductiveInv, ParentInv, [Next]_vars
    PROVE  ParentInv'
<1>1. /\ current \in Tasks /\ state \in [Tasks -> States] /\ Queued \subseteq Tasks
      /\ current \in Queued /\ state[current] = "RUNNING"
      /\ pid \in [Tasks -> Nat] /\ ppid \in [Tasks -> Nat]
  BY IdleFacts DEF InductiveInv, TypeOK, Queued, RunInv
<1>2. CASE Creation
  <2>1. PICK t \in Tasks, n \in Nat, parent \in {0, pid[current]}, hs \in SUBSET Sigs :
            parent \in Nat /\ thread_create(t, n, parent, hs)
    BY <1>2, CreationFacts
  <2>2. /\ Queued' = Queued \cup {t} /\ ppid'[t] = parent
        /\ \A u \in Queued : /\ pid'[u] = pid[u] /\ ppid'[u] = ppid[u]
                             /\ state'[u] = state[u]
    BY <2>1, CreateFacts
  <2>3. ppid'[t] = 0 \/ (pid'[current] = ppid'[t] /\ state'[current] # "ZOMBIE")
    BY <1>1, <2>1, <2>2
  <2>4. ASSUME NEW z \in Queued
        PROVE  ppid'[z] = 0 \/ \E u \in Queued : pid'[u] = ppid'[z] /\ state'[u] # "ZOMBIE"
    BY <2>2 DEF ParentInv
  <2>5. ASSUME NEW z \in Queued'
        PROVE  ppid'[z] = 0 \/ \E u \in Queued' : pid'[u] = ppid'[z] /\ state'[u] # "ZOMBIE"
    BY <1>1, <2>2, <2>3, <2>4
  <2>6. QED BY <2>5 DEF ParentInv
<1>3. CASE thread_exit
  <2>1. /\ state' = [state EXCEPT ![current] = "ZOMBIE"] /\ ppid' = Reparented
        /\ Queued' = Queued /\ UNCHANGED pid
    BY <1>3 DEF thread_exit, Queued
  <2>2. ASSUME NEW z \in Queued, ppid'[z] # 0
        PROVE  \E t \in Queued : pid[t] = ppid'[z] /\ state'[t] # "ZOMBIE"
    <3>1. ppid'[z] = ppid[z] /\ ppid[z] # pid[current]
      BY <1>1, <2>1, <2>2 DEF Reparented, Queued
    <3>2. PICK t \in Queued : pid[t] = ppid[z] /\ state[t] # "ZOMBIE"
      BY <2>2, <3>1 DEF ParentInv
    <3>3. state'[t] = state[t]
      BY <1>1, <2>1, <3>1, <3>2
    <3>4. QED BY <3>1, <3>2, <3>3
  <2>3. QED BY <2>1, <2>2 DEF ParentInv
<1>4. CASE ~Creation /\ timer_interrupt
  <2>1. PICK k \in 0..Len(timers), resched \in BOOLEAN : core_timer_handler(k, resched)
    BY <1>4 DEF timer_interrupt
  <2>2. UNCHANGED ppid /\ \A t \in Tasks : state[t] # "ZOMBIE" => state'[t] # "ZOMBIE"
    BY <1>1, <2>1 DEF core_timer_handler, wakeup_callback
  <2>3. QED BY <1>4, <2>2, ParentFrame
<1>5. CASE ~Creation /\ do_usleep
  <2>1. UNCHANGED ppid /\ \A t \in Tasks : state[t] # "ZOMBIE" => state'[t] # "ZOMBIE"
    BY <1>1, <1>5 DEF do_usleep
  <2>2. QED BY <1>5, <2>1, ParentFrame
<1>6. CASE ~Creation /\ signal_check
  <2>1. pending[current] \subseteq handlers[current]
    BY <1>1 DEF InductiveInv, RunInv
  <2>2. UNCHANGED <<state, ppid>>
    BY <1>6, <2>1 DEF signal_check
  <2>3. QED BY <1>6, <2>2, ParentFrame
<1>7. CASE do_stop \/ do_kill
  BY <1>7 DEF do_stop, do_kill, Calling, NoKilling
<1>8. CASE /\ ~Creation
           /\ \/ test_threads \/ test_threads_read \/ test_threads_yield \/ kill_zombies
              \/ kill_zombies_free \/ idle_yield \/ waitpid_call \/ user_program_execute_returns
              \/ do_waitpid_read
              \/ do_waitpid_scan \/ do_waitpid_yield \/ do_signal \/ do_sigreturn
              \/ uart_syscall \/ UNCHANGED vars
  <2>1. UNCHANGED <<state, ppid>>
    BY <1>8 DEF test_threads, test_threads_read, test_threads_yield, kill_zombies,
       kill_zombies_free, idle_yield, waitpid_call, user_program_execute_returns,
       do_waitpid_read, do_waitpid_scan, do_waitpid_yield, do_signal, do_sigreturn,
       uart_syscall, vars, taskVars
  <2>2. QED BY <1>8, <2>1, ParentFrame
<1>9. QED
  BY <1>2, <1>3, <1>4, <1>5, <1>6, <1>7, <1>8 DEF Next, KernelStep, Call, Creation

\* While threads end by themselves, and not by stop or kill, every zombie is
\* reaped by somebody: idle frees the orphans, and a living parent may wait.
THEOREM ZombiesHaveReapers == NoKilling => (Spec => []ZombieHasReaper)
<1> SUFFICES ASSUME NoKilling PROVE Spec => []ZombieHasReaper
  OBVIOUS
<1>1. Init => ParentInv
  <2> SUFFICES ASSUME Init PROVE \A t \in Queued : ppid[t] = 0
    BY DEF ParentInv
  <2>1. Queued \subseteq Tasks
    BY InvInit, IdleFacts DEF Queued
  <2>2. QED BY <2>1 DEF Init
<1>2. InductiveInv /\ ParentInv /\ [Next]_vars => ParentInv'
  BY ParentStep
<1>3. ParentInv => ZombieHasReaper
  BY DEF ParentInv, ZombieHasReaper, Queued
<1>4. QED
  BY <1>1, <1>2, <1>3, Invariance, PTL DEF Spec

-----------------------------------------------------------------------------
(* The processes behind the task structures *)

LifeInv == InductiveInv /\ PidInv /\ nr_threads <= MaxPid

\* What the abstract process table says, task by task and number by number.
Mapping ==
    /\ \A t \in Queued : /\ pid[t] \in Pids /\ pid[t] < nr_threads /\ Known(pid[t])
                         /\ Lives[pid[t]] = Life(t) /\ Parents[pid[t]] = ppid[t]
    /\ \A n \in Pids : ~Known(n) =>
           Lives[n] = (IF n >= nr_threads THEN "unused" ELSE "collected") /\ Parents[n] = 0
    /\ Lives = [n \in Pids |-> Lives[n]] /\ Parents = [n \in Pids |-> Parents[n]]

LEMMA MapFacts == LifeInv => Mapping
<1> SUFFICES ASSUME LifeInv PROVE Mapping
  OBVIOUS
<1>1. /\ MaxPid \in Nat /\ nr_threads \in Nat /\ nr_threads <= MaxPid
      /\ \A t \in Queued : pid[t] \in Nat /\ pid[t] < nr_threads
      /\ \A s, t \in Queued : pid[s] = pid[t] => s = t
  <2>1. Queued \subseteq Tasks
    BY IdleFacts DEF LifeInv, Queued
  <2>2. pid \in [Tasks -> Nat] /\ nr_threads \in Nat
    BY DEF LifeInv, InductiveInv, TypeOK
  <2>3. QED BY <2>1, <2>2, ConstantsAssumption DEF LifeInv, PidInv, PidsAreUnique, Queued
<1>2. ASSUME NEW t \in Queued
      PROVE  /\ pid[t] \in Pids /\ pid[t] < nr_threads /\ Known(pid[t])
             /\ Lives[pid[t]] = Life(t) /\ Parents[pid[t]] = ppid[t]
  <2>1. pid[t] \in Pids /\ pid[t] < nr_threads /\ ~(pid[t] >= nr_threads)
    BY <1>1 DEF Pids
  <2>2. Known(pid[t])
    BY DEF Known
  <2>3. Named(pid[t]) = t
    BY <1>1 DEF Named
  <2>4. QED BY <2>1, <2>2, <2>3 DEF Lives, Parents
<1>3. ASSUME NEW n \in Pids, ~Known(n)
      PROVE  Lives[n] = (IF n >= nr_threads THEN "unused" ELSE "collected") /\ Parents[n] = 0
  BY <1>3 DEF Lives, Parents
<1>4. Lives = [n \in Pids |-> Lives[n]] /\ Parents = [n \in Pids |-> Parents[n]]
  BY DEF Lives, Parents
<1>5. QED
  BY <1>2, <1>3, <1>4 DEF Mapping

\* A function that differs from another at most at n.
LEMMA DiffersAt ==
    ASSUME NEW S, NEW f, NEW g, f = [m \in S |-> f[m]], g = [m \in S |-> g[m]],
           NEW n \in S, NEW x, g[n] = x, \A m \in S : m # n => g[m] = f[m]
    PROVE  g = [f EXCEPT ![n] = x]
  OBVIOUS

\* Whoever is on the CPU after a step is ready.
LEMMA Dispatches ==
    ASSUME LifeInv'
    PROVE  Processes!Dispatch
<1>1. Mapping'
  BY MapFacts, PTL
<1>2. PICK t : t = current'
  OBVIOUS
<1>3. t \in Queued' /\ state'[t] = "RUNNING"
  BY <1>2 DEF LifeInv, InductiveInv, RunInv, Queued
<1>4. pid'[t] \in Pids /\ Lives'[pid'[t]] = Life(t)'
  BY <1>1, <1>3 DEF Mapping
<1>5. Life(t)' = "ready"
  BY <1>3 DEF Life
<1>6. QED
  BY <1>2, <1>4, <1>5 DEF Processes!Dispatch

\* What a step that neither links nor unlinks a task does to a number.
LEMMA NumberKept ==
    ASSUME LifeInv, LifeInv', UNCHANGED <<run_queue, pid, nr_threads>>, NEW n \in Pids
    PROVE  /\ (\A t \in Queued : pid[t] = n => state'[t] = state[t]) => Lives'[n] = Lives[n]
           /\ (\A t \in Queued : pid[t] = n => ppid'[t] = ppid[t]) => Parents'[n] = Parents[n]
<1>1. Mapping /\ Mapping'
  BY MapFacts, PTL
<1>2. Queued' = Queued /\ (Known(n)' <=> Known(n))
  BY DEF Queued, Known
<1>3. CASE Known(n)
  <2>1. PICK t \in Queued : pid[t] = n
    BY <1>3 DEF Known
  <2>2. /\ Lives[n] = Life(t) /\ Lives'[n] = Life(t)'
        /\ Parents[n] = ppid[t] /\ Parents'[n] = ppid'[t]
    BY <1>1, <1>2, <2>1 DEF Mapping
  <2>3. state'[t] = state[t] => Life(t)' = Life(t)
    BY DEF Life
  <2>4. QED BY <2>1, <2>2, <2>3
<1>4. CASE ~Known(n)
  <2>1. ~Known(n)' /\ nr_threads' = nr_threads
    BY <1>2, <1>4
  <2>2. Lives[n] = (IF n >= nr_threads THEN "unused" ELSE "collected") /\ Parents[n] = 0
    BY <1>1, <1>4 DEF Mapping
  <2>3. Lives'[n] = (IF n >= nr_threads' THEN "unused" ELSE "collected") /\ Parents'[n] = 0
    BY <1>1, <2>1 DEF Mapping
  <2>4. QED BY <2>1, <2>2, <2>3
<1>5. QED
  BY <1>3, <1>4

\* The same for a step in which one task's fields change at most.
LEMMA OneTaskChanges ==
    ASSUME LifeInv, LifeInv', UNCHANGED <<run_queue, pid, nr_threads>>, NEW t \in Queued
    PROVE  /\ (\A u \in Queued : u # t => state'[u] = state[u])
                  => Lives' = [Lives EXCEPT ![pid[t]] = Life(t)']
           /\ (\A u \in Queued : u # t => ppid'[u] = ppid[u])
                  => Parents' = [Parents EXCEPT ![pid[t]] = ppid'[t]]
<1> DEFINE n == pid[t]
<1>1. Mapping /\ Mapping'
  BY MapFacts, PTL
<1>2. n \in Pids /\ Lives'[n] = Life(t)' /\ Parents'[n] = ppid'[t]
  <2>1. t \in Queued' /\ pid'[t] = pid[t]
    BY DEF Queued
  <2>2. QED BY <1>1, <2>1 DEF Mapping
<1>3. \A u \in Queued : pid[u] # n => u # t
  OBVIOUS
<1> HIDE DEF n
<1>4. ASSUME \A u \in Queued : u # t => state'[u] = state[u]
      PROVE  Lives' = [Lives EXCEPT ![n] = Life(t)']
  <2>1. ASSUME NEW m \in Pids, m # n PROVE Lives'[m] = Lives[m]
    <3>1. \A u \in Queued : pid[u] = m => state'[u] = state[u]
      BY <1>3, <1>4, <2>1
    <3>2. QED BY <3>1, NumberKept
  <2>2. Lives = [m \in Pids |-> Lives[m]] /\ Lives' = [m \in Pids |-> Lives'[m]]
    BY <1>1 DEF Mapping
  <2>3. QED BY <1>2, <2>1, <2>2, DiffersAt
<1>5. ASSUME \A u \in Queued : u # t => ppid'[u] = ppid[u]
      PROVE  Parents' = [Parents EXCEPT ![n] = ppid'[t]]
  <2>1. ASSUME NEW m \in Pids, m # n PROVE Parents'[m] = Parents[m]
    <3>1. \A u \in Queued : pid[u] = m => ppid'[u] = ppid[u]
      BY <1>3, <1>5, <2>1
    <3>2. QED BY <3>1, NumberKept
  <2>2. Parents = [m \in Pids |-> Parents[m]] /\ Parents' = [m \in Pids |-> Parents'[m]]
    BY <1>1 DEF Mapping
  <2>3. QED BY <1>2, <2>1, <2>2, DiffersAt
<1>6. QED
  BY <1>4, <1>5 DEF n

LEMMA ParentsKept ==
    ASSUME LifeInv, LifeInv', UNCHANGED <<run_queue, pid, nr_threads>>,
           \A t \in Queued : ppid'[t] = ppid[t]
    PROVE  Parents' = Parents
<1>1. Parents = [m \in Pids |-> Parents[m]] /\ Parents' = [m \in Pids |-> Parents'[m]]
  <2>1. Mapping /\ Mapping'
    BY MapFacts, PTL
  <2>2. QED BY <2>1 DEF Mapping
<1>2. \A m \in Pids : Parents'[m] = Parents[m]
  BY NumberKept
<1>3. QED
  BY <1>1, <1>2

\* A step that at most wakes sleepers and lets somebody else run.
LEMMA SwitchMaps ==
    ASSUME LifeInv, LifeInv', UNCHANGED <<run_queue, pid, nr_threads>>,
           \A t \in Queued : /\ ppid'[t] = ppid[t]
                             /\ \/ state'[t] = state[t]
                                \/ state[t] = "SLEEPING" /\ state'[t] = "RUNNING"
    PROVE  Processes!Next
<1>1. Mapping /\ Mapping'
  BY MapFacts, PTL
<1> DEFINE woken == {n \in Pids : Lives[n] = "asleep" /\ Lives'[n] = "ready"}
<1>2. ASSUME NEW n \in Pids
      PROVE  Lives'[n] = IF n \in woken THEN "ready" ELSE Lives[n]
  <2>1. CASE \A t \in Queued : pid[t] = n => state'[t] = state[t]
    BY <2>1, NumberKept
  <2>2. CASE \E t \in Queued : pid[t] = n /\ state'[t] # state[t]
    <3>1. PICK t \in Queued : pid[t] = n /\ state[t] = "SLEEPING" /\ state'[t] = "RUNNING"
      BY <2>2
    <3>2. t \in Queued' /\ pid'[t] = n
      BY <3>1 DEF Queued
    <3>3. Lives[n] = Life(t) /\ Lives'[n] = Life(t)'
      BY <1>1, <3>1, <3>2 DEF Mapping
    <3>4. Life(t) = "asleep" /\ Life(t)' = "ready"
      BY <3>1 DEF Life
    <3>5. QED BY <3>3, <3>4
  <2>3. QED BY <2>1, <2>2
<1>3. woken \in SUBSET {n \in Pids : Lives[n] = "asleep"}
  OBVIOUS
<1> HIDE DEF woken
<1>4. Lives' = [n \in Pids |-> IF n \in woken THEN "ready" ELSE Lives[n]]
  <2>1. Lives' = [n \in Pids |-> Lives'[n]]
    BY <1>1 DEF Mapping
  <2>2. QED BY <1>2, <2>1
<1>5. Parents' = Parents
  BY ParentsKept
<1>6. Processes!Switch
  BY <1>3, <1>4, <1>5, Dispatches DEF Processes!Switch
<1>7. QED
  BY <1>6 DEF Processes!Next

\* A new process gets the next number.
LEMMA CreateMaps ==
    ASSUME LifeInv, LifeInv', Creation
    PROVE  Processes!Next
<1>1. PICK t \in Tasks, parent \in {0, pid[current]}, hs \in SUBSET Sigs :
            parent \in Nat /\ thread_create(t, nr_threads, parent, hs)
  <2>1. /\ 0 \in Nat /\ pid[current] \in Nat /\ current \in Queued
        /\ {} \in SUBSET Sigs /\ handlers[current] \in SUBSET Sigs
        /\ pc[current] = "tt_create" => arg[current] = nr_threads
    BY DEF LifeInv, InductiveInv, TypeOK, RunInv, PidInv, Queued
  <2>2. CASE user_program_execute \/ do_fork \/ do_fork_fails
    BY <2>1, <2>2 DEF user_program_execute, do_fork, do_fork_fails, NewPid
  <2>3. CASE test_threads_create
    BY <2>1, <2>3 DEF test_threads_create
  <2>4. QED BY <2>2, <2>3 DEF Creation
<1> DEFINE n == nr_threads
<1>2. /\ n \in Nat /\ n + 1 <= MaxPid /\ nr_threads' = n + 1 /\ MaxPid \in Nat
  <2>1. nr_threads \in Nat
    BY DEF LifeInv, InductiveInv, TypeOK
  <2>2. QED BY <1>1, <2>1, ConstantsAssumption DEF thread_create
<1>3. /\ t \notin Queued /\ current \in Queued /\ Queued' = Queued \cup {t}
      /\ pid'[t] = n /\ ppid'[t] = parent /\ state'[t] = "RUNNING"
      /\ \A u \in Queued : pid'[u] = pid[u] /\ ppid'[u] = ppid[u] /\ state'[u] = state[u]
  <2>1. InductiveInv /\ nr_threads \in Nat
    BY <1>2 DEF LifeInv
  <2>2. QED BY <1>1, <2>1, CreateFacts
<1>4. Mapping /\ Mapping'
  BY MapFacts, PTL
<1>5. n \in Pids /\ \A m \in Pids : m \in Nat /\ (m < n => ~(m >= n)) /\ ~(n < n) /\ n >= n
  BY <1>2 DEF Pids
<1>6. ~Known(n) /\ Lives[n] = "unused"
  <2>1. ~Known(n)
    BY <1>4, <1>5 DEF Known, Mapping
  <2>2. QED BY <1>4, <1>5, <2>1 DEF Mapping
<1>7. ASSUME NEW m \in Pids, m < n PROVE Lives[m] # "unused"
  <2>1. CASE Known(m)
    <3>1. PICK u \in Queued : pid[u] = m
      BY <2>1 DEF Known
    <3>2. Lives[m] = Life(u)
      BY <1>4, <3>1 DEF Mapping
    <3>3. QED BY <3>2 DEF Life
  <2>2. CASE ~Known(m)
    BY <1>4, <1>5, <1>7, <2>2 DEF Mapping
  <2>3. QED BY <2>1, <2>2
<1>8. Lives'[n] = "ready" /\ Parents'[n] = parent
  <2>1. t \in Queued'
    BY <1>3
  <2>2. Lives'[n] = Life(t)' /\ Parents'[n] = parent
    BY <1>3, <1>4, <2>1 DEF Mapping
  <2>3. Life(t)' = "ready"
    BY <1>3 DEF Life
  <2>4. QED BY <2>2, <2>3
<1>9. ASSUME NEW m \in Pids, m # n PROVE Lives'[m] = Lives[m] /\ Parents'[m] = Parents[m]
  <2>1. CASE Known(m)
    <3>1. PICK u \in Queued : pid[u] = m
      BY <2>1 DEF Known
    <3>2. u \in Queued' /\ pid'[u] = m /\ ppid'[u] = ppid[u] /\ state'[u] = state[u]
      BY <1>3, <3>1
    <3>3. Lives[m] = Life(u) /\ Parents[m] = ppid[u] /\ Lives'[m] = Life(u)' /\ Parents'[m] = ppid[u]
      BY <1>4, <3>1, <3>2 DEF Mapping
    <3>4. Life(u)' = Life(u)
      BY <3>2 DEF Life
    <3>5. QED BY <3>3, <3>4
  <2>2. CASE ~Known(m)
    <3>1. ~Known(m)'
      BY <1>3, <1>9, <2>2 DEF Known
    <3>2. m >= n <=> m >= nr_threads'
      BY <1>2, <1>5, <1>9
    <3>3. Lives[m] = (IF m >= n THEN "unused" ELSE "collected") /\ Parents[m] = 0
      BY <1>4, <2>2 DEF Mapping
    <3>4. Lives'[m] = (IF m >= nr_threads' THEN "unused" ELSE "collected") /\ Parents'[m] = 0
      BY <1>4, <3>1 DEF Mapping
    <3>5. QED BY <3>2, <3>3, <3>4
  <2>3. QED BY <2>1, <2>2
<1>10. pid'[current'] = pid[current]
  <2>1. current' = current
    BY DEF Creation, user_program_execute, do_fork, do_fork_fails, test_threads_create
  <2>2. QED BY <1>3, <2>1
<1> HIDE DEF n
<1>11. Lives' = [Lives EXCEPT ![n] = "ready"] /\ Parents' = [Parents EXCEPT ![n] = parent]
  <2>1. /\ Lives = [m \in Pids |-> Lives[m]] /\ Lives' = [m \in Pids |-> Lives'[m]]
        /\ Parents = [m \in Pids |-> Parents[m]] /\ Parents' = [m \in Pids |-> Parents'[m]]
    BY <1>4 DEF Mapping
  <2>2. Lives' = [Lives EXCEPT ![n] = "ready"]
    BY <1>5, <1>8, <1>9, <2>1, DiffersAt
  <2>3. Parents' = [Parents EXCEPT ![n] = parent]
    BY <1>5, <1>8, <1>9, <2>1, DiffersAt
  <2>4. QED BY <2>2, <2>3
<1>12. Processes!Create(n)
  BY <1>6, <1>7, <1>10, <1>11 DEF Processes!Create
<1>13. QED
  BY <1>5, <1>12 DEF Processes!Next

\* A dead process leaves the queue, and its task is the current one's to free.
LEMMA CollectMaps ==
    ASSUME LifeInv, LifeInv', UNCHANGED <<taskVars, nr_threads, current>>,
           NEW z \in Queued, state[z] = "ZOMBIE", run_queue' = Dequeue(run_queue, z),
           current = Idle => ppid[z] = 0
    PROVE  Processes!Next
<1>1. /\ run_queue # <<>> /\ IsInjective(run_queue) /\ run_queue \in Seq(Tasks)
      /\ run_queue[1] = Idle /\ state[Idle] = "RUNNING" /\ pid[Idle] = 0
  BY DEF LifeInv, InductiveInv, QueueInv, TypeOK, IdleInv
<1>2. Queued' = Queued \ {z}
  BY <1>1, DequeueOther DEF Queued
<1>3. Mapping /\ Mapping'
  BY MapFacts, PTL
<1>4. UNCHANGED <<state, pid, ppid, nr_threads, current>>
  BY DEF taskVars
<1>5. \A s, t \in Queued : pid[s] = pid[t] => s = t
  BY DEF LifeInv, PidInv, PidsAreUnique, Queued
<1>6. Idle \in Queued /\ current \in Queued
  <2>1. InductiveInv
    BY DEF LifeInv
  <2>2. QED BY <2>1, IdleFacts DEF InductiveInv, RunInv, Queued
<1>7. PICK n : n = pid[z]
  OBVIOUS
<1>8. n \in Pids /\ n < nr_threads /\ Lives[n] = "dead" /\ Parents[n] = ppid[z]
  <2>1. Life(z) = "dead"
    BY DEF Life
  <2>2. QED BY <1>3, <1>7, <2>1 DEF Mapping
<1>9. pid[current] = 0 => Parents[n] = 0
  BY <1>1, <1>5, <1>6, <1>8, <1>7
<1>10. Lives'[n] = "collected" /\ Parents'[n] = 0
  <2>1. ~Known(n)'
    BY <1>2, <1>4, <1>5, <1>7 DEF Known
  <2>2. ~(n >= nr_threads')
    <3>1. n \in Nat /\ nr_threads \in Nat
      BY <1>8, ConstantsAssumption DEF Pids, LifeInv, InductiveInv, TypeOK
    <3>2. QED BY <1>4, <1>8, <3>1
  <2>3. /\ Lives'[n] = (IF n >= nr_threads' THEN "unused" ELSE "collected")
        /\ Parents'[n] = 0
    BY <1>3, <1>8, <2>1 DEF Mapping
  <2>4. QED BY <2>2, <2>3
<1>11. ASSUME NEW m \in Pids, m # n PROVE Lives'[m] = Lives[m] /\ Parents'[m] = Parents[m]
  <2>1. CASE Known(m)
    <3>1. PICK u \in Queued : pid[u] = m
      BY <2>1 DEF Known
    <3>2. u \in Queued' /\ pid'[u] = m /\ ppid'[u] = ppid[u] /\ state'[u] = state[u]
      BY <1>2, <1>4, <1>11, <1>7, <3>1
    <3>3. Lives[m] = Life(u) /\ Parents[m] = ppid[u] /\ Lives'[m] = Life(u)' /\ Parents'[m] = ppid[u]
      BY <1>3, <3>1, <3>2 DEF Mapping
    <3>4. Life(u)' = Life(u)
      BY <3>2 DEF Life
    <3>5. QED BY <3>3, <3>4
  <2>2. CASE ~Known(m)
    <3>1. ~Known(m)'
      BY <1>2, <1>4, <1>7, <2>2 DEF Known
    <3>2. Lives[m] = (IF m >= nr_threads THEN "unused" ELSE "collected") /\ Parents[m] = 0
      BY <1>3, <2>2 DEF Mapping
    <3>3. Lives'[m] = (IF m >= nr_threads' THEN "unused" ELSE "collected") /\ Parents'[m] = 0
      BY <1>3, <3>1 DEF Mapping
    <3>4. QED BY <1>4, <3>2, <3>3
  <2>3. QED BY <2>1, <2>2
<1>12. Lives' = [Lives EXCEPT ![n] = "collected"] /\ Parents' = [Parents EXCEPT ![n] = 0]
  <2>1. /\ Lives = [m \in Pids |-> Lives[m]] /\ Lives' = [m \in Pids |-> Lives'[m]]
        /\ Parents = [m \in Pids |-> Parents[m]] /\ Parents' = [m \in Pids |-> Parents'[m]]
    BY <1>3 DEF Mapping
  <2>2. Lives' = [Lives EXCEPT ![n] = "collected"]
    BY <1>8, <1>10, <1>11, <2>1, DiffersAt
  <2>3. Parents' = [Parents EXCEPT ![n] = 0]
    BY <1>8, <1>10, <1>11, <2>1, DiffersAt
  <2>4. QED BY <2>2, <2>3
<1>13. Processes!Collect(n)
  BY <1>4, <1>8, <1>9, <1>12 DEF Processes!Collect
<1>14. QED
  BY <1>8, <1>13 DEF Processes!Next

\* Everybody but idle has a number other than 0.
LEMMA NumbersOfOthers ==
    ASSUME LifeInv
    PROVE  /\ Idle \in Queued /\ current \in Queued /\ current \in Tasks /\ Queued \subseteq Tasks
           /\ state[current] = "RUNNING"
           /\ \A t \in Queued : pid[t] = 0 <=> t = Idle
           /\ \A s, t \in Queued : pid[s] = pid[t] => s = t
           /\ pc[current] \in IdlePcs <=> current = Idle
           /\ state \in [Tasks -> States] /\ ppid \in [Tasks -> Nat] /\ pid \in [Tasks -> Nat]
<1>1. InductiveInv /\ pid[Idle] = 0 /\ PidsAreUnique
  BY DEF LifeInv, InductiveInv, IdleInv, PidInv
<1>2. Idle \in Queued /\ Queued \subseteq Tasks /\ (pc[current] \in IdlePcs <=> current = Idle)
  BY <1>1, IdleFacts DEF Queued
<1>3. /\ current \in Queued /\ current \in Tasks /\ state[current] = "RUNNING"
      /\ state \in [Tasks -> States] /\ ppid \in [Tasks -> Nat] /\ pid \in [Tasks -> Nat]
  BY <1>1 DEF InductiveInv, TypeOK, RunInv, Queued
<1>4. \A s, t \in Queued : pid[s] = pid[t] => s = t
  BY <1>1 DEF PidsAreUnique, Queued
<1>5. QED
  BY <1>1, <1>2, <1>3, <1>4

\* The running process exits.
LEMMA ExitMaps ==
    ASSUME LifeInv, LifeInv', thread_exit
    PROVE  Processes!Next
<1>1. /\ UNCHANGED <<run_queue, pid, nr_threads>>
      /\ state' = [state EXCEPT ![current] = "ZOMBIE"] /\ ppid' = Reparented
  BY DEF thread_exit
<1>2. /\ current \in Queued /\ current \in Tasks /\ Queued \subseteq Tasks
      /\ state \in [Tasks -> States] /\ ppid \in [Tasks -> Nat] /\ pid[current] # 0
  <2>1. pc[current] \notin IdlePcs
    BY DEF thread_exit, Calling, IdlePcs
  <2>2. QED BY <2>1, NumbersOfOthers
<1>3. Mapping /\ Mapping'
  BY MapFacts, PTL
<1>4. PICK t : t = current
  OBVIOUS
<1>5. Lives' = [Lives EXCEPT ![pid[t]] = "dead"]
  <2>1. t \in Queued /\ \A u \in Queued : u # t => state'[u] = state[u]
    BY <1>1, <1>2, <1>4
  <2>2. Lives' = [Lives EXCEPT ![pid[t]] = Life(t)']
    BY <1>1, <2>1, OneTaskChanges
  <2>3. Life(t)' = "dead"
    BY <1>1, <1>2, <1>4 DEF Life
  <2>4. QED BY <2>2, <2>3
<1>6. ASSUME NEW n \in Pids
      PROVE  Parents'[n] = IF Parents[n] = pid[t] THEN 0 ELSE Parents[n]
  <2>1. CASE Known(n)
    <3>1. PICK u \in Queued : pid[u] = n
      BY <2>1 DEF Known
    <3>2. u \in Queued' /\ pid'[u] = n
      BY <1>1, <3>1 DEF Queued
    <3>3. Parents[n] = ppid[u] /\ Parents'[n] = ppid'[u]
      BY <1>3, <3>1, <3>2 DEF Mapping
    <3>4. ppid'[u] = IF ppid[u] = pid[t] THEN 0 ELSE ppid[u]
      BY <1>1, <1>2, <1>4, <3>1 DEF Reparented, Queued
    <3>5. QED BY <3>3, <3>4
  <2>2. CASE ~Known(n)
    <3>1. ~Known(n)'
      BY <1>1, <2>2 DEF Known, Queued
    <3>2. Parents[n] = 0 /\ Parents'[n] = 0
      BY <1>3, <2>2, <3>1 DEF Mapping
    <3>3. QED BY <3>2
  <2>3. QED BY <2>1, <2>2
<1>7. Parents' = [n \in Pids |-> IF Parents[n] = pid[t] THEN 0 ELSE Parents[n]]
  <2>1. Parents' = [n \in Pids |-> Parents'[n]]
    BY <1>3 DEF Mapping
  <2>2. QED BY <1>6, <2>1
<1>8. Processes!Exit
  BY <1>2, <1>4, <1>5, <1>7, Dispatches DEF Processes!Exit
<1>9. QED
  BY <1>8 DEF Processes!Next

\* stop ends a process that has not ended yet, or nobody.
LEMMA StopMaps ==
    ASSUME LifeInv, LifeInv', do_stop
    PROVE  Processes!Next
<1>1. /\ UNCHANGED <<run_queue, pid, nr_threads, ppid>>
      /\ \/ UNCHANGED state
         \/ \E p \in Pids \ Protected, t \in Tasks :
                /\ Finds(run_queue, p, t)
                /\ state' = [state EXCEPT ![t] = "ZOMBIE"]
                /\ t # current => UNCHANGED current
  BY DEF do_stop
<1>2. CASE UNCHANGED state
  BY <1>1, <1>2, SwitchMaps
<1>3. CASE ~UNCHANGED state
  <2>1. PICK p \in Pids \ Protected, t \in Tasks :
                /\ Finds(run_queue, p, t)
                /\ state' = [state EXCEPT ![t] = "ZOMBIE"]
                /\ t # current => UNCHANGED current
    BY <1>1, <1>3
  <2>2. /\ current \in Queued /\ Queued \subseteq Tasks /\ state \in [Tasks -> States]
        /\ \A s, u \in Queued : pid[s] = pid[u] => s = u
    BY NumbersOfOthers
  <2>3. t \in Queued /\ pid[t] = p /\ p # 0 /\ state[t] \in {"RUNNING", "SLEEPING"}
    <3>1. t \in Queued /\ pid[t] = p /\ p # 0
      BY <2>1, TamePrograms DEF Finds, Queued, Range
    <3>2. state[t] # "ZOMBIE"
      <4>1. SUFFICES ASSUME state[t] = "ZOMBIE" PROVE UNCHANGED state
        BY <1>3
      <4>2. QED BY <2>1, <2>2, <4>1
    <3>3. QED BY <2>2, <3>1, <3>2 DEF States
  <2>4. Lives' = [Lives EXCEPT ![p] = "dead"]
    <3>1. \A u \in Queued : u # t => state'[u] = state[u]
      BY <2>1, <2>2
    <3>2. Lives' = [Lives EXCEPT ![pid[t]] = Life(t)']
      BY <1>1, <2>3, <3>1, OneTaskChanges
    <3>3. Life(t)' = "dead"
      BY <2>1, <2>2 DEF Life
    <3>4. QED BY <2>3, <3>2, <3>3
  <2>5. p \in Pids /\ Lives[p] \in {"ready", "asleep"}
    <3>1. Mapping
      BY MapFacts
    <3>2. Lives[p] = Life(t)
      BY <2>3, <3>1 DEF Mapping
    <3>3. QED BY <2>1, <2>3, <3>2 DEF Life
  <2>6. Parents' = Parents
    BY <1>1, ParentsKept
  <2>7. p # pid[current] => pid'[current'] = pid[current]
    BY <1>1, <2>1, <2>3
  <2>8. Processes!Stop(p)
    BY <2>3, <2>4, <2>5, <2>6, <2>7, Dispatches DEF Processes!Stop
  <2>9. QED BY <2>5, <2>8 DEF Processes!Next
<1>4. QED
  BY <1>2, <1>3

\* kill ends somebody else, leaves a signal, or finds nobody.
LEMMA KillMaps ==
    ASSUME LifeInv, LifeInv', do_kill
    PROVE  Processes!Next
<1>1. /\ UNCHANGED <<run_queue, pid, nr_threads, current>>
      /\ \/ UNCHANGED <<state, ppid>>
         \/ \E p \in Pids \ Protected, t \in Tasks :
                /\ Finds(run_queue, p, t) /\ (t = current => "selfkill" \in Calls)
                /\ state' = [state EXCEPT ![t] = "ZOMBIE"]
                /\ ppid' = [ppid EXCEPT ![t] = 0]
  BY DEF do_kill
<1>2. CASE UNCHANGED <<state, ppid>>
  BY <1>1, <1>2, SwitchMaps
<1>3. CASE \E p \in Pids \ Protected, t \in Tasks :
                /\ Finds(run_queue, p, t) /\ (t = current => "selfkill" \in Calls)
                /\ state' = [state EXCEPT ![t] = "ZOMBIE"]
                /\ ppid' = [ppid EXCEPT ![t] = 0]
  <2>1. PICK p \in Pids \ Protected, t \in Tasks :
                /\ Finds(run_queue, p, t) /\ (t = current => "selfkill" \in Calls)
                /\ state' = [state EXCEPT ![t] = "ZOMBIE"]
                /\ ppid' = [ppid EXCEPT ![t] = 0]
    BY <1>3
  <2>2. /\ current \in Queued /\ Queued \subseteq Tasks /\ state \in [Tasks -> States]
        /\ ppid \in [Tasks -> Nat] /\ \A s, u \in Queued : pid[s] = pid[u] => s = u
    BY NumbersOfOthers
  <2>3. t \in Queued /\ pid[t] = p /\ p # 0 /\ p # pid[current]
    <3>1. t \in Queued /\ pid[t] = p /\ p # 0 /\ t # current
      BY <2>1, TamePrograms DEF Finds, Queued, Range
    <3>2. QED BY <2>2, <3>1
  <2>4. /\ Lives' = [Lives EXCEPT ![p] = "dead"]
        /\ Parents' = [Parents EXCEPT ![p] = 0]
    <3>1. \A u \in Queued : u # t => state'[u] = state[u] /\ ppid'[u] = ppid[u]
      BY <2>1, <2>2
    <3>2. /\ Lives' = [Lives EXCEPT ![pid[t]] = Life(t)']
          /\ Parents' = [Parents EXCEPT ![pid[t]] = ppid'[t]]
      BY <1>1, <2>3, <3>1, OneTaskChanges
    <3>3. Life(t)' = "dead" /\ ppid'[t] = 0
      BY <2>1, <2>2 DEF Life
    <3>4. QED BY <2>3, <3>2, <3>3
  <2>5. p \in Pids /\ Lives[p] \in {"ready", "asleep", "dead"}
    <3>1. Mapping
      BY MapFacts
    <3>2. Lives[p] = Life(t)
      BY <2>3, <3>1 DEF Mapping
    <3>3. QED BY <2>1, <3>2 DEF Life
  <2>6. pid'[current'] = pid[current]
    BY <1>1
  <2>7. Processes!Kill(p)
    BY <2>3, <2>4, <2>5, <2>6 DEF Processes!Kill
  <2>8. QED BY <2>5, <2>7 DEF Processes!Next
<1>4. QED
  BY <1>1, <1>2, <1>3

\* usleep puts the running process to sleep, or is called with 0.
LEMMA SleepMaps ==
    ASSUME LifeInv, LifeInv', do_usleep
    PROVE  Processes!Next
<1>1. /\ UNCHANGED <<run_queue, pid, nr_threads, ppid>>
      /\ UNCHANGED state \/ state' = [state EXCEPT ![current] = "SLEEPING"]
  BY DEF do_usleep
<1>2. CASE UNCHANGED state
  BY <1>1, <1>2, SwitchMaps
<1>3. CASE state' = [state EXCEPT ![current] = "SLEEPING"]
  <2>1. PICK t : t = current
    OBVIOUS
  <2>2. pc[current] \notin IdlePcs
    BY DEF do_usleep, Calling, IdlePcs
  <2>3. /\ t \in Queued /\ Queued \subseteq Tasks /\ state \in [Tasks -> States] /\ pid[t] # 0
    BY <2>1, <2>2, NumbersOfOthers
  <2>4. Lives' = [Lives EXCEPT ![pid[t]] = "asleep"]
    <3>1. \A u \in Queued : u # t => state'[u] = state[u]
      BY <1>3, <2>1, <2>3
    <3>2. Lives' = [Lives EXCEPT ![pid[t]] = Life(t)']
      BY <1>1, <2>3, <3>1, OneTaskChanges
    <3>3. Life(t)' = "asleep"
      BY <1>3, <2>1, <2>3 DEF Life
    <3>4. QED BY <3>2, <3>3
  <2>5. Parents' = Parents
    BY <1>1, ParentsKept
  <2>6. Processes!Sleep
    BY <2>1, <2>3, <2>4, <2>5, Dispatches DEF Processes!Sleep
  <2>7. QED BY <2>6 DEF Processes!Next
<1>4. QED
  BY <1>1, <1>2, <1>3

\* Idle collects orphans, and waitpid's caller the process it waits for.
LEMMA ReapingMaps ==
    ASSUME LifeInv, LifeInv', kill_zombies \/ do_waitpid_scan
    PROVE  Processes!Next
<1>1. UNCHANGED <<taskVars, nr_threads, current, state, pid, ppid>>
  BY DEF kill_zombies, do_waitpid_scan, taskVars
<1>2. CASE UNCHANGED run_queue
  BY <1>1, <1>2, SwitchMaps
<1>3. ASSUME kill_zombies, ~UNCHANGED run_queue PROVE Processes!Next
  <2>1. PICK i \in DOMAIN run_queue : /\ OrphanZombie(run_queue[i])
                                      /\ run_queue' = Dequeue(run_queue, run_queue[i])
    BY <1>3 DEF kill_zombies
  <2>2. PICK z : z = run_queue[i]
    OBVIOUS
  <2>3. /\ z \in Queued /\ state[z] = "ZOMBIE" /\ ppid[z] = 0
        /\ run_queue' = Dequeue(run_queue, z)
    BY <2>1, <2>2 DEF OrphanZombie, Queued, Range
  <2>4. QED BY <1>1, <2>3, CollectMaps
<1>4. ASSUME do_waitpid_scan, ~UNCHANGED run_queue PROVE Processes!Next
  <2>1. PICK first \in DOMAIN run_queue, z \in Tasks :
               /\ Finds(SubSeq(run_queue, first, Len(run_queue)), arg[current], z)
               /\ Reapable(z) /\ run_queue' = Dequeue(run_queue, z)
    BY <1>4 DEF do_waitpid_scan
  <2>2. TypeOK
    BY DEF LifeInv, InductiveInv
  <2>3. z \in Queued /\ state[z] = "ZOMBIE"
    BY <2>1, <2>2, WalkInQueue DEF Reapable
  <2>4. pc[current] \notin IdlePcs
    BY <1>4 DEF do_waitpid_scan, IdlePcs
  <2>5. current # Idle
    BY <2>4, NumbersOfOthers
  <2>6. QED BY <1>1, <2>1, <2>3, <2>5, CollectMaps
<1>5. QED
  BY <1>2, <1>3, <1>4

\* Every step of the kernel is a step of the process table, or none.
LEMMA LifeStep ==
    ASSUME LifeInv, LifeInv', [Next]_vars
    PROVE  [Processes!Next]_(Processes!lifeVars)
<1> SUFFICES Processes!Next
  OBVIOUS
<1>1. CASE Creation
  BY <1>1, CreateMaps
<1>2. CASE thread_exit
  BY <1>2, ExitMaps
<1>3. CASE do_stop
  BY <1>3, StopMaps
<1>4. CASE do_kill
  BY <1>4, KillMaps
<1>5. CASE do_usleep
  BY <1>5, SleepMaps
<1>6. CASE kill_zombies \/ do_waitpid_scan
  BY <1>6, ReapingMaps
<1>7. CASE timer_interrupt
  <2>1. PICK k \in 0..Len(timers), resched \in BOOLEAN : core_timer_handler(k, resched)
    BY <1>7 DEF timer_interrupt
  <2>2. /\ UNCHANGED <<run_queue, pid, nr_threads, ppid>> /\ state' = wakeup_callback(k)
    BY <2>1 DEF core_timer_handler
  <2>3. ASSUME NEW t \in Queued
        PROVE  state'[t] = state[t] \/ (state[t] = "SLEEPING" /\ state'[t] = "RUNNING")
    <3>1. t \in Tasks
      BY NumbersOfOthers
    <3>2. QED BY <2>2, <3>1 DEF wakeup_callback
  <2>4. QED BY <2>2, <2>3, SwitchMaps
<1>8. CASE signal_check
  <2>1. pending[current] \subseteq handlers[current]
    BY NumbersOfOthers DEF LifeInv, InductiveInv, RunInv
  <2>2. UNCHANGED <<run_queue, pid, nr_threads, ppid, state>>
    BY <1>8, <2>1 DEF signal_check
  <2>3. QED BY <2>2, SwitchMaps
<1>9. CASE \/ test_threads \/ test_threads_read \/ test_threads_yield
           \/ kill_zombies_free \/ idle_yield \/ waitpid_call \/ user_program_execute_returns
           \/ do_waitpid_read
           \/ do_waitpid_yield \/ do_signal \/ do_sigreturn \/ uart_syscall
           \/ UNCHANGED vars
  <2>1. UNCHANGED <<run_queue, pid, nr_threads, ppid, state>>
    BY <1>9 DEF test_threads, test_threads_read, test_threads_yield, kill_zombies_free,
       idle_yield, waitpid_call, user_program_execute_returns,
       do_waitpid_read, do_waitpid_yield, do_signal,
       do_sigreturn, uart_syscall, vars, taskVars
  <2>2. QED BY <2>1, SwitchMaps
<1>10. QED
  BY <1>1, <1>2, <1>3, <1>4, <1>5, <1>6, <1>7, <1>8, <1>9
     DEF Next, KernelStep, Call, Creation

\* The kernel starts with idle and the shell.
LEMMA LifeInit == Init => LifeInv /\ Processes!Init
<1> SUFFICES ASSUME Init PROVE LifeInv /\ Processes!Init
  OBVIOUS
<1>1. nr_threads = 2 /\ MaxPid \in Nat /\ 2 <= MaxPid
  BY ConstantsAssumption DEF Init
<1>2. LifeInv
  BY <1>1, InvInit, PidInit DEF LifeInv
<1>3. Mapping
  BY <1>2, MapFacts
<1>4. Queued = {Idle, Shell}
  BY QueuedInit
<1>5. /\ pid[Idle] = 0 /\ pid[Shell] = 1 /\ current = Idle
      /\ \A t \in Queued : state[t] = "RUNNING" /\ ppid[t] = 0
  BY <1>4, ConstantsAssumption DEF Init
<1>6. ASSUME NEW n \in Pids
      PROVE  /\ Lives[n] = IF n \in {0, 1} THEN "ready" ELSE "unused"
             /\ Parents[n] = 0
  <2>1. CASE n \in {0, 1}
    <3>1. PICK t \in Queued : pid[t] = n
      BY <1>4, <1>5, <2>1
    <3>2. Lives[n] = Life(t) /\ Parents[n] = ppid[t]
      BY <1>3, <3>1 DEF Mapping
    <3>3. QED BY <1>5, <2>1, <3>2 DEF Life
  <2>2. CASE n \notin {0, 1}
    <3>1. ~Known(n)
      BY <1>4, <1>5, <2>2 DEF Known
    <3>2. n \in Nat /\ n >= nr_threads
      BY <1>1, <2>2 DEF Pids
    <3>3. QED BY <1>3, <2>2, <3>1, <3>2 DEF Mapping
  <2>3. QED BY <2>1, <2>2
<1>7. /\ Lives = [n \in Pids |-> IF n \in {0, 1} THEN "ready" ELSE "unused"]
      /\ Parents = [n \in Pids |-> 0]
  <2>1. Lives = [n \in Pids |-> Lives[n]] /\ Parents = [n \in Pids |-> Parents[n]]
    BY <1>3 DEF Mapping
  <2>2. Lives = [n \in Pids |-> IF n \in {0, 1} THEN "ready" ELSE "unused"]
    BY <1>6, <2>1
  <2>3. Parents = [n \in Pids |-> 0]
    BY <1>6, <2>1
  <2>4. QED BY <2>2, <2>3
<1>8. QED
  BY <1>2, <1>5, <1>7 DEF Processes!Init

LEMMA LifeInvStep ==
    ASSUME NoPidRace, LifeInv, [Next]_vars
    PROVE  LifeInv'
<1>1. InductiveInv' /\ PidInv'
  BY InvStep, PidStep DEF LifeInv
<1>2. nr_threads' <= MaxPid
  <2>1. CASE Creation
    <3>1. PICK t \in Tasks, n \in Nat, parent \in {0, pid[current]}, hs \in SUBSET Sigs :
              parent \in Nat /\ thread_create(t, n, parent, hs)
      BY <2>1, CreationFacts DEF LifeInv
    <3>2. QED BY <3>1 DEF thread_create
  <2>2. CASE ~Creation
    BY <2>2, QueueOnlyShrinks DEF LifeInv
  <2>3. QED BY <2>1, <2>2
<1>3. QED
  BY <1>1, <1>2 DEF LifeInv

\* The kernel, with its shared queue, reused task_structs and preemption at
\* every point, implements the process table: each process is created, dies
\* and is collected once, by somebody entitled to it, and only a ready one is
\* ever on the CPU.
THEOREM LifecycleIsKept == NoPidRace => (Spec => IsProcessLifecycle)
<1> SUFFICES ASSUME NoPidRace PROVE Spec => IsProcessLifecycle
  OBVIOUS
<1>1. Init => LifeInv /\ Processes!Init
  BY LifeInit
<1>2. LifeInv /\ [Next]_vars => LifeInv'
  BY LifeInvStep
<1>3. LifeInv /\ LifeInv' /\ [Next]_vars => [Processes!Next]_(Processes!lifeVars)
  BY LifeStep
<1>4. QED
  BY <1>1, <1>2, <1>3, PTL DEF Spec, IsProcessLifecycle, Processes!Spec
=============================================================================
