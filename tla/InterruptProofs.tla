---------------------------- MODULE InterruptProofs ----------------------------
(***************************************************************************)
(* What holds of the three components that interrupts drive: the timer     *)
(* list, the deferred tasks and the console driver.                        *)
(*                                                                         *)
(* The timer list, for every preemption period, every set of delays, every *)
(* number of events and of nested handlers: it stays sorted, and the       *)
(* compare register never stands behind its head.                          *)
(*                                                                         *)
(* The deferred tasks, for every batch, number of threads and depth of     *)
(* nesting: the list is ordered, and, as long as no task lasts until the   *)
(* timer takes the CPU from it, current_priority is the priority of the    *)
(* most urgent task that runs, so that only more urgent ones start.        *)
(*                                                                         *)
(* The console driver, for rings of every size: a byte that is queued has  *)
(* its interrupt on, and each ring is the bounded queue that ByteChannel   *)
(* describes as long as one thread writes and one reads.                   *)
(***************************************************************************)
EXTENDS TimerQueue, DeferredTasks, Uart, SequenceLemmas

(***************************************************************************)
(* The timer list.                                                         *)
(***************************************************************************)

Timer == [left : Nat, callback : {"preempt", "other"}, id : 1..(MaxTimers + 1)]

SortedByTime(list) == \A i, j \in DOMAIN list : i < j => list[i].left <= list[j].left

\* Two events of a list that are told apart.
Distinct(list) == \A i, j \in DOMAIN list : list[i].id = list[j].id => i = j

\* The list has room for the numbers of its events: FreshId finds one.
ListOK ==
    /\ timers \in Seq(Timer) /\ Len(timers) <= MaxTimers
    /\ SortedByTime(timers) /\ Distinct(timers)

TimerInv == TimerTypeOK /\ ListOK /\ RegisterCoversHead

-----------------------------------------------------------------------------
(* The list *)

LEMMA TimerFields ==
    ASSUME NEW list \in Seq(Timer), NEW i \in 1..Len(list)
    PROVE  list[i].left \in Nat
<1>1. list[i] \in Timer
  BY ElementOfSeq
<1>2. QED
  BY <1>1 DEF Timer

\* A list that is not full leaves a number to the next event.
LEMMA FreshIdIsFresh ==
    ASSUME timers \in Seq(Timer), Len(timers) <= MaxTimers
    PROVE  FreshTimerId \in 1..(MaxTimers + 1) /\ \A i \in DOMAIN timers : timers[i].id # FreshTimerId
<1> DEFINE Ids == 1..(MaxTimers + 1)
           Fresh(n) == \A i \in DOMAIN timers : timers[i].id # n
           f == [n \in Ids |-> CHOOSE i \in DOMAIN timers : timers[i].id = n]
<1>1. MaxTimers \in Nat
  BY TimersAssumption
<1>2. Len(timers) \in Nat /\ DOMAIN timers = 1..Len(timers)
  BY LenProperties
<1>3. /\ IsFiniteSet(Ids) /\ Cardinality(Ids) = MaxTimers + 1
      /\ IsFiniteSet(1..Len(timers)) /\ Cardinality(1..Len(timers)) = Len(timers)
  <2>1. \A n \in Nat : IsFiniteSet(1..n) /\ Cardinality(1..n) = n
    BY FS_Interval
  <2>2. QED BY <1>1, <1>2, <2>1
<1>4. \E n \in Ids : Fresh(n)
  <2> SUFFICES ASSUME \A n \in Ids : ~Fresh(n) PROVE FALSE
    OBVIOUS
  <2>1. \A n \in Ids : f[n] \in DOMAIN timers /\ timers[f[n]].id = n
    OBVIOUS
  <2>2. f \in [Ids -> 1..Len(timers)]
    BY <1>2, <2>1
  <2> HIDE DEF f
  <2>3. Cardinality(1..Len(timers)) < Cardinality(Ids)
    BY <1>1, <1>2, <1>3
  <2> HIDE DEF Ids
  <2>4. \E x, y \in Ids : x # y /\ f[x] = f[y]
    BY <1>3, <2>2, <2>3, FS_PigeonHole
  <2>5. QED BY <2>1, <2>4
<1>5. QED
  BY <1>4 DEF FreshTimerId

\* An event stands behind every event that does not expire later.
LEMMA InsertedAt ==
    ASSUME NEW list \in Seq(Timer), SortedByTime(list), NEW e \in Timer
    PROVE  \E k \in 1..(Len(list) + 1) :
              /\ Inserted(list, e) = InsertAt(list, k, e)
              /\ \A i \in 1..Len(list) : list[i].left <= e.left <=> i < k
<1> DEFINE S == {i \in DOMAIN list : list[i].left <= e.left}
           k == Cardinality(S) + 1
<1>1. Len(list) \in Nat /\ DOMAIN list = 1..Len(list)
  BY LenProperties
<1>2. \A i \in 1..Len(list) : list[i].left \in Nat
  BY TimerFields
<1>3. e.left \in Nat
  BY DEF Timer
<1>4. ASSUME NEW i \in S, NEW j \in 1..i PROVE j \in S
  BY <1>1, <1>2, <1>3 DEF SortedByTime
<1>5. S \in SUBSET (1..Len(list))
  BY <1>1
<1>6. Cardinality(S) \in 0..Len(list) /\ S = 1..Cardinality(S)
  <2> HIDE DEF S
  <2>1. \A i \in S : 1..i \subseteq S
    BY <1>4
  <2>2. QED BY <1>1, <1>5, <2>1, PrefixCount
<1>7. Inserted(list, e) = InsertAt(list, k, e)
  BY DEF Inserted
<1>8. \A i \in 1..Len(list) : list[i].left <= e.left <=> i \in S
  BY <1>1
<1> HIDE DEF S
<1>9. k \in 1..(Len(list) + 1)
  BY <1>1, <1>6
<1>10. \A i \in 1..Len(list) : list[i].left <= e.left <=> i < k
  BY <1>1, <1>6, <1>8
<1>11. QED
  BY <1>7, <1>9, <1>10

\* Adding an event keeps the list sorted; the event becomes the head exactly
\* when add_timer_ticks sets the register.
LEMMA InsertedProperties ==
    ASSUME NEW list \in Seq(Timer), SortedByTime(list), Distinct(list),
           NEW e \in Timer, \A i \in DOMAIN list : list[i].id # e.id
    PROVE  /\ Inserted(list, e) \in Seq(Timer)
           /\ Len(Inserted(list, e)) = Len(list) + 1
           /\ SortedByTime(Inserted(list, e))
           /\ Distinct(Inserted(list, e))
           /\ Inserted(list, e)[1] =
                IF list = <<>> \/ e.left < list[1].left THEN e ELSE list[1]
<1>1. PICK k \in 1..(Len(list) + 1) :
         /\ Inserted(list, e) = InsertAt(list, k, e)
         /\ \A i \in 1..Len(list) : list[i].left <= e.left <=> i < k
  BY InsertedAt
<1> DEFINE q == Inserted(list, e)
<1>2. Len(list) \in Nat /\ DOMAIN list = 1..Len(list)
  BY LenProperties
<1>3. /\ q \in Seq(Timer) /\ Len(q) = Len(list) + 1
      /\ \A i \in 1..(Len(list) + 1) :
            q[i] = IF i < k THEN list[i] ELSE IF i = k THEN e ELSE list[i - 1]
  BY <1>1, InsertAtElements
<1> HIDE DEF q
<1>4. DOMAIN q = 1..(Len(list) + 1)
  BY <1>3, LenProperties
<1>5. \A i \in 1..Len(list) : list[i].left \in Nat
  BY TimerFields
<1>6. e.left \in Nat
  BY DEF Timer
<1>7. ASSUME NEW i \in DOMAIN q, NEW j \in DOMAIN q, i < j
      PROVE  q[i].left <= q[j].left
  <2>1. CASE j < k
    BY <1>2, <1>3, <1>4, <1>7, <2>1 DEF SortedByTime
  <2>2. CASE j = k
    <3>1. i < k /\ i \in 1..Len(list) BY <1>1, <1>2, <1>4, <1>7, <2>2
    <3>2. QED BY <1>1, <1>3, <1>4, <2>2, <3>1
  <2>3. CASE j > k /\ i < k
    <3>1. i \in DOMAIN list /\ j - 1 \in DOMAIN list /\ (i = j - 1 \/ i < j - 1)
      BY <1>2, <1>4, <2>3
    <3>2. q[i] = list[i] /\ q[j] = list[j - 1]
      BY <1>3, <1>4, <2>3
    <3>3. list[i].left \in Nat BY <1>2, <1>5, <3>1
    <3>4. QED BY <3>1, <3>2, <3>3 DEF SortedByTime
  <2>4. CASE j > k /\ i = k
    <3>1. j - 1 \in 1..Len(list) /\ ~(j - 1 < k) BY <1>2, <1>4, <2>4
    <3>2. ~(list[j - 1].left <= e.left) BY <1>1, <3>1
    <3>3. q[i] = e /\ q[j] = list[j - 1] BY <1>3, <1>4, <2>4
    <3>4. QED BY <1>5, <1>6, <3>1, <3>2, <3>3
  <2>5. CASE j > k /\ i > k
    <3>1. i - 1 \in DOMAIN list /\ j - 1 \in DOMAIN list /\ i - 1 < j - 1
      BY <1>2, <1>4, <1>7, <2>5
    <3>2. q[i] = list[i - 1] /\ q[j] = list[j - 1] BY <1>3, <1>4, <2>5
    <3>3. QED BY <3>1, <3>2 DEF SortedByTime
  <2>6. QED BY <1>4, <2>1, <2>2, <2>3, <2>4, <2>5
<1>8. ASSUME NEW i \in DOMAIN q, NEW j \in DOMAIN q, q[i].id = q[j].id
      PROVE  i = j
  <2> DEFINE old(n) == IF n < k THEN n ELSE n - 1
  <2>1. ASSUME NEW n \in DOMAIN q, n # k
        PROVE  old(n) \in DOMAIN list /\ q[n] = list[old(n)]
    BY <1>2, <1>3, <1>4, <2>1
  <2>2. q[k] = e
    BY <1>3
  <2>3. CASE i = k \/ j = k
    BY <1>8, <2>1, <2>2, <2>3
  <2>4. CASE i # k /\ j # k
    <3>1. old(i) = old(j) BY <1>8, <2>1, <2>4 DEF Distinct
    <3>2. QED BY <1>4, <2>4, <3>1
  <2>5. QED BY <2>3, <2>4
<1>9. q[1] = IF list = <<>> \/ e.left < list[1].left THEN e ELSE list[1]
  <2>1. q[1] = IF k = 1 THEN e ELSE list[1]
    BY <1>2, <1>3
  <2>2. CASE list = <<>>
    <3>1. k = 1 BY <2>2, EmptySeq, <1>1
    <3>2. QED BY <2>1, <2>2, <3>1
  <2>3. CASE list # <<>>
    <3>1. 1 \in 1..Len(list) BY <2>3, EmptySeq
    <3>2. list[1].left <= e.left <=> 1 < k BY <1>1, <3>1
    <3>3. QED BY <1>5, <1>6, <2>1, <2>3, <3>1, <3>2
  <2>4. QED BY <2>2, <2>3
<1>10. SortedByTime(q)
  BY <1>7 DEF SortedByTime
<1>11. Distinct(q)
  BY <1>8 DEF Distinct
<1>12. QED
  BY <1>3, <1>9, <1>10, <1>11 DEF q

LEMMA TailProperties ==
    ASSUME NEW list \in Seq(Timer), list # <<>>, SortedByTime(list), Distinct(list)
    PROVE  /\ Tail(list) \in Seq(Timer) /\ Len(Tail(list)) = Len(list) - 1
           /\ SortedByTime(Tail(list)) /\ Distinct(Tail(list))
           /\ \A i \in DOMAIN Tail(list) : i + 1 \in DOMAIN list /\ Tail(list)[i] = list[i + 1]
           /\ Tail(list) # <<>> => list[1].left <= Tail(list)[1].left
<1> DEFINE t == Tail(list)
<1>1. /\ t \in Seq(Timer) /\ Len(t) = Len(list) - 1
      /\ \A i \in 1..Len(t) : t[i] = list[i + 1]
  BY HeadTailProperties
<1>2. /\ Len(list) \in Nat /\ DOMAIN list = 1..Len(list)
      /\ Len(t) \in Nat /\ DOMAIN t = 1..Len(t)
  BY <1>1, LenProperties
<1> HIDE DEF t
<1>3. \A i \in DOMAIN t : i + 1 \in DOMAIN list /\ t[i] = list[i + 1]
  BY <1>1, <1>2
<1>4. SortedByTime(t)
  BY <1>2, <1>3 DEF SortedByTime
<1>5. Distinct(t)
  BY <1>2, <1>3 DEF Distinct
<1>6. t # <<>> => list[1].left <= t[1].left
  <2> SUFFICES ASSUME t # <<>> PROVE list[1].left <= t[1].left
    OBVIOUS
  <2>1. 1 \in DOMAIN t BY <1>1, <1>2, EmptySeq
  <2>2. 2 \in DOMAIN list /\ 1 \in DOMAIN list /\ t[1] = list[2] BY <1>2, <1>3, <2>1
  <2>3. QED BY <2>2 DEF SortedByTime
<1>7. QED
  BY <1>1, <1>3, <1>4, <1>5, <1>6 DEF t

-----------------------------------------------------------------------------
(* The steps *)

\* Adding an event to a list whose head the register covers.
LEMMA Adding ==
    ASSUME TimerInv, NEW list \in Seq(Timer), SortedByTime(list), Distinct(list),
           \A i \in DOMAIN list : \E j \in DOMAIN timers : list[i].id = timers[j].id,
           Len(list) < MaxTimers,
           list # <<>> => stimecmp # Never /\ stimecmp <= list[1].left,
           NEW callback \in {"preempt", "other"}, NEW ticks \in Nat,
           add_timer_ticks(list, callback, ticks)
    PROVE  ListOK' /\ RegisterCoversHead' /\ stimecmp' \in Nat \cup {Never}
<1>1. CASE timers' = list /\ UNCHANGED stimecmp
  <2>1. Len(list) <= MaxTimers
    BY LenProperties, TimersAssumption
  <2>2. QED BY <1>1, <2>1 DEF TimerInv, TimerTypeOK, ListOK, RegisterCoversHead
<1>2. CASE /\ timers' = Inserted(list, Event(callback, ticks))
           /\ stimecmp' = ArmedAfter(list, Event(callback, ticks))
  <2> DEFINE e == Event(callback, ticks)
             q == Inserted(list, e)
  <2>1. FreshTimerId \in 1..(MaxTimers + 1) /\ \A i \in DOMAIN timers : timers[i].id # FreshTimerId
    BY FreshIdIsFresh DEF TimerInv, ListOK
  <2>2. e \in Timer /\ e.id = FreshTimerId /\ e.left = ticks
    BY <2>1 DEF Event, Timer
  <2> HIDE DEF e
  <2>3. \A i \in DOMAIN list : list[i].id # e.id
    BY <2>1, <2>2
  <2>4. /\ q \in Seq(Timer) /\ Len(q) = Len(list) + 1 /\ SortedByTime(q) /\ Distinct(q)
        /\ q[1] = IF list = <<>> \/ e.left < list[1].left THEN e ELSE list[1]
    BY <2>2, <2>3, InsertedProperties
  <2>5. timers' = q /\ stimecmp' = ArmedAfter(list, e)
    BY <1>2 DEF e
  <2> HIDE DEF q
  <2>6. Len(list) \in Nat /\ Len(q) <= MaxTimers
    BY <2>4, LenProperties, TimersAssumption
  <2>7. ListOK'
    BY <2>4, <2>5, <2>6 DEF ListOK
  <2>8. stimecmp' = IF list = <<>> \/ e.left < list[1].left THEN e.left ELSE stimecmp
    BY <2>5 DEF ArmedAfter
  <2>9. stimecmp \in Nat \cup {Never} /\ Never \notin Nat
    BY TimersAssumption DEF TimerInv, TimerTypeOK
  <2>10. e.left \in Nat
    BY <2>2
  <2>11. stimecmp' # Never /\ stimecmp' <= q[1].left /\ stimecmp' \in Nat
    BY <2>4, <2>8, <2>9, <2>10
  <2>12. QED
    BY <2>5, <2>7, <2>11 DEF RegisterCoversHead
<1>3. QED
  BY <1>1, <1>2 DEF add_timer_ticks

LEMMA TimerInitOK == TimerInit => TimerInv
<1> SUFFICES ASSUME TimerInit PROVE TimerInv
  OBVIOUS
<1> DEFINE e == [left |-> Slice, callback |-> "preempt", id |-> 1]
<1>1. e \in Timer /\ e.left = Slice /\ Slice \in Nat /\ Never \notin Nat
  BY TimersAssumption DEF Timer
<1> HIDE DEF e
<1>2. timers = <<e>> /\ stimecmp = Slice
  BY DEF TimerInit, e
<1>3. timers \in Seq(Timer) /\ Len(timers) = 1 /\ DOMAIN timers = 1..1 /\ timers[1] = e
  BY <1>1, <1>2
<1>4. ListOK
  BY <1>1, <1>3, TimersAssumption DEF ListOK, SortedByTime, Distinct
<1>5. RegisterCoversHead
  BY <1>1, <1>2, <1>3 DEF RegisterCoversHead
<1>6. TimerTypeOK
  BY <1>1, <1>2, <1>3 DEF TimerInit, TimerTypeOK, Timer
<1>7. QED
  BY <1>4, <1>5, <1>6 DEF TimerInv

\* The types of what is left once the list and the register are known.
RestOK ==
    /\ need_resched \in BOOLEAN /\ handler \in [Handlers -> {"none", "loop", "window"}]
    /\ preempted \in [Handlers -> BOOLEAN] /\ inside \in Handlers \cup {0}

LEMMA TypeOfRest ==
    ASSUME TimerInv, [TimerNext]_timerVars PROVE RestOK'
<1>1. RestOK
  BY DEF TimerInv, TimerTypeOK, RestOK
<1>2. CASE UNCHANGED timerVars
  BY <1>1, <1>2 DEF timerVars, RestOK
<1>3. CASE \E ticks \in Delays : add_timer(ticks)
  BY <1>1, <1>3 DEF add_timer, RestOK
<1>4. CASE Tick
  BY <1>1, <1>4 DEF Tick, RestOK
<1>5. ASSUME NEW a \in Handlers, Handle(a) PROVE RestOK'
  <2>1. CASE core_timer_handler(a)
    BY <1>1, <2>1 DEF core_timer_handler, RestOK
  <2>2. CASE preempt_callback(a)
    BY <1>1, <2>2 DEF preempt_callback, RestOK
  <2>3. CASE other_callback(a)
    BY <1>1, <2>3 DEF other_callback, RestOK
  <2>4. CASE resume(a)
    BY <1>1, <2>4 DEF resume, RestOK
  <2>5. CASE finish(a)
    BY <1>1, <2>5 DEF finish, RestOK
  <2>6. QED BY <1>5, <2>1, <2>2, <2>3, <2>4, <2>5 DEF Handle
<1>6. QED
  BY <1>2, <1>3, <1>4, <1>5 DEF TimerNext

\* Time passes for every event and for the register alike.
LEMMA TickOK ==
    ASSUME TimerInv, Tick
    PROVE  ListOK' /\ RegisterCoversHead' /\ stimecmp' \in Nat \cup {Never}
<1> DEFINE n == Len(timers)
<1>1. /\ timers \in Seq(Timer) /\ n \in Nat /\ DOMAIN timers = 1..n
      /\ stimecmp \in Nat \cup {Never} /\ Never \notin Nat
  BY LenProperties, TimersAssumption DEF TimerInv, ListOK, TimerTypeOK
<1>2. timers' = [i \in 1..n |-> [timers[i] EXCEPT !.left = Less(@)]]
  BY <1>1 DEF Tick
<1>3. ASSUME NEW i \in 1..n
      PROVE  /\ timers'[i] \in Timer /\ timers'[i].id = timers[i].id
             /\ timers[i].left \in Nat /\ timers'[i].left = Less(timers[i].left)
  <2>1. timers[i] \in Timer BY <1>1, ElementOfSeq
  <2>2. timers'[i] = [timers[i] EXCEPT !.left = Less(@)] BY <1>2
  <2>3. timers[i].left \in Nat /\ Less(timers[i].left) \in Nat BY <2>1 DEF Timer, Less
  <2>4. QED BY <2>1, <2>2, <2>3 DEF Timer
<1>4. timers' \in [1..n -> Timer]
  <2>1. timers' = [i \in 1..n |-> timers'[i]] BY <1>2
  <2>2. QED BY <1>3, <2>1
<1>5. timers' \in Seq(Timer) /\ Len(timers') = n /\ DOMAIN timers' = 1..n
  BY <1>1, <1>4, FunctionIsSeq
<1>6. SortedByTime(timers')
  BY <1>1, <1>3, <1>5 DEF TimerInv, ListOK, SortedByTime, Less
<1>7. Distinct(timers')
  BY <1>1, <1>3, <1>5 DEF TimerInv, ListOK, Distinct
<1>8. ListOK'
  BY <1>5, <1>6, <1>7 DEF ListOK, TimerInv
<1>9. stimecmp' = IF stimecmp = Never THEN Never ELSE Less(stimecmp)
  BY DEF Tick
<1>10. RegisterCoversHead'
  <2> SUFFICES ASSUME timers' # <<>>
               PROVE  stimecmp' # Never /\ stimecmp' <= timers'[1].left
    BY DEF RegisterCoversHead
  <2>1. 1 \in 1..n /\ timers # <<>>
    BY <1>1, <1>5, EmptySeq
  <2>2. stimecmp # Never /\ stimecmp <= timers[1].left
    BY <2>1 DEF TimerInv, RegisterCoversHead
  <2>3. QED BY <1>1, <1>3, <1>9, <2>1, <2>2 DEF Less
<1>11. stimecmp' \in Nat \cup {Never}
  BY <1>1, <1>9 DEF Less
<1>12. QED
  BY <1>8, <1>10, <1>11

\* A handler finds the head expired: whatever follows it in the list, the
\* register stands at zero or behind nothing.
LEMMA AtExpiry ==
    ASSUME TimerInv, Expired
    PROVE  /\ Tail(timers) \in Seq(Timer) /\ Len(Tail(timers)) = Len(timers) - 1
           /\ SortedByTime(Tail(timers)) /\ Distinct(Tail(timers))
           /\ \A i \in DOMAIN Tail(timers) :
                 \E j \in DOMAIN timers : Tail(timers)[i].id = timers[j].id
           /\ Tail(timers) # <<>> => stimecmp # Never /\ stimecmp <= Tail(timers)[1].left
<1> DEFINE t == Tail(timers)
<1>1. timers \in Seq(Timer) /\ timers # <<>> /\ SortedByTime(timers) /\ Distinct(timers)
  BY DEF TimerInv, ListOK, Expired
<1>2. /\ t \in Seq(Timer) /\ Len(t) = Len(timers) - 1 /\ SortedByTime(t) /\ Distinct(t)
      /\ \A i \in DOMAIN t : i + 1 \in DOMAIN timers /\ t[i] = timers[i + 1]
      /\ t # <<>> => timers[1].left <= t[1].left
  BY <1>1, TailProperties
<1>3. stimecmp # Never /\ stimecmp <= timers[1].left /\ stimecmp \in Nat
  BY <1>1 DEF TimerInv, RegisterCoversHead, TimerTypeOK
<1>4. t # <<>> => t[1].left \in Nat
  <2>1. t # <<>> => 1 \in 1..Len(t) BY <1>2, EmptySeq
  <2>2. QED BY <1>2, <2>1, TimerFields
<1>5. timers[1].left \in Nat
  BY <1>1, EmptySeq, TimerFields
<1> HIDE DEF t
<1>6. t # <<>> => stimecmp # Never /\ stimecmp <= t[1].left
  BY <1>2, <1>3, <1>4, <1>5
<1>7. QED
  BY <1>2, <1>6 DEF t

LEMMA TimerStepOK ==
    ASSUME TimerInv, [TimerNext]_timerVars
    PROVE  ListOK' /\ RegisterCoversHead' /\ stimecmp' \in Nat \cup {Never}
<1>1. /\ timers \in Seq(Timer) /\ Len(timers) \in Nat /\ SortedByTime(timers) /\ Distinct(timers)
      /\ Len(timers) <= MaxTimers /\ MaxTimers \in Nat
      /\ stimecmp \in Nat \cup {Never} /\ Never \notin Nat
  BY LenProperties, TimersAssumption DEF TimerInv, ListOK, TimerTypeOK
<1>2. CASE UNCHANGED <<timers, stimecmp>>
  BY <1>2 DEF TimerInv, TimerTypeOK, ListOK, RegisterCoversHead
<1>3. ASSUME NEW ticks \in Delays, add_timer(ticks)
      PROVE  ListOK' /\ RegisterCoversHead' /\ stimecmp' \in Nat \cup {Never}
  <2>1. /\ Len(timers) < MaxTimers /\ add_timer_ticks(timers, "other", ticks)
        /\ ticks \in Nat
    BY <1>3, TimersAssumption DEF add_timer
  <2>2. timers # <<>> => stimecmp # Never /\ stimecmp <= timers[1].left
    BY DEF TimerInv, RegisterCoversHead
  <2>3. QED BY <1>1, <2>1, <2>2, Adding
<1>4. CASE Tick
  BY <1>4, TickOK
<1>5. ASSUME NEW a \in Handlers, preempt_callback(a)
      PROVE  ListOK' /\ RegisterCoversHead' /\ stimecmp' \in Nat \cup {Never}
  <2>1. Expired /\ add_timer_ticks(Tail(timers), "preempt", Slice) /\ Slice \in Nat
    BY <1>5, TimersAssumption DEF preempt_callback
  <2>2. Len(Tail(timers)) < MaxTimers
    BY <1>1, <2>1, AtExpiry
  <2>3. QED BY <2>1, <2>2, AtExpiry, Adding
<1>6. ASSUME NEW a \in Handlers, other_callback(a)
      PROVE  ListOK' /\ RegisterCoversHead' /\ stimecmp' \in Nat \cup {Never}
  <2>1. Expired /\ timers' = Tail(timers) /\ stimecmp' = stimecmp
    BY <1>6 DEF other_callback
  <2>2. Len(Tail(timers)) <= MaxTimers
    BY <1>1, <2>1, AtExpiry
  <2>3. QED BY <1>1, <2>1, <2>2, AtExpiry DEF ListOK, RegisterCoversHead
<1>7. ASSUME NEW a \in Handlers, finish(a)
      PROVE  ListOK' /\ RegisterCoversHead' /\ stimecmp' \in Nat \cup {Never}
  <2>1. timers' = timers /\ stimecmp' = Rearmed
    BY <1>7 DEF finish
  <2>2. timers # <<>> => timers[1].left \in Nat
    BY <1>1, EmptySeq, TimerFields
  <2>3. QED BY <1>1, <2>1, <2>2 DEF Rearmed, ListOK, RegisterCoversHead
<1>8. ASSUME NEW a \in Handlers, Handle(a)
      PROVE  ListOK' /\ RegisterCoversHead' /\ stimecmp' \in Nat \cup {Never}
  <2>1. CASE core_timer_handler(a) \/ resume(a)
    BY <1>2, <2>1 DEF core_timer_handler, resume
  <2>2. QED BY <1>5, <1>6, <1>7, <1>8, <2>1 DEF Handle
<1>9. QED
  BY <1>2, <1>3, <1>4, <1>8 DEF TimerNext, timerVars

-----------------------------------------------------------------------------
(* Theorems *)

\* The list, the register and the handlers' state are as add_timer_ticks and
\* core_timer_handler leave them, whatever handlers are nested.
THEOREM TimerInvariance == TimerSpec => []TimerInv
<1>1. TimerInit => TimerInv
  BY TimerInitOK
<1>2. TimerInv /\ [TimerNext]_timerVars => TimerInv'
  <2> SUFFICES ASSUME TimerInv, [TimerNext]_timerVars PROVE TimerInv'
    OBVIOUS
  <2>1. ListOK' /\ RegisterCoversHead' /\ stimecmp' \in Nat \cup {Never} /\ RestOK'
    BY TimerStepOK, TypeOfRest
  <2>2. QED BY <2>1 DEF TimerInv, TimerTypeOK, RestOK, ListOK, Timer
<1>3. QED
  BY <1>1, <1>2, PTL DEF TimerSpec

\* add_timer_ticks keeps timer_head sorted by expiry, so that the handler, which
\* looks at the head only, finds every event that has expired.
THEOREM ListIsSorted == TimerSpec => []TimersAreSorted
<1>1. TimerInv => TimersAreSorted
  BY DEF TimerInv, ListOK, SortedByTime, TimersAreSorted
<1>2. QED
  BY <1>1, TimerInvariance, PTL

\* The register is set for the head or for an earlier time at every step, though
\* add_timer_ticks sets it for a new head only and nested handlers re-arm it on
\* their own: no event is slept through.
THEOREM NothingSleptThrough == TimerSpec => []RegisterCoversHead
<1>1. TimerInv => RegisterCoversHead
  BY DEF TimerInv
<1>2. QED
  BY <1>1, TimerInvariance, PTL

(***************************************************************************)
(* The deferred tasks.                                                     *)
(***************************************************************************)

Task == [priority : Priorities, id : 1..MaxTasks]
Call == [task : Task \cup {NoTask}, prev_priority : Priorities \cup {-1}, direct : BOOLEAN]

\* The types of all the variables.
Typed ==
    /\ tasks \in Seq(Task) /\ to_add \in Seq(Priorities)
    /\ current_priority \in Priorities \cup {-1} /\ current \in Threads
    /\ calls \in [Threads -> Seq(Call)]

\* The tasks there are, and those to come, are within the bound.
Room == Len(tasks) + Cardinality(Running) + Len(to_add) <= MaxTasks

\* The list is ordered, the most urgent task first.
Sorted == \A i, j \in 1..Len(tasks) : i < j => tasks[i].priority >= tasks[j].priority

\* p is the priority of the most urgent task of the first n calls.
Below(s, n, p) ==
    /\ \A j \in 1..n : InTask(s[j]) => s[j].task.priority <= p
    /\ p # -1 => \E j \in 1..n : InTask(s[j]) /\ s[j].task.priority = p

\* Each call has put away the priority of the calls it interrupts.
Saved(s) == \A i \in 1..Len(s) : InTask(s[i]) => Below(s, i - 1, s[i].prev_priority)

\* The running thread's calls account for current_priority; no other thread
\* has left a task in the middle.
Nested ==
    /\ Saved(calls[current])
    /\ Below(calls[current], Len(calls[current]), current_priority)
    /\ \A t \in Threads : t # current => RunningOf(t) = {}

TasksInv == Typed /\ Room /\ Sorted

-----------------------------------------------------------------------------
(* Lemmas on sets and sequences *)

LEMMA RangeSize ==
    ASSUME NEW S, NEW q \in Seq(S)
    PROVE  IsFiniteSet(Range(q)) /\ Cardinality(Range(q)) <= Len(q)
<1>1. Len(q) \in Nat /\ DOMAIN q = 1..Len(q)
  BY LenProperties
<1>2. IsFiniteSet(1..Len(q)) /\ Cardinality(1..Len(q)) = Len(q)
  BY <1>1, FS_Interval
<1> DEFINE T == Range(q)
<1>3. q \in [1..Len(q) -> T]
  BY <1>1 DEF Range
<1>4. q \in Surjection(1..Len(q), T)
  BY <1>1, <1>3 DEF Surjection, Range
<1> HIDE DEF T
<1>5. IsFiniteSet(T) /\ Cardinality(T) <= Cardinality(1..Len(q))
  BY <1>2, <1>4, FS_Surjection
<1>6. QED
  BY <1>2, <1>5 DEF T

\* A sequence whose last element is replaced.
LEMMA LastReplaced ==
    ASSUME NEW S, NEW q \in Seq(S), q # <<>>, NEW x \in S
    PROVE  /\ Append(Front(q), x) \in Seq(S) /\ Len(Append(Front(q), x)) = Len(q)
           /\ \A i \in 1..Len(q) : Append(Front(q), x)[i] = IF i = Len(q) THEN x ELSE q[i]
<1>1. Len(q) \in Nat /\ Len(q) >= 1
  BY EmptySeq, LenProperties
<1> DEFINE r == SubSeq(q, 1, Len(q) - 1)
<1>2. r \in Seq(S) /\ Len(r) = Len(q) - 1 /\ \A i \in 1..(Len(q) - 1) : r[i] = q[i]
  BY <1>1, PopElements
<1>3. Front(q) = r
  BY DEF Front
<1> HIDE DEF r
<1>4. /\ Append(r, x) \in Seq(S) /\ Len(Append(r, x)) = Len(r) + 1
      /\ \A i \in 1..(Len(r) + 1) : Append(r, x)[i] = IF i <= Len(r) THEN r[i] ELSE x
  BY <1>2, PushElements
<1>5. QED
  BY <1>1, <1>2, <1>3, <1>4

LEMMA PrioritiesAreNat == Priorities \subseteq Nat /\ IsFiniteSet(Priorities)
<1>1. Batch \in Seq(Nat)
  BY TasksAssumption
<1>2. QED
  BY <1>1, RangeSize, ElementOfSeq, LenProperties DEF Priorities, Range

LEMMA TaskIsFinite == IsFiniteSet(Task)
<1> DEFINE P == Priorities \X (1..MaxTasks)
           f == [x \in P |-> [priority |-> x[1], id |-> x[2]]]
<1>1. MaxTasks \in Nat
  BY TasksAssumption
<1>2. IsFiniteSet(1..MaxTasks)
  BY <1>1, FS_Interval
<1>3. IsFiniteSet(P)
  BY <1>2, PrioritiesAreNat, FS_Product
<1>4. f \in [P -> Task]
  BY DEF Task
<1>5. \A y \in Task : \E x \in P : f[x] = y
  <2> SUFFICES ASSUME NEW y \in Task PROVE \E x \in P : f[x] = y
    OBVIOUS
  <2>1. y = [priority |-> y.priority, id |-> y.id] /\ <<y.priority, y.id>> \in P
    BY DEF Task
  <2>2. f[<<y.priority, y.id>>] = y
    BY <2>1
  <2>3. QED BY <2>1, <2>2
<1> HIDE DEF P, f
<1>6. f \in Surjection(P, Task)
  BY <1>4, <1>5 DEF Surjection
<1>7. QED
  BY <1>3, <1>6, FS_Surjection

-----------------------------------------------------------------------------
(* Running tasks *)

\* The tasks in a sequence of calls.
TasksIn(s) == {call.task : call \in {x \in Range(s) : InTask(x)}}

LEMMA CallFields ==
    ASSUME NEW s \in Seq(Call)
    PROVE  /\ Len(s) \in Nat
           /\ \A i \in 1..Len(s) :
                /\ s[i] \in Call
                /\ InTask(s[i]) => s[i].task \in Task
                /\ s[i].prev_priority \in Priorities \cup {-1}
           /\ \A x : x \in TasksIn(s) <=> \E i \in 1..Len(s) : InTask(s[i]) /\ x = s[i].task
           /\ TasksIn(s) \subseteq Task
<1>1. Len(s) \in Nat /\ DOMAIN s = 1..Len(s)
  BY LenProperties
<1>2. \A i \in 1..Len(s) : s[i] \in Call
  BY ElementOfSeq
<1>3. \A c \in Call : /\ InTask(c) => c.task \in Task
                      /\ c.prev_priority \in Priorities \cup {-1}
  BY DEF Call, InTask
<1>4. \A x : x \in TasksIn(s) <=> \E i \in 1..Len(s) : InTask(s[i]) /\ x = s[i].task
  BY <1>1 DEF TasksIn, Range
<1>5. QED
  BY <1>1, <1>2, <1>3, <1>4

LEMMA CallsOf == /\ \A t : RunningOf(t) = TasksIn(calls[t])
                 /\ Typed => \A t \in Threads : calls[t] \in Seq(Call)
  BY DEF RunningOf, TasksIn, Typed

LEMMA LoopIsCall ==
    ASSUME NEW direct \in BOOLEAN
    PROVE  AtLoop(direct) \in Call /\ ~InTask(AtLoop(direct))
  BY DEF AtLoop, Call, InTask

\* An interrupt's call has not started a task.
LEMMA TasksInLonger ==
    ASSUME NEW s \in Seq(Call), NEW c \in Call, ~InTask(c)
    PROVE  Append(s, c) \in Seq(Call) /\ TasksIn(Append(s, c)) = TasksIn(s)
<1> DEFINE r == Append(s, c)
<1>1. Len(s) \in Nat
  BY LenProperties
<1>2. /\ r \in Seq(Call) /\ Len(r) = Len(s) + 1
      /\ \A i \in 1..(Len(s) + 1) : r[i] = IF i <= Len(s) THEN s[i] ELSE c
  BY PushElements
<1> HIDE DEF r
<1>3. \A x : x \in TasksIn(r) <=> \E i \in 1..Len(r) : InTask(r[i]) /\ x = r[i].task
  BY <1>2, CallFields
<1>4. \A x : x \in TasksIn(s) <=> \E i \in 1..Len(s) : InTask(s[i]) /\ x = s[i].task
  BY CallFields
<1>5. /\ \A i \in 1..Len(s) : i \in 1..Len(r) /\ r[i] = s[i]
      /\ \A i \in 1..Len(r) : InTask(r[i]) => i \in 1..Len(s)
  BY <1>1, <1>2
<1>6. \A x : x \in TasksIn(r) <=> x \in TasksIn(s)
  BY <1>3, <1>4, <1>5
<1>7. QED
  BY <1>2, <1>6 DEF r

\* The end of a loop, with no task in the middle.
LEMMA TasksInShorter ==
    ASSUME NEW s \in Seq(Call), s # <<>>
    PROVE  Front(s) \in Seq(Call) /\ TasksIn(Front(s)) \subseteq TasksIn(s)
<1> DEFINE r == SubSeq(s, 1, Len(s) - 1)
<1>1. Len(s) \in Nat /\ Len(s) >= 1
  BY EmptySeq, LenProperties
<1>2. r \in Seq(Call) /\ Len(r) = Len(s) - 1 /\ \A i \in 1..(Len(s) - 1) : r[i] = s[i]
  BY <1>1, PopElements
<1>3. Front(s) = r
  BY DEF Front
<1> HIDE DEF r
<1>4. \A x : x \in TasksIn(r) <=> \E i \in 1..Len(r) : InTask(r[i]) /\ x = r[i].task
  BY <1>2, CallFields
<1>5. \A x : x \in TasksIn(s) <=> \E i \in 1..Len(s) : InTask(s[i]) /\ x = s[i].task
  BY CallFields
<1>6. \A i \in 1..Len(r) : i \in 1..Len(s) /\ r[i] = s[i]
  BY <1>1, <1>2
<1>7. QED
  BY <1>2, <1>3, <1>4, <1>5, <1>6

\* The innermost call starts a task or returns from one.
LEMMA TasksInReplaced ==
    ASSUME NEW s \in Seq(Call), s # <<>>, NEW c \in Call
    PROVE  /\ Append(Front(s), c) \in Seq(Call)
           /\ TasksIn(Append(Front(s), c)) \subseteq TasksIn(s) \cup (IF InTask(c) THEN {c.task} ELSE {})
<1> DEFINE r == Append(Front(s), c)
<1>1. Len(s) \in Nat
  BY LenProperties
<1>2. /\ r \in Seq(Call) /\ Len(r) = Len(s)
      /\ \A i \in 1..Len(s) : r[i] = IF i = Len(s) THEN c ELSE s[i]
  BY LastReplaced
<1> HIDE DEF r
<1>3. \A x : x \in TasksIn(r) <=> \E i \in 1..Len(r) : InTask(r[i]) /\ x = r[i].task
  BY <1>2, CallFields
<1>4. \A x : x \in TasksIn(s) <=> \E i \in 1..Len(s) : InTask(s[i]) /\ x = s[i].task
  BY CallFields
<1>5. \A i \in 1..Len(r) : i \in 1..Len(s) /\ (r[i] = s[i] \/ r[i] = c)
  BY <1>1, <1>2
<1>6. QED
  BY <1>2, <1>3, <1>4, <1>5 DEF r

LEMMA RunningIsFinite ==
    ASSUME Typed
    PROVE  /\ Running \subseteq Task /\ IsFiniteSet(Running) /\ Cardinality(Running) \in Nat
           /\ \A x : x \in Running <=> \E t \in Threads : x \in RunningOf(t)
<1>1. \A x : x \in Running <=> \E t \in Threads : x \in RunningOf(t)
  BY DEF Running
<1>2. Running \subseteq Task
  BY <1>1, CallsOf, CallFields
<1>3. QED
  BY <1>1, <1>2, TaskIsFinite, FS_Subset, FS_CardinalityType

-----------------------------------------------------------------------------
(* The types and the bound *)

LEMMA InitTyped == TasksInit => Typed
  BY TasksAssumption DEF TasksInit, Typed, Initial_priority

\* Some number is free when a task is to be added.
LEMMA FreshIdExists ==
    ASSUME Typed, Room, to_add # <<>>
    PROVE  /\ FreshTaskId \in 1..MaxTasks
           /\ \A x \in Range(tasks) \cup Running : x.id # FreshTaskId
<1> DEFINE S == Range(tasks) \cup Running
           f == [x \in S |-> x.id]
           Used == {x.id : x \in S}
<1>1. tasks \in Seq(Task) /\ Len(tasks) \in Nat /\ Len(to_add) \in Nat /\ Len(to_add) # 0
  BY EmptySeq, LenProperties DEF Typed
<1>2. IsFiniteSet(Range(tasks)) /\ Cardinality(Range(tasks)) <= Len(tasks)
  BY <1>1, RangeSize
<1>3. IsFiniteSet(Running) /\ Cardinality(Running) \in Nat
  BY RunningIsFinite
<1>4. /\ IsFiniteSet(S) /\ Cardinality(S) \in Nat
      /\ Cardinality(S) <= Cardinality(Range(tasks)) + Cardinality(Running)
  <2>1. Cardinality(Range(tasks)) \in Nat
    BY <1>2, FS_CardinalityType
  <2>2. /\ IsFiniteSet(S)
        /\ Cardinality(S) = Cardinality(Range(tasks)) + Cardinality(Running)
                              - Cardinality(Range(tasks) \cap Running)
    BY <1>2, <1>3, FS_Union
  <2>3. Cardinality(Range(tasks) \cap Running) \in Nat
    BY <1>2, FS_Intersection, FS_CardinalityType
  <2>4. Cardinality(S) \in Nat
    BY <2>2, FS_CardinalityType
  <2> HIDE DEF S
  <2>5. QED BY <1>3, <2>1, <2>2, <2>3, <2>4
<1>5. Cardinality(Range(tasks)) \in Nat
  BY <1>2, FS_CardinalityType
<1>6. Cardinality(S) < MaxTasks
  <2> HIDE DEF S
  <2>1. MaxTasks \in Nat
    BY TasksAssumption
  <2>2. QED BY <1>1, <1>2, <1>3, <1>4, <1>5, <2>1 DEF Room
<1>7. f \in Surjection(S, Used)
  BY DEF Surjection
<1> HIDE DEF S, f
<1>8. IsFiniteSet(Used) /\ Cardinality(Used) <= Cardinality(S) /\ Cardinality(Used) \in Nat
  BY <1>4, <1>7, FS_Surjection, FS_CardinalityType
<1> HIDE DEF Used
<1>9. \E n \in 1..MaxTasks : n \notin Used
  <2> SUFFICES ASSUME 1..MaxTasks \subseteq Used PROVE FALSE
    OBVIOUS
  <2>1. MaxTasks \in Nat
    BY TasksAssumption
  <2>2. Cardinality(1..MaxTasks) = MaxTasks
    BY <2>1, FS_Interval
  <2>3. Cardinality(1..MaxTasks) <= Cardinality(Used)
    BY <1>8, FS_Subset
  <2>4. QED BY <1>4, <1>6, <1>8, <2>1, <2>2, <2>3
<1>10. \E n \in 1..MaxTasks : \A x \in Range(tasks) \cup Running : x.id # n
  BY <1>9 DEF Used, S
<1>11. QED
  BY <1>10 DEF FreshTaskId

\* A new task goes behind those at least as urgent.
LEMMA Inserting ==
    ASSUME Typed, Sorted, NEW x \in Task
    PROVE  LET new == InsertAt(tasks, InsertPosition(x.priority), x)
           IN  /\ new \in Seq(Task) /\ Len(new) = Len(tasks) + 1
               /\ \A i, j \in 1..Len(new) : i < j => new[i].priority >= new[j].priority
<1> DEFINE n == Len(tasks)
           T == {i \in DOMAIN tasks : tasks[i].priority >= x.priority}
           k == Cardinality(T) + 1
           new == InsertAt(tasks, k, x)
<1>1. tasks \in Seq(Task) /\ n \in Nat /\ DOMAIN tasks = 1..n
  BY LenProperties DEF Typed
<1>2. x.priority \in Nat /\ \A i \in 1..n : tasks[i].priority \in Nat
  <2>1. \A y \in Task : y.priority \in Nat
    BY PrioritiesAreNat DEF Task
  <2>2. QED BY <1>1, <2>1, ElementOfSeq
<1>3. T \in SUBSET (1..n)
  BY <1>1
<1>4. \A i \in T : 1..i \subseteq T
  <2> SUFFICES ASSUME NEW i \in T, NEW j \in 1..i PROVE j \in T
    OBVIOUS
  <2>1. i \in 1..n /\ j \in 1..n /\ j <= i
    BY <1>1
  <2>2. tasks[j].priority >= tasks[i].priority
    BY <1>1, <1>2, <2>1 DEF Sorted
  <2>3. tasks[i].priority >= x.priority
    OBVIOUS
  <2>4. QED BY <1>1, <1>2, <2>1, <2>2, <2>3
<1>5. \A i \in 1..n : i \in T <=> tasks[i].priority >= x.priority
  BY <1>1
<1> HIDE DEF T
<1>6. Cardinality(T) \in 0..n /\ T = 1..Cardinality(T)
  BY <1>1, <1>3, <1>4, PrefixCount
<1>7. k \in 1..(n + 1) /\ \A i \in 1..n : i < k <=> tasks[i].priority >= x.priority
  BY <1>1, <1>5, <1>6
<1> HIDE DEF k
<1>8. /\ new \in Seq(Task) /\ Len(new) = n + 1
      /\ \A i \in 1..(n + 1) : new[i] = IF i < k THEN tasks[i] ELSE IF i = k THEN x ELSE tasks[i - 1]
  BY <1>1, <1>7, InsertAtElements
<1>9. InsertPosition(x.priority) = k
  BY DEF InsertPosition, k, T
<1> HIDE DEF new
<1>10. ASSUME NEW i \in 1..(n + 1), NEW j \in 1..(n + 1), i < j
       PROVE  new[i].priority >= new[j].priority
  <2>1. CASE j < k
    <3>1. new[i] = tasks[i] /\ new[j] = tasks[j] /\ i \in 1..n /\ j \in 1..n
      BY <1>1, <1>7, <1>8, <1>10, <2>1
    <3>2. QED BY <1>10, <3>1 DEF Sorted
  <2>2. CASE j = k
    <3>1. new[i] = tasks[i] /\ new[j] = x /\ i \in 1..n /\ i < k
      BY <1>1, <1>7, <1>8, <1>10, <2>2
    <3>2. QED BY <1>7, <3>1
  <2>3. CASE j > k /\ i = k
    <3>1. new[i] = x /\ new[j] = tasks[j - 1] /\ j - 1 \in 1..n /\ ~(j - 1 < k)
      BY <1>1, <1>7, <1>8, <1>10, <2>3
    <3>2. QED BY <1>2, <1>7, <3>1
  <2>4. CASE j > k /\ i < k
    <3>1. /\ new[i] = tasks[i] /\ new[j] = tasks[j - 1]
          /\ i \in 1..n /\ j - 1 \in 1..n /\ i < j - 1
      BY <1>1, <1>7, <1>8, <1>10, <2>4
    <3>2. QED BY <3>1 DEF Sorted
  <2>5. CASE j > k /\ i > k
    <3>1. /\ new[i] = tasks[i - 1] /\ new[j] = tasks[j - 1]
          /\ i - 1 \in 1..n /\ j - 1 \in 1..n /\ i - 1 < j - 1
      BY <1>1, <1>7, <1>8, <1>10, <2>5
    <3>2. QED BY <3>1 DEF Sorted
  <2>6. QED BY <1>1, <1>7, <2>1, <2>2, <2>3, <2>4, <2>5
<1>11. QED
  BY <1>8, <1>9, <1>10 DEF new

\* A step that changes one thread's calls.
LEMMA OneThreadsCalls ==
    ASSUME NEW u \in Threads, \A t \in Threads : t # u => calls'[t] = calls[t],
           NEW X, TasksIn(calls'[u]) \subseteq TasksIn(calls[u]) \cup X
    PROVE  /\ Running' \subseteq Running \cup X
           /\ \A t \in Threads : t # u => RunningOf(t)' = RunningOf(t)
<1>1. \A t : RunningOf(t) = TasksIn(calls[t]) /\ RunningOf(t)' = TasksIn(calls'[t])
  BY DEF RunningOf, TasksIn
<1>2. \A t \in Threads : t # u => RunningOf(t)' = RunningOf(t)
  BY <1>1
<1>3. \A t \in Threads : RunningOf(t)' \subseteq RunningOf(t) \cup X
  BY <1>1, <1>2
<1>4. QED
  BY <1>2, <1>3 DEF Running

LEMMA FewerRun ==
    ASSUME Typed, Running' \subseteq Running
    PROVE  Cardinality(Running') \in Nat /\ Cardinality(Running') <= Cardinality(Running)
  BY RunningIsFinite, FS_Subset, FS_CardinalityType

LEMMA OneMoreRuns ==
    ASSUME Typed, NEW x, Running' \subseteq Running \cup {x}
    PROVE  Cardinality(Running') \in Nat /\ Cardinality(Running') <= Cardinality(Running) + 1
<1> DEFINE S == Running \cup {x}
<1>1. IsFiniteSet(Running) /\ Cardinality(Running) \in Nat
  BY RunningIsFinite
<1>2. IsFiniteSet(S) /\ Cardinality(S) <= Cardinality(Running) + 1 /\ Cardinality(S) \in Nat
  BY <1>1, FS_AddElement, FS_CardinalityType
<1>3. Running' \in SUBSET S
  OBVIOUS
<1> HIDE DEF S
<1>4. IsFiniteSet(Running') /\ Cardinality(Running') <= Cardinality(S)
  BY <1>2, <1>3, FS_Subset
<1>5. Cardinality(Running') \in Nat
  BY <1>4, FS_CardinalityType
<1>6. QED
  BY <1>1, <1>2, <1>4, <1>5

LEMMA BatchIsSeq == Batch \in Seq(Priorities) /\ Len(Batch) \in Nat
<1>1. Batch \in Seq(Nat)
  BY TasksAssumption
<1>2. Len(Batch) \in Nat /\ DOMAIN Batch = 1..Len(Batch)
  BY <1>1, LenProperties
<1>3. Batch \in [1..Len(Batch) -> Priorities]
  BY <1>1, <1>2 DEF Priorities, Range
<1>4. QED
  BY <1>2, <1>3, FunctionIsSeq

LEMMA TasksInitInv == TasksInit => TasksInv
<1> SUFFICES ASSUME TasksInit PROVE TasksInv
  OBVIOUS
<1>1. Typed
  BY InitTyped
<1>2. \A t \in Threads : Range(calls[t]) = {}
  BY DEF TasksInit, Range
<1>3. Running = {}
  BY <1>2 DEF Running, RunningOf
<1>4. Cardinality(Running) = 0
  BY <1>3, FS_EmptySet
<1>5. Len(tasks) = 0 /\ Len(to_add) = 0
  BY DEF TasksInit
<1>6. Room
  BY <1>4, <1>5, TasksAssumption DEF Room
<1>7. Sorted
  BY <1>5 DEF Sorted
<1>8. QED
  BY <1>1, <1>6, <1>7 DEF TasksInv

LEMMA Lengths ==
    ASSUME Typed
    PROVE  /\ Len(tasks) \in Nat /\ Len(to_add) \in Nat /\ DOMAIN tasks = 1..Len(tasks)
           /\ Cardinality(Running) \in Nat /\ MaxTasks \in Nat
           /\ tasks # <<>> => /\ Tail(tasks) \in Seq(Task) /\ Len(Tail(tasks)) = Len(tasks) - 1
                              /\ Head(tasks) \in Task /\ Head(tasks) = tasks[1] /\ 1 <= Len(tasks)
                              /\ \A i \in 1..(Len(tasks) - 1) : Tail(tasks)[i] = tasks[i + 1]
           /\ to_add # <<>> => /\ Tail(to_add) \in Seq(Priorities)
                               /\ Len(Tail(to_add)) = Len(to_add) - 1
                               /\ Head(to_add) \in Priorities
<1>1. tasks \in Seq(Task) /\ to_add \in Seq(Priorities)
  BY DEF Typed
<1>2. Len(tasks) \in Nat /\ Len(to_add) \in Nat /\ DOMAIN tasks = 1..Len(tasks)
  BY <1>1, LenProperties
<1>3. tasks # <<>> => /\ Tail(tasks) \in Seq(Task) /\ Len(Tail(tasks)) = Len(tasks) - 1
                      /\ Head(tasks) \in Task /\ Head(tasks) = tasks[1] /\ 1 <= Len(tasks)
                      /\ \A i \in 1..(Len(tasks) - 1) : Tail(tasks)[i] = tasks[i + 1]
  BY <1>1, <1>2, HeadTailProperties, EmptySeq
<1>4. to_add # <<>> => /\ Tail(to_add) \in Seq(Priorities)
                       /\ Len(Tail(to_add)) = Len(to_add) - 1
                       /\ Head(to_add) \in Priorities
  BY <1>1, HeadTailProperties
<1>5. QED
  BY <1>2, <1>3, <1>4, RunningIsFinite, TasksAssumption

LEMMA InnermostFields ==
    ASSUME Typed, calls[current] # <<>>
    PROVE  /\ current \in Threads /\ calls[current] \in Seq(Call)
           /\ Len(calls[current]) \in Nat /\ Len(calls[current]) >= 1
           /\ Innermost = calls[current][Len(calls[current])]
           /\ Innermost \in Call
<1>1. current \in Threads /\ calls[current] \in Seq(Call)
  BY DEF Typed
<1>2. Len(calls[current]) \in Nat /\ Len(calls[current]) >= 1
  BY <1>1, EmptySeq, LenProperties
<1>3. QED
  BY <1>1, <1>2, ElementOfSeq DEF Innermost, Last

-----------------------------------------------------------------------------
(* Each action *)

LEMMA CommandStep ==
    ASSUME TasksInv, command_testTask
    PROVE  TasksInv' /\ Running' = Running
<1>1. Running' = Running
  BY DEF command_testTask, Running, RunningOf
<1>2. Typed'
  BY BatchIsSeq DEF command_testTask, TasksInv, Typed
<1>3. Room'
  BY <1>1 DEF command_testTask, Room
<1>4. QED
  BY <1>1, <1>2, <1>3 DEF command_testTask, TasksInv, Sorted

LEMMA AddStep ==
    ASSUME TasksInv, add_task
    PROVE  TasksInv' /\ Running' \subseteq Running
<1>1. Typed /\ Room /\ Sorted /\ to_add # <<>> /\ shell \in Threads /\ calls[shell] = <<>>
  BY TasksAssumption DEF add_task, TasksInv
<1> DEFINE p == Head(to_add)
           x == [priority |-> p, id |-> FreshTaskId]
<1>2. p \in Priorities /\ FreshTaskId \in 1..MaxTasks
  BY <1>1, Lengths, FreshIdExists
<1>3. x \in Task /\ x.priority = p
  BY <1>2 DEF Task
<1> DEFINE new == InsertAt(tasks, InsertPosition(p), x)
<1>4. /\ new \in Seq(Task) /\ Len(new) = Len(tasks) + 1
      /\ \A i, j \in 1..Len(new) : i < j => new[i].priority >= new[j].priority
  <2> HIDE DEF x, p
  <2>1. LET y == InsertAt(tasks, InsertPosition(x.priority), x)
        IN  /\ y \in Seq(Task) /\ Len(y) = Len(tasks) + 1
            /\ \A i, j \in 1..Len(y) : i < j => y[i].priority >= y[j].priority
    BY <1>1, <1>3, Inserting
  <2>2. QED BY <1>3, <2>1
<1>5. tasks' = new \/ tasks' = tasks
  BY DEF add_task
<1>6. /\ to_add' = Tail(to_add) /\ current_priority' = current_priority /\ current' = current
      /\ calls' = [calls EXCEPT ![shell] = IF to_add' = <<>> THEN <<AtLoop(TRUE)>> ELSE <<>>]
  BY DEF add_task
<1> HIDE DEF new, x, p
<1>7. <<AtLoop(TRUE)>> \in Seq(Call) /\ TasksIn(<<AtLoop(TRUE)>>) = {}
  <2> DEFINE c == AtLoop(TRUE)
             e == << >>
  <2>1. c \in Call /\ ~InTask(c)
    BY LoopIsCall
  <2>2. e \in Seq(Call) /\ Append(e, c) = <<c>>
    OBVIOUS
  <2>3. TasksIn(e) = {}
    BY DEF TasksIn, Range
  <2> HIDE DEF c, e
  <2>4. Append(e, c) \in Seq(Call) /\ TasksIn(Append(e, c)) = TasksIn(e)
    BY <2>1, <2>2, TasksInLonger
  <2>5. QED BY <2>2, <2>3, <2>4 DEF c
<1>8. calls'[shell] \in Seq(Call) /\ TasksIn(calls'[shell]) = {}
  <2>1. calls'[shell] = <<AtLoop(TRUE)>> \/ calls'[shell] = <<>>
    BY <1>1, <1>6 DEF Typed
  <2>2. <<>> \in Seq(Call) /\ TasksIn(<<>>) = {}
    BY DEF TasksIn, Range
  <2>3. QED BY <1>7, <2>1, <2>2
<1>9. \A t \in Threads : t # shell => calls'[t] = calls[t]
  BY <1>1, <1>6 DEF Typed
<1>10. Running' \subseteq Running
  <2>1. TasksIn(calls'[shell]) \subseteq TasksIn(calls[shell]) \cup {}
    BY <1>8
  <2>2. Running' \subseteq Running \cup {}
    BY <1>1, <1>9, <2>1, OneThreadsCalls
  <2>3. QED BY <2>2
<1>11. Typed'
  <2>1. calls' \in [Threads -> Seq(Call)]
    <3>1. \A t \in Threads : calls'[t] \in Seq(Call)
      BY <1>1, <1>8, <1>9 DEF Typed
    <3>2. calls' = [t \in Threads |-> calls'[t]]
      BY <1>1, <1>6 DEF Typed
    <3>3. QED BY <3>1, <3>2
  <2>2. tasks' \in Seq(Task)
    BY <1>1, <1>4, <1>5 DEF Typed
  <2>3. to_add' \in Seq(Priorities)
    BY <1>1, <1>6, Lengths
  <2>4. QED BY <1>1, <1>6, <2>1, <2>2, <2>3 DEF Typed
<1>12. Room'
  <2>1. Cardinality(Running') \in Nat /\ Cardinality(Running') <= Cardinality(Running)
    BY <1>1, <1>10, FewerRun
  <2>2. Len(tasks') \in Nat /\ Len(tasks') <= Len(tasks) + 1
    BY <1>1, <1>4, <1>5, Lengths
  <2>3. Len(to_add') = Len(to_add) - 1
    BY <1>1, <1>6, Lengths
  <2>4. QED BY <1>1, <2>1, <2>2, <2>3, Lengths DEF Room
<1>13. Sorted'
  BY <1>1, <1>4, <1>5 DEF Sorted
<1>14. QED
  BY <1>10, <1>11, <1>12, <1>13 DEF TasksInv

LEMMA InterruptStep ==
    ASSUME TasksInv, NEW next \in Threads, interrupt(next)
    PROVE  /\ TasksInv' /\ Running' \subseteq Running
           /\ TasksIn(calls'[current]) = TasksIn(calls[current])
           /\ \A t \in Threads : t # current => calls'[t] = calls[t]
<1>1. /\ Typed /\ Room /\ Sorted /\ current \in Threads /\ calls[current] \in Seq(Call)
      /\ calls' = [calls EXCEPT ![current] = Append(@, AtLoop(FALSE))]
      /\ current' = next /\ UNCHANGED <<tasks, current_priority, to_add>>
  BY DEF interrupt, TasksInv, Typed
<1>2. AtLoop(FALSE) \in Call /\ ~InTask(AtLoop(FALSE))
  BY LoopIsCall
<1>3. /\ calls'[current] = Append(calls[current], AtLoop(FALSE))
      /\ \A t \in Threads : t # current => calls'[t] = calls[t]
      /\ calls' = [t \in Threads |-> calls'[t]]
  BY <1>1 DEF Typed
<1>4. calls'[current] \in Seq(Call) /\ TasksIn(calls'[current]) = TasksIn(calls[current])
  BY <1>1, <1>2, <1>3, TasksInLonger
<1>5. Running' \subseteq Running
  <2>1. TasksIn(calls'[current]) \subseteq TasksIn(calls[current]) \cup {}
    BY <1>4
  <2>2. Running' \subseteq Running \cup {}
    BY <1>1, <1>3, <2>1, OneThreadsCalls
  <2>3. QED BY <2>2
<1>6. Typed'
  <2>1. \A t \in Threads : calls'[t] \in Seq(Call)
    BY <1>1, <1>3, <1>4 DEF Typed
  <2>2. QED BY <1>1, <1>3, <2>1 DEF Typed
<1>7. Room'
  <2>1. Cardinality(Running') \in Nat /\ Cardinality(Running') <= Cardinality(Running)
    BY <1>1, <1>5, FewerRun
  <2>2. QED BY <1>1, <2>1, Lengths DEF Room
<1>8. QED
  BY <1>1, <1>3, <1>4, <1>5, <1>6, <1>7 DEF TasksInv, Sorted

\* A task is started.
Started(c) == [c EXCEPT !.task = Head(tasks), !.prev_priority = current_priority]

LEMMA StartStep ==
    ASSUME TasksInv, run_tasks, Startable
    PROVE  /\ TasksInv' /\ Running' \subseteq Running \cup {Head(tasks)}
           /\ current' = current /\ current_priority' = Head(tasks).priority
           /\ Started(Innermost) \in Call /\ InTask(Started(Innermost))
           /\ Started(Innermost).task = Head(tasks)
           /\ Started(Innermost).prev_priority = current_priority
           /\ calls'[current] = Append(Front(calls[current]), Started(Innermost))
           /\ \A t \in Threads : t # current => calls'[t] = calls[t]
<1> DEFINE c == Started(Innermost)
<1>1. /\ Typed /\ Room /\ Sorted /\ calls[current] # <<>> /\ tasks # <<>>
      /\ calls' = [calls EXCEPT ![current] = Append(Front(@), c)]
      /\ current_priority' = Head(tasks).priority /\ tasks' = Tail(tasks)
      /\ current' = current /\ to_add' = to_add
  BY DEF run_tasks, TasksInv, Startable, Started
<1>2. /\ current \in Threads /\ calls[current] \in Seq(Call) /\ Innermost \in Call
  BY <1>1, InnermostFields
<1>3. /\ Head(tasks) \in Task /\ Head(tasks).priority \in Priorities
  BY <1>1, Lengths DEF Task
<1>4. c \in Call /\ c.task = Head(tasks) /\ c.prev_priority = current_priority
  <2>1. current_priority \in Priorities \cup {-1}
    BY <1>1 DEF Typed
  <2>2. QED BY <1>2, <1>3, <2>1 DEF Call, Started
<1>5. InTask(c)
  <2>1. Head(tasks).id \in 1..MaxTasks
    BY <1>3 DEF Task
  <2>2. Head(tasks).id # NoTask.id
    BY <2>1, Lengths, <1>1 DEF NoTask
  <2>3. QED BY <1>4, <2>2 DEF InTask
<1> HIDE DEF c
<1>6. /\ calls'[current] = Append(Front(calls[current]), c)
      /\ \A t \in Threads : t # current => calls'[t] = calls[t]
      /\ calls' = [t \in Threads |-> calls'[t]]
  BY <1>1, <1>2 DEF Typed
<1>7. /\ calls'[current] \in Seq(Call)
      /\ TasksIn(calls'[current]) \subseteq TasksIn(calls[current]) \cup {Head(tasks)}
  <2> DEFINE s == calls[current]
  <2>1. s \in Seq(Call) /\ s # <<>>
    BY <1>1, <1>2
  <2> HIDE DEF s
  <2>2. /\ Append(Front(s), c) \in Seq(Call)
        /\ TasksIn(Append(Front(s), c)) \subseteq TasksIn(s) \cup (IF InTask(c) THEN {c.task} ELSE {})
    BY <2>1, <1>4, TasksInReplaced
  <2>3. QED BY <1>4, <1>5, <1>6, <2>2 DEF s
<1>8. Running' \subseteq Running \cup {Head(tasks)}
  BY <1>2, <1>6, <1>7, OneThreadsCalls
<1>9. Typed'
  <2>1. \A t \in Threads : calls'[t] \in Seq(Call)
    BY <1>1, <1>2, <1>6, <1>7 DEF Typed
  <2>2. calls' \in [Threads -> Seq(Call)]
    BY <1>6, <2>1
  <2>3. tasks' \in Seq(Task)
    BY <1>1, Lengths
  <2>4. QED BY <1>1, <1>3, <2>2, <2>3 DEF Typed
<1>10. Room'
  <2>1. Cardinality(Running') \in Nat /\ Cardinality(Running') <= Cardinality(Running) + 1
    BY <1>1, <1>8, OneMoreRuns
  <2>2. Len(tasks') = Len(tasks) - 1
    BY <1>1, Lengths
  <2>3. QED BY <1>1, <2>1, <2>2, Lengths DEF Room
<1>11. Sorted'
  <2>1. /\ Len(tasks') = Len(tasks) - 1 /\ Len(tasks) \in Nat
        /\ \A i \in 1..(Len(tasks) - 1) : tasks'[i] = tasks[i + 1]
    BY <1>1, Lengths
  <2> SUFFICES ASSUME NEW i \in 1..Len(tasks'), NEW j \in 1..Len(tasks'), i < j
               PROVE  tasks'[i].priority >= tasks'[j].priority
    BY DEF Sorted
  <2>2. /\ tasks'[i] = tasks[i + 1] /\ tasks'[j] = tasks[j + 1]
        /\ i + 1 \in 1..Len(tasks) /\ j + 1 \in 1..Len(tasks) /\ i + 1 < j + 1
    BY <2>1
  <2>3. QED BY <1>1, <2>2 DEF Sorted
<1>12. QED
  BY <1>1, <1>4, <1>5, <1>6, <1>8, <1>9, <1>10, <1>11 DEF TasksInv, c

\* A loop ends.
LEMMA EndStep ==
    ASSUME TasksInv, run_tasks, ~Startable
    PROVE  /\ TasksInv' /\ Running' \subseteq Running
           /\ current' = current /\ current_priority' = current_priority
           /\ calls'[current] = Front(calls[current])
           /\ \A t \in Threads : t # current => calls'[t] = calls[t]
<1>1. /\ Typed /\ Room /\ Sorted /\ calls[current] # <<>>
      /\ calls' = [calls EXCEPT ![current] = Front(@)]
      /\ UNCHANGED <<current, current_priority, tasks, to_add>>
  BY DEF run_tasks, TasksInv
<1>2. /\ current \in Threads /\ calls[current] \in Seq(Call)
  BY <1>1, InnermostFields
<1>3. /\ calls'[current] = Front(calls[current])
      /\ \A t \in Threads : t # current => calls'[t] = calls[t]
      /\ calls' = [t \in Threads |-> calls'[t]]
  BY <1>1, <1>2 DEF Typed
<1>4. /\ calls'[current] \in Seq(Call)
      /\ TasksIn(calls'[current]) \subseteq TasksIn(calls[current])
  BY <1>1, <1>2, <1>3, TasksInShorter
<1>5. Running' \subseteq Running
  <2>1. TasksIn(calls'[current]) \subseteq TasksIn(calls[current]) \cup {}
    BY <1>4
  <2>2. Running' \subseteq Running \cup {}
    BY <1>2, <1>3, <2>1, OneThreadsCalls
  <2>3. QED BY <2>2
<1>6. Typed'
  <2>1. \A t \in Threads : calls'[t] \in Seq(Call)
    BY <1>1, <1>2, <1>3, <1>4 DEF Typed
  <2>2. QED BY <1>1, <1>3, <2>1 DEF Typed
<1>7. Room'
  <2>1. Cardinality(Running') \in Nat /\ Cardinality(Running') <= Cardinality(Running)
    BY <1>1, <1>5, FewerRun
  <2>2. QED BY <1>1, <2>1, Lengths DEF Room
<1>8. QED
  BY <1>1, <1>3, <1>5, <1>6, <1>7 DEF TasksInv, Sorted

\* A task returns.
LEMMA ReturnStep ==
    ASSUME TasksInv, task_returns
    PROVE  /\ TasksInv' /\ Running' \subseteq Running
           /\ current' = current /\ current_priority' = Innermost.prev_priority
           /\ calls'[current] = Append(Front(calls[current]), AtLoop(Innermost.direct))
           /\ AtLoop(Innermost.direct) \in Call /\ ~InTask(AtLoop(Innermost.direct))
           /\ \A t \in Threads : t # current => calls'[t] = calls[t]
<1> DEFINE c == AtLoop(Innermost.direct)
<1>1. /\ Typed /\ Room /\ Sorted /\ calls[current] # <<>>
      /\ calls' = [calls EXCEPT ![current] = Append(Front(@), c)]
      /\ current_priority' = Innermost.prev_priority
      /\ UNCHANGED <<current, tasks, to_add>>
  BY DEF task_returns, TasksInv, Restored
<1>2. /\ current \in Threads /\ calls[current] \in Seq(Call) /\ Innermost \in Call
  BY <1>1, InnermostFields
<1>3. c \in Call /\ ~InTask(c)
  <2>1. Innermost.direct \in BOOLEAN
    BY <1>2 DEF Call
  <2>2. QED BY <2>1, LoopIsCall
<1> HIDE DEF c
<1>4. /\ calls'[current] = Append(Front(calls[current]), c)
      /\ \A t \in Threads : t # current => calls'[t] = calls[t]
      /\ calls' = [t \in Threads |-> calls'[t]]
  BY <1>1, <1>2 DEF Typed
<1>5. /\ calls'[current] \in Seq(Call)
      /\ TasksIn(calls'[current]) \subseteq TasksIn(calls[current])
  <2> DEFINE s == calls[current]
  <2>1. s \in Seq(Call) /\ s # <<>>
    BY <1>1, <1>2
  <2> HIDE DEF s
  <2>2. /\ Append(Front(s), c) \in Seq(Call)
        /\ TasksIn(Append(Front(s), c)) \subseteq TasksIn(s) \cup (IF InTask(c) THEN {c.task} ELSE {})
    BY <2>1, <1>3, TasksInReplaced
  <2>3. QED BY <1>3, <1>4, <2>2 DEF s
<1>6. Running' \subseteq Running
  <2>1. TasksIn(calls'[current]) \subseteq TasksIn(calls[current]) \cup {}
    BY <1>5
  <2>2. Running' \subseteq Running \cup {}
    BY <1>2, <1>4, <2>1, OneThreadsCalls
  <2>3. QED BY <2>2
<1>7. Typed'
  <2>1. \A t \in Threads : calls'[t] \in Seq(Call)
    BY <1>1, <1>2, <1>4, <1>5 DEF Typed
  <2>2. Innermost.prev_priority \in Priorities \cup {-1}
    BY <1>2 DEF Call
  <2>3. calls' \in [Threads -> Seq(Call)]
    BY <1>4, <2>1
  <2>4. QED BY <1>1, <2>2, <2>3 DEF Typed
<1>8. Room'
  <2>1. Cardinality(Running') \in Nat /\ Cardinality(Running') <= Cardinality(Running)
    BY <1>1, <1>6, FewerRun
  <2>2. QED BY <1>1, <2>1, Lengths DEF Room
<1>9. QED
  BY <1>1, <1>3, <1>4, <1>6, <1>7, <1>8 DEF TasksInv, Sorted, c

LEMMA TasksNextInv == TasksInv /\ [TasksNext]_tasksVars => TasksInv'
<1> SUFFICES ASSUME TasksInv, [TasksNext]_tasksVars PROVE TasksInv'
  OBVIOUS
<1>1. CASE command_testTask
  BY <1>1, CommandStep
<1>2. CASE add_task
  BY <1>2, AddStep
<1>3. CASE \E t \in Threads : interrupt(t)
  BY <1>3, InterruptStep
<1>4. CASE run_tasks
  BY <1>4, StartStep, EndStep
<1>5. CASE task_returns
  BY <1>5, ReturnStep
<1>6. CASE UNCHANGED tasksVars
  BY <1>6 DEF tasksVars, TasksInv, Typed, Room, Sorted, Running, RunningOf
<1>7. QED
  BY <1>1, <1>2, <1>3, <1>4, <1>5, <1>6 DEF TasksNext

\* In every reachable state, with tasks that outlast their time slice or
\* without, the list is ordered and holds no more tasks than were added.
THEOREM TasksInvariance == TasksSpec => []TasksInv
<1>1. QED
  BY TasksInitInv, TasksNextInv, PTL DEF TasksSpec

-----------------------------------------------------------------------------
(* Nested calls *)

LEMMA BelowSame ==
    ASSUME NEW s, NEW r, NEW n, NEW p, \A j \in 1..n : r[j] = s[j], Below(s, n, p)
    PROVE  Below(r, n, p)
  BY DEF Below

\* A call that has no task in the middle does not count.
LEMMA BelowOneMore ==
    ASSUME NEW s, NEW n \in Nat, NEW p, ~InTask(s[n + 1])
    PROVE  Below(s, n, p) <=> Below(s, n + 1, p)
<1>1. \A j \in 1..(n + 1) : InTask(s[j]) => j \in 1..n
  OBVIOUS
<1>2. 1..n \subseteq 1..(n + 1)
  OBVIOUS
<1>3. QED
  BY <1>1, <1>2 DEF Below

LEMMA NestedLonger ==
    ASSUME NEW s \in Seq(Call), NEW c \in Call, ~InTask(c), NEW p,
           Saved(s), Below(s, Len(s), p)
    PROVE  Saved(Append(s, c)) /\ Below(Append(s, c), Len(Append(s, c)), p)
<1> DEFINE r == Append(s, c)
           n == Len(s)
<1>1. n \in Nat
  BY LenProperties
<1>2. /\ Len(r) = n + 1 /\ r[n + 1] = c /\ \A i \in 1..n : r[i] = s[i]
  <2>1. Len(r) = n + 1 /\ \A i \in 1..(n + 1) : r[i] = IF i <= n THEN s[i] ELSE c
    BY PushElements
  <2> HIDE DEF r, n
  <2>2. QED BY <1>1, <2>1
<1> HIDE DEF r
<1>3. Below(r, n + 1, p)
  <2>1. Below(r, n, p)
    BY <1>2, BelowSame
  <2>2. QED BY <1>1, <1>2, <2>1, BelowOneMore
<1>4. ASSUME NEW i \in 1..Len(r), InTask(r[i])
      PROVE  Below(r, i - 1, r[i].prev_priority)
  <2>1. i \in 1..n /\ r[i] = s[i] /\ \A j \in 1..(i - 1) : r[j] = s[j]
    BY <1>1, <1>2, <1>4
  <2>2. Below(s, i - 1, s[i].prev_priority)
    BY <1>4, <2>1 DEF Saved
  <2>3. QED BY <2>1, <2>2, BelowSame
<1>5. QED
  BY <1>2, <1>3, <1>4 DEF Saved, r

LEMMA NestedShorter ==
    ASSUME NEW s \in Seq(Call), s # <<>>, ~InTask(s[Len(s)]), NEW p,
           Saved(s), Below(s, Len(s), p)
    PROVE  Saved(Front(s)) /\ Below(Front(s), Len(Front(s)), p)
<1> DEFINE r == SubSeq(s, 1, Len(s) - 1)
           n == Len(s) - 1
<1>1. Len(s) \in Nat /\ Len(s) >= 1
  BY EmptySeq, LenProperties
<1>2. Len(r) = n /\ \A i \in 1..n : r[i] = s[i]
  BY <1>1, PopElements
<1>3. Front(s) = r
  BY DEF Front
<1>4. n \in Nat /\ n + 1 = Len(s)
  BY <1>1
<1> HIDE DEF r, n
<1>5. Below(r, n, p)
  <2>1. Below(s, n, p)
    BY <1>4, BelowOneMore
  <2>2. QED BY <1>2, <2>1, BelowSame
<1>6. ASSUME NEW i \in 1..Len(r), InTask(r[i])
      PROVE  Below(r, i - 1, r[i].prev_priority)
  <2>1. i \in 1..Len(s) /\ r[i] = s[i] /\ \A j \in 1..(i - 1) : r[j] = s[j]
    BY <1>2, <1>4
  <2>2. Below(s, i - 1, s[i].prev_priority)
    BY <1>6, <2>1 DEF Saved
  <2>3. QED BY <2>1, <2>2, BelowSame
<1>7. QED
  BY <1>2, <1>3, <1>5, <1>6 DEF Saved

LEMMA ReplacedElements ==
    ASSUME NEW s \in Seq(Call), s # <<>>, NEW c \in Call
    PROVE  LET r == Append(Front(s), c)
           IN  /\ Len(r) = Len(s) /\ Len(s) \in Nat /\ Len(s) >= 1 /\ r[Len(s)] = c
               /\ \A i \in 1..(Len(s) - 1) : r[i] = s[i]
<1> DEFINE r == Append(Front(s), c)
<1>1. Len(s) \in Nat /\ Len(s) >= 1
  BY EmptySeq, LenProperties
<1>2. /\ Len(r) = Len(s) /\ \A i \in 1..Len(s) : r[i] = IF i = Len(s) THEN c ELSE s[i]
  BY LastReplaced
<1> HIDE DEF r
<1>3. /\ Len(r) = Len(s) /\ r[Len(s)] = c /\ \A i \in 1..(Len(s) - 1) : r[i] = s[i]
  BY <1>1, <1>2
<1>4. QED
  BY <1>1, <1>3 DEF r

LEMMA NestedReturn ==
    ASSUME NEW s \in Seq(Call), s # <<>>, InTask(s[Len(s)]), NEW c \in Call, ~InTask(c),
           Saved(s)
    PROVE  LET r == Append(Front(s), c)
           IN  Saved(r) /\ Below(r, Len(r), s[Len(s)].prev_priority)
<1> DEFINE r == Append(Front(s), c)
           n == Len(s) - 1
           p == s[Len(s)].prev_priority
<1>1. /\ Len(r) = Len(s) /\ Len(s) \in Nat /\ Len(s) >= 1 /\ r[Len(s)] = c
      /\ \A i \in 1..(Len(s) - 1) : r[i] = s[i]
  BY ReplacedElements
<1>2. n \in Nat /\ n + 1 = Len(s)
  BY <1>1
<1> HIDE DEF r
<1>3. Below(s, n, p)
  BY <1>1 DEF Saved
<1> HIDE DEF n, p
<1>4. Below(r, Len(r), p)
  <2>1. \A j \in 1..n : r[j] = s[j]
    BY <1>1 DEF n
  <2>2. Below(r, n, p)
    BY <1>3, <2>1, BelowSame
  <2>3. Below(r, n + 1, p)
    BY <1>1, <1>2, <2>2, BelowOneMore
  <2>4. QED BY <1>1, <1>2, <2>3
<1>5. ASSUME NEW i \in 1..Len(r), InTask(r[i])
      PROVE  Below(r, i - 1, r[i].prev_priority)
  <2>1. i \in 1..Len(s) /\ r[i] = s[i] /\ \A j \in 1..(i - 1) : r[j] = s[j]
    BY <1>1, <1>5
  <2>2. Below(s, i - 1, s[i].prev_priority)
    BY <1>5, <2>1 DEF Saved
  <2>3. QED BY <2>1, <2>2, BelowSame
<1>6. QED
  BY <1>4, <1>5 DEF Saved, r, p

LEMMA NestedStart ==
    ASSUME NEW s \in Seq(Call), s # <<>>, ~InTask(s[Len(s)]), NEW c \in Call, InTask(c),
           Saved(s), Below(s, Len(s), c.prev_priority), c.task.priority > c.prev_priority
    PROVE  LET r == Append(Front(s), c)
           IN  Saved(r) /\ Below(r, Len(r), c.task.priority)
<1> DEFINE r == Append(Front(s), c)
           n == Len(s) - 1
           p == c.prev_priority
<1>1. /\ Len(r) = Len(s) /\ Len(s) \in Nat /\ Len(s) >= 1 /\ r[Len(s)] = c
      /\ \A i \in 1..(Len(s) - 1) : r[i] = s[i]
  BY ReplacedElements
<1>2. n \in Nat /\ n + 1 = Len(s)
  BY <1>1
<1> HIDE DEF r, n, p
<1>3. Below(r, n, p)
  <2>1. Below(s, n, p)
    BY <1>2, BelowOneMore DEF p
  <2>2. \A j \in 1..n : r[j] = s[j]
    BY <1>1 DEF n
  <2>3. QED BY <2>1, <2>2, BelowSame
<1>4. ASSUME NEW i \in 1..Len(r), InTask(r[i])
      PROVE  Below(r, i - 1, r[i].prev_priority)
  <2>1. CASE i = Len(s)
    <3>1. i - 1 = n /\ r[i] = c
      BY <1>1, <1>2, <2>1
    <3>2. QED BY <1>3, <3>1 DEF p
  <2>2. CASE i # Len(s)
    <3>1. i \in 1..Len(s) /\ r[i] = s[i] /\ \A j \in 1..(i - 1) : r[j] = s[j]
      BY <1>1, <2>2
    <3>2. Below(s, i - 1, s[i].prev_priority)
      BY <1>4, <3>1 DEF Saved
    <3>3. QED BY <3>1, <3>2, BelowSame
  <2>3. QED BY <2>1, <2>2
<1>5. Below(r, Len(r), c.task.priority)
  <2>1. \A j \in 1..Len(r) : InTask(r[j]) => r[j].task.priority <= c.task.priority
    <3> SUFFICES ASSUME NEW j \in 1..Len(r), InTask(r[j])
                 PROVE  r[j].task.priority <= c.task.priority
      OBVIOUS
    <3>1. c.task.priority \in Nat /\ c.prev_priority \in Nat \cup {-1}
      BY PrioritiesAreNat DEF Call, InTask, Task
    <3>2. CASE j = Len(s)
      BY <1>1, <3>1, <3>2
    <3>3. CASE j # Len(s)
      <4>1. j \in 1..n /\ r[j] = s[j] /\ j \in 1..Len(s)
        BY <1>1, <1>2, <3>3 DEF n
      <4>2. r[j].task.priority <= c.prev_priority
        BY <1>3, <4>1 DEF Below, p
      <4>3. r[j].task \in Task
        BY <4>1, CallFields
      <4>4. r[j].task.priority \in Nat
        BY <4>3, PrioritiesAreNat DEF Task
      <4>5. QED BY <3>1, <4>2, <4>4
    <3>4. QED BY <3>2, <3>3
  <2>2. Len(s) \in 1..Len(r) /\ InTask(r[Len(s)]) /\ r[Len(s)].task.priority = c.task.priority
    BY <1>1
  <2>3. QED BY <2>1, <2>2 DEF Below
<1>6. QED
  BY <1>4, <1>5 DEF Saved, r

\* Calls without a task in the middle.
LEMMA NestedIdle ==
    ASSUME NEW s \in Seq(Call), TasksIn(s) = {}
    PROVE  Saved(s) /\ \A p : Below(s, Len(s), p) <=> p = -1
<1>1. \A i \in 1..Len(s) : ~InTask(s[i])
  BY CallFields
<1>2. QED
  BY <1>1 DEF Saved, Below

LEMMA InitNested == TasksInit => Nested
<1> SUFFICES ASSUME TasksInit PROVE Nested
  OBVIOUS
<1>1. current \in Threads /\ current_priority = -1 /\ \A t \in Threads : calls[t] = <<>>
  BY TasksAssumption DEF TasksInit, Initial_priority
<1>2. <<>> \in Seq(Call) /\ TasksIn(<<>>) = {}
  BY DEF TasksIn, Range
<1>3. \A t \in Threads : RunningOf(t) = {}
  BY <1>1, <1>2, CallsOf
<1>4. Saved(calls[current]) /\ Below(calls[current], Len(calls[current]), current_priority)
  BY <1>1, <1>2, NestedIdle
<1>5. QED
  BY <1>3, <1>4 DEF Nested

\* The calls of a thread other than the one a step is of.
LEMMA OthersStill ==
    ASSUME Nested, current' = current, \A t \in Threads : t # current => calls'[t] = calls[t]
    PROVE  \A t \in Threads : t # current' => RunningOf(t)' = {}
  BY DEF Nested, RunningOf

LEMMA NextNested ==
    ASSUME ~Outlasts, TasksInv, Nested, [TasksNext]_tasksVars
    PROVE  Nested'
<1> DEFINE s == calls[current]
<1>1. /\ Typed /\ current \in Threads /\ s \in Seq(Call)
      /\ Saved(s) /\ Below(s, Len(s), current_priority)
      /\ \A t \in Threads : t # current => RunningOf(t) = {}
  BY DEF TasksInv, Typed, Nested
<1>2. CASE command_testTask
  BY <1>2 DEF command_testTask, Nested, RunningOf
<1>3. CASE add_task
  <2>1. /\ current = shell /\ current' = current /\ current_priority' = current_priority
        /\ s = <<>>
        /\ \A t \in Threads : t # current => calls'[t] = calls[t]
        /\ calls'[current] = <<AtLoop(TRUE)>> \/ calls'[current] = <<>>
    BY <1>1, <1>3 DEF add_task, Typed
  <2>2. Append(s, AtLoop(TRUE)) = <<AtLoop(TRUE)>>
    BY <2>1
  <2>3. AtLoop(TRUE) \in Call /\ ~InTask(AtLoop(TRUE))
    BY LoopIsCall
  <2> HIDE DEF s
  <2>4. Saved(Append(s, AtLoop(TRUE)))
        /\ Below(Append(s, AtLoop(TRUE)), Len(Append(s, AtLoop(TRUE))), current_priority)
    BY <1>1, <2>3, NestedLonger
  <2>5. /\ Saved(calls'[current])
        /\ Below(calls'[current], Len(calls'[current]), current_priority)
    BY <1>1, <2>1, <2>2, <2>4
  <2>6. QED BY <2>1, <2>5, OthersStill DEF Nested
<1>4. CASE \E t \in Threads : interrupt(t)
  <2>1. PICK next \in Threads : interrupt(next)
    BY <1>4
  <2>2. /\ current' = next /\ current_priority' = current_priority
        /\ next # current => RunningOf(current) = {}
        /\ calls'[current] = Append(s, AtLoop(FALSE))
        /\ TasksIn(calls'[current]) = TasksIn(s)
        /\ \A t \in Threads : t # current => calls'[t] = calls[t]
    <3>1. /\ TasksIn(calls'[current]) = TasksIn(s)
          /\ \A t \in Threads : t # current => calls'[t] = calls[t]
      BY <2>1, InterruptStep
    <3>2. /\ current' = next /\ current_priority' = current_priority
          /\ next # current => RunningOf(current) = {}
      BY <2>1 DEF interrupt
    <3>3. calls'[current] = Append(s, AtLoop(FALSE))
      BY <1>1, <2>1 DEF interrupt, Typed
    <3>4. QED BY <3>1, <3>2, <3>3
  <2>3. \A t : RunningOf(t) = TasksIn(calls[t]) /\ RunningOf(t)' = TasksIn(calls'[t])
    BY DEF RunningOf, TasksIn
  <2>4. AtLoop(FALSE) \in Call /\ ~InTask(AtLoop(FALSE))
    BY LoopIsCall
  <2> HIDE DEF s
  <2>5. Saved(Append(s, AtLoop(FALSE)))
        /\ Below(Append(s, AtLoop(FALSE)), Len(Append(s, AtLoop(FALSE))), current_priority)
    BY <1>1, <2>4, NestedLonger
  <2>6. CASE next = current
    <3>1. current' = current
      BY <2>2, <2>6
    <3>2. /\ Saved(calls'[current])
          /\ Below(calls'[current], Len(calls'[current]), current_priority)
      BY <2>2, <2>5
    <3>3. QED BY <2>2, <3>1, <3>2, OthersStill DEF Nested
  <2>7. CASE next # current
    <3>1. TasksIn(s) = {}
      BY <2>2, <2>3, <2>7 DEF s
    <3>2. current_priority = -1
      BY <1>1, <3>1, NestedIdle
    <3>3. calls'[next] = calls[next] /\ calls[next] \in Seq(Call) /\ TasksIn(calls[next]) = {}
      BY <1>1, <2>2, <2>3, <2>7 DEF Typed
    <3>4. Saved(calls'[next]) /\ Below(calls'[next], Len(calls'[next]), -1)
      BY <3>3, NestedIdle
    <3>5. \A t \in Threads : RunningOf(t)' = {}
      <4>1. \A t \in Threads : t = current => RunningOf(t)' = {}
        BY <2>2, <2>3, <3>1
      <4>2. \A t \in Threads : t # current => RunningOf(t)' = {}
        BY <1>1, <2>2, <2>3
      <4>3. QED BY <4>1, <4>2
    <3>6. QED BY <2>2, <3>2, <3>4, <3>5 DEF Nested
  <2>8. QED BY <2>6, <2>7
<1>5. CASE run_tasks
  <2>1. /\ s # <<>> /\ ~InTask(Innermost) /\ Innermost = s[Len(s)]
    BY <1>1, <1>5, InnermostFields DEF run_tasks
  <2>2. CASE Startable
    <3> DEFINE c == Started(Innermost)
    <3>1. /\ current' = current /\ current_priority' = c.task.priority
          /\ c \in Call /\ InTask(c) /\ c.prev_priority = current_priority
          /\ c.task = Head(tasks)
          /\ calls'[current] = Append(Front(s), c)
          /\ \A t \in Threads : t # current => calls'[t] = calls[t]
      BY <1>5, <2>2, StartStep
    <3>2. c.task.priority > c.prev_priority
      BY <2>2, <3>1 DEF Startable
    <3> HIDE DEF c, s
    <3>3. LET r == Append(Front(s), c)
          IN  Saved(r) /\ Below(r, Len(r), c.task.priority)
      BY <1>1, <2>1, <3>1, <3>2, NestedStart
    <3>4. /\ Saved(calls'[current])
          /\ Below(calls'[current], Len(calls'[current]), current_priority')
      BY <3>1, <3>3
    <3>5. QED BY <3>1, <3>4, OthersStill DEF Nested
  <2>3. CASE ~Startable
    <3>1. /\ current' = current /\ current_priority' = current_priority
          /\ calls'[current] = Front(s)
          /\ \A t \in Threads : t # current => calls'[t] = calls[t]
      BY <1>5, <2>3, EndStep
    <3> HIDE DEF s
    <3>2. Saved(Front(s)) /\ Below(Front(s), Len(Front(s)), current_priority)
      BY <1>1, <2>1, NestedShorter
    <3>3. /\ Saved(calls'[current])
          /\ Below(calls'[current], Len(calls'[current]), current_priority')
      BY <3>1, <3>2
    <3>4. QED BY <3>1, <3>3, OthersStill DEF Nested
  <2>4. QED BY <2>2, <2>3
<1>6. CASE task_returns
  <2>1. /\ s # <<>> /\ InTask(Innermost) /\ Innermost = s[Len(s)]
    BY <1>1, <1>6, InnermostFields DEF task_returns
  <2> DEFINE c == AtLoop(Innermost.direct)
  <2>2. /\ current' = current /\ current_priority' = Innermost.prev_priority
        /\ c \in Call /\ ~InTask(c)
        /\ calls'[current] = Append(Front(s), c)
        /\ \A t \in Threads : t # current => calls'[t] = calls[t]
    BY <1>6, ReturnStep
  <2> HIDE DEF c, s
  <2>3. LET r == Append(Front(s), c)
        IN  Saved(r) /\ Below(r, Len(r), s[Len(s)].prev_priority)
    BY <1>1, <2>1, <2>2, NestedReturn
  <2>4. /\ Saved(calls'[current])
        /\ Below(calls'[current], Len(calls'[current]), current_priority')
    BY <2>1, <2>2, <2>3
  <2>5. QED BY <2>2, <2>4, OthersStill DEF Nested
<1>7. CASE UNCHANGED tasksVars
  BY <1>7 DEF tasksVars, Nested, RunningOf
<1>8. QED
  BY <1>2, <1>3, <1>4, <1>5, <1>6, <1>7 DEF TasksNext

-----------------------------------------------------------------------------
(* The properties *)

LEMMA NestedMeans ==
    ASSUME TasksInv, Nested
    PROVE  PriorityIsOfRunning
<1>1. /\ Typed /\ current \in Threads /\ calls[current] \in Seq(Call)
      /\ \A t \in Threads : t # current => RunningOf(t) = {}
      /\ Below(calls[current], Len(calls[current]), current_priority)
  BY DEF TasksInv, Typed, Nested
<1>2. Running = TasksIn(calls[current])
  BY <1>1, CallsOf DEF Running
<1>3. \A x : x \in Running <=>
        \E i \in 1..Len(calls[current]) : InTask(calls[current][i]) /\ x = calls[current][i].task
  BY <1>1, <1>2, CallFields
<1>4. /\ \A x \in Running : x.priority <= current_priority
      /\ current_priority # -1 => \E x \in Running : x.priority = current_priority
  BY <1>1, <1>3 DEF Below
<1>5. TasksTypeOK
  <2>1. \A t \in Threads : \A call \in Range(calls[t]) : call \in Call
    BY <1>1, ElementOfSeq, LenProperties DEF Typed, Range
  <2>2. \A call \in Call : /\ call.task \in Task \cup {NoTask}
                           /\ call.prev_priority \in Priorities \cup {-1}
    BY DEF Call
  <2>3. QED BY <1>1, <2>1, <2>2 DEF TasksTypeOK, Typed, Task
<1>6. QED
  BY <1>4, <1>5 DEF PriorityIsOfRunning

\* current_priority is the priority of the most urgent task that runs, however
\* interrupts nest, for every batch and number of threads, if no task lasts
\* until another thread gets the CPU.
THEOREM PriorityIsRight ==
    ASSUME ~Outlasts
    PROVE  TasksSpec => []PriorityIsOfRunning
<1>1. TasksInv /\ Nested /\ [TasksNext]_tasksVars => Nested'
  BY NextNested
<1>2. TasksInv /\ Nested => PriorityIsOfRunning
  BY NestedMeans
<1>3. QED
  BY InitNested, TasksInvariance, <1>1, <1>2, PTL DEF TasksSpec

LEMMA UrgentStarts ==
    ASSUME TasksInv, PriorityIsOfRunning, [TasksNext]_tasksVars, NEW x \in Running' \ Running
    PROVE  /\ \A y \in Running : x.priority > y.priority
           /\ \A y \in Range(tasks) : x.priority >= y.priority
<1>1. run_tasks /\ Startable
  <2>1. ~command_testTask
    BY CommandStep
  <2>2. ~add_task
    BY AddStep
  <2>3. ~(\E t \in Threads : interrupt(t))
    BY InterruptStep
  <2>4. ~task_returns
    BY ReturnStep
  <2>5. ~UNCHANGED tasksVars
    BY DEF tasksVars, Running, RunningOf
  <2>6. run_tasks
    BY <2>1, <2>2, <2>3, <2>4, <2>5 DEF TasksNext
  <2>7. QED BY <2>6, EndStep
<1>2. x = Head(tasks)
  BY <1>1, StartStep
<1>3. tasks # <<>> /\ Head(tasks).priority > current_priority
  BY <1>1 DEF Startable
<1>4. Typed /\ Sorted
  BY DEF TasksInv
<1>5. /\ Head(tasks) = tasks[1] /\ Len(tasks) \in Nat /\ 1 <= Len(tasks)
      /\ DOMAIN tasks = 1..Len(tasks)
  BY <1>3, <1>4, Lengths
<1>6. \A y \in Task : y.priority \in Nat
  BY PrioritiesAreNat DEF Task
<1>7. ASSUME NEW y \in Running PROVE x.priority > y.priority
  <2>1. y.priority <= current_priority
    BY DEF PriorityIsOfRunning
  <2>2. y.priority \in Nat /\ x.priority \in Nat
    BY <1>2, <1>3, <1>4, <1>6, RunningIsFinite, Lengths
  <2>3. current_priority \in Nat \cup {-1}
    BY <1>4, PrioritiesAreNat DEF Typed
  <2>4. QED BY <1>2, <1>3, <2>1, <2>2, <2>3
<1>8. ASSUME NEW i \in 1..Len(tasks) PROVE x.priority >= tasks[i].priority
  <2>1. x.priority \in Nat
    BY <1>2, <1>3, <1>4, <1>6, Lengths
  <2>2. CASE i = 1
    BY <1>2, <1>5, <2>1, <2>2
  <2>3. CASE i # 1
    <3>1. 1 \in 1..Len(tasks) /\ 1 < i
      BY <1>5, <2>3
    <3>2. QED BY <1>2, <1>4, <1>5, <3>1 DEF Sorted
  <2>4. QED BY <2>2, <2>3
<1>9. QED
  BY <1>5, <1>7, <1>8 DEF Range

\* Under the same condition a task starts only if it is more urgent than every
\* task that runs, and no less than every task that waits.
THEOREM MostUrgentFirst ==
    ASSUME ~Outlasts
    PROVE  TasksSpec => MostUrgentStarts
<1>1. TasksInv /\ PriorityIsOfRunning /\ [TasksNext]_tasksVars
        => [\A x \in Running' \ Running :
              /\ \A y \in Running : x.priority > y.priority
              /\ \A y \in Range(tasks) : x.priority >= y.priority]_tasksVars
  BY UrgentStarts
<1>2. QED
  BY <1>1, TasksInvariance, PriorityIsRight, PTL DEF TasksSpec, MostUrgentStarts

(***************************************************************************)
(* The console driver.                                                     *)
(***************************************************************************)

-----------------------------------------------------------------------------
(* Arithmetic of a ring with n slots *)

\* How many slots are between the tail and the head, and the i-th of them.
Held(h, t, n) == IF t <= h THEN h - t ELSE h - t + n
Slot(t, i, n) == IF t + i - 1 < n THEN t + i - 1 ELSE t + i - 1 - n

\* What is left of numbers one turn around a ring.
LEMMA Modulo ==
    ASSUME NEW n \in Nat \ {0}
    PROVE  /\ \A x \in 0..(n - 1) : x % n = x
           /\ \A x \in n..(n + n - 1) : x % n = x - n
           /\ \A x \in (-n)..(-1) : x % n = x + n
<1>1. \A x \in 0..(n - 1) : x % n = x
  BY SMT
<1>2. \A x \in n..(n + n - 1) : x % n = x - n
  BY SMT
<1>3. \A x \in (-n)..(-1) : x % n = x + n
  BY SMT
<1>4. QED
  BY <1>1, <1>2, <1>3

\* The same numbers as the driver computes them.
LEMMA Slots ==
    ASSUME NEW n \in Nat \ {0, 1}, NEW h \in 0..(n - 1), NEW t \in 0..(n - 1)
    PROVE  /\ (h - t) % n = Held(h, t, n)
           /\ (h + 1) % n = IF h + 1 = n THEN 0 ELSE h + 1
           /\ \A i \in 1..(((h - t) % n) + 1) : (t + i - 1) % n = Slot(t, i, n)
<1>1. CASE t <= h
  <2>1. (h - t) % n = h - t
    <3>1. h - t \in 0..(n - 1) BY <1>1
    <3>2. QED BY <3>1, Modulo
  <2>2. QED
    <3>1. \A i \in 1..(h - t + 1) : t + i - 1 \in 0..(n - 1)
      BY <1>1
    <3>2. \A i \in 1..(h - t + 1) : (t + i - 1) % n = t + i - 1
      BY <3>1, Modulo
    <3>3. (h + 1) % n = IF h + 1 = n THEN 0 ELSE h + 1
      <4>1. CASE h + 1 = n
        <5>1. n \in n..(n + n - 1) /\ n - n = 0 OBVIOUS
        <5>2. n % n = 0 BY <5>1, Modulo
        <5>3. QED BY <4>1, <5>2
      <4>2. CASE h + 1 # n
        <5>1. h + 1 \in 0..(n - 1) BY <4>2
        <5>2. QED BY <4>2, <5>1, Modulo
      <4>3. QED BY <4>1, <4>2
    <3>4. QED BY <1>1, <2>1, <3>1, <3>2, <3>3 DEF Held, Slot
<1>2. CASE t > h
  <2>1. (h - t) % n = h - t + n
    <3>1. h - t \in (-n)..(-1) BY <1>2
    <3>2. QED BY <3>1, Modulo
  <2>2. (h + 1) % n = IF h + 1 = n THEN 0 ELSE h + 1
    <3>1. h + 1 \in 0..(n - 1) BY <1>2
    <3>2. (h + 1) % n = h + 1 BY <3>1, Modulo
    <3>3. QED BY <3>1, <3>2
  <2>3. \A i \in 1..(h - t + n + 1) :
          (t + i - 1) % n = IF t + i - 1 < n THEN t + i - 1 ELSE t + i - 1 - n
    <3>1. TAKE i \in 1..(h - t + n + 1)
    <3>2. CASE t + i - 1 < n
      <4>1. t + i - 1 \in 0..(n - 1) BY <3>2
      <4>2. QED BY <3>2, <4>1, Modulo
    <3>3. CASE t + i - 1 >= n
      <4> DEFINE x == t + i - 1
      <4>1. x \in n..(n + n - 1) BY <1>2, <3>3
      <4> HIDE DEF x
      <4>2. x % n = x - n BY <4>1, Modulo
      <4>3. QED BY <3>3, <4>2 DEF x
    <3>4. QED BY <3>2, <3>3
  <2>4. QED BY <1>2, <2>1, <2>2, <2>3 DEF Held, Slot
<1>3. QED
  BY <1>1, <1>2 DEF Held, Slot

-----------------------------------------------------------------------------
(* The bytes of a ring *)

\* The slots of a ring are a function, whatever is in them.
IsRing(buf, n) == buf = [i \in 0..(n - 1) |-> buf[i]]

\* What a ring holds, slot by slot.
LEMMA ContentsSlots ==
    ASSUME NEW n \in Nat \ {0, 1}, NEW h \in 0..(n - 1), NEW t \in 0..(n - 1),
           NEW buf, NEW i \in 1..Held(h, t, n)
    PROVE  Contents(buf, h, t, n)[i] = buf[Slot(t, i, n)]
<1> DEFINE d == Held(h, t, n)
<1>1. d \in 0..(n - 1)
  BY DEF Held
<1>2. (h - t) % n = d /\ \A j \in 1..(d + 1) : (t + j - 1) % n = Slot(t, j, n)
  BY Slots
<1> HIDE DEF d
<1>3. Contents(buf, h, t, n) = [j \in 1..d |-> buf[(t + j - 1) % n]]
  BY <1>2 DEF Contents
<1>4. i \in 1..d /\ i \in 1..(d + 1)
  BY <1>1 DEF d
<1>5. QED
  BY <1>2, <1>3, <1>4, Zenon

\* It is a sequence, and how long that is.
LEMMA ContentsLength ==
    ASSUME NEW n \in Nat \ {0, 1}, NEW h \in 0..(n - 1), NEW t \in 0..(n - 1),
           NEW S, NEW buf, buf \in [0..(n - 1) -> S]
    PROVE  /\ Contents(buf, h, t, n) \in Seq(S)
           /\ Len(Contents(buf, h, t, n)) = Held(h, t, n)
           /\ Held(h, t, n) \in 0..(n - 1)
<1> DEFINE d == Held(h, t, n)
           q == Contents(buf, h, t, n)
<1>1. d \in 0..(n - 1)
  BY DEF Held
<1>2. (h - t) % n = d /\ \A j \in 1..(d + 1) : (t + j - 1) % n = Slot(t, j, n)
  <2>1. (h - t) % n = d
    BY Slots
  <2>2. \A j \in 1..(((h - t) % n) + 1) : (t + j - 1) % n = Slot(t, j, n)
    BY Slots
  <2> HIDE DEF d, q
  <2>3. QED BY <2>1, <2>2
<1>3. \A j \in 1..d : Slot(t, j, n) \in 0..(n - 1)
  BY DEF Held, Slot
<1> HIDE DEF d
<1>4. q = [j \in 1..d |-> buf[(t + j - 1) % n]]
  BY <1>2 DEF Contents
<1> HIDE DEF q
<1>5. \A j \in 1..d : (t + j - 1) % n \in 0..(n - 1)
  BY <1>1, <1>2, <1>3
<1>6. q \in [1..d -> S]
  BY <1>4, <1>5
<1>7. q \in Seq(S) /\ Len(q) = d
  BY <1>1, <1>6, FunctionIsSeq
<1>8. QED
  BY <1>1, <1>7 DEF d, q

\* A byte stored at the head joins the others behind the last, unless the slot
\* after the head is the tail, when n - 1 bytes are there.
LEMMA ContentsPut ==
    ASSUME NEW n \in Nat \ {0, 1}, NEW h \in 0..(n - 1), NEW t \in 0..(n - 1),
           NEW buf, IsRing(buf, n), NEW b, IsRing(b, n),
           \A i \in 0..(n - 1) : i # h => b[i] = buf[i]
    PROVE  LET q == Contents(buf, h, t, n)
               next == (h + 1) % n
           IN /\ next \in 0..(n - 1)
              /\ next = t <=> Len(q) = n - 1
              /\ next # t => /\ Len(q) < n - 1
                             /\ Contents(b, next, t, n) = Append(q, b[h])
<1> DEFINE S == {buf[i] : i \in 0..(n - 1)} \cup {b[h]}
           x == b[h]
           q == Contents(buf, h, t, n)
           next == (h + 1) % n
           r == Contents(b, next, t, n)
           a == Append(q, x)
<1>1. buf \in [0..(n - 1) -> S] /\ x \in S
  BY DEF IsRing
<1>2. b \in [0..(n - 1) -> S]
  BY <1>1 DEF IsRing
<1> HIDE DEF S, x
<1>3. next = (IF h + 1 = n THEN 0 ELSE h + 1) /\ next \in 0..(n - 1)
  <2>1. next = IF h + 1 = n THEN 0 ELSE h + 1
    BY Slots
  <2> HIDE DEF next
  <2>2. QED BY <2>1
<1>4. /\ q \in Seq(S) /\ Len(q) \in 0..(n - 1)
      /\ Len(q) = Held(h, t, n)
      /\ \A i \in 1..Len(q) : q[i] = buf[Slot(t, i, n)]
  <2>1. q \in Seq(S) /\ Len(q) = Held(h, t, n) /\ Held(h, t, n) \in 0..(n - 1)
    BY <1>1, ContentsLength
  <2>2. \A i \in 1..Held(h, t, n) : q[i] = buf[Slot(t, i, n)]
    BY ContentsSlots
  <2>3. QED BY <2>1, <2>2
<1> HIDE DEF q, next
<1>5. /\ r \in Seq(S) /\ Len(r) \in 0..(n - 1)
      /\ Len(r) = Held(next, t, n)
      /\ \A i \in 1..Len(r) : r[i] = b[Slot(t, i, n)]
  <2>1. next \in 0..(n - 1) /\ b \in [0..(n - 1) -> S]
    BY <1>3, <1>2
  <2>2. r \in Seq(S) /\ Len(r) = Held(next, t, n) /\ Held(next, t, n) \in 0..(n - 1)
    BY <2>1, ContentsLength
  <2>3. \A i \in 1..Held(next, t, n) : r[i] = b[Slot(t, i, n)]
    BY <2>1, ContentsSlots
  <2>4. QED BY <2>2, <2>3
<1>6. /\ a \in Seq(S) /\ Len(a) = Len(q) + 1
      /\ \A i \in 1..(Len(q) + 1) : a[i] = IF i <= Len(q) THEN q[i] ELSE x
  BY <1>1, <1>4, PushElements
<1> HIDE DEF a, r
<1>7. (next = t <=> Len(q) = n - 1) /\ (next # t => Len(q) < n - 1)
  BY <1>3, <1>4 DEF Held
<1>8. ASSUME next # t PROVE r = a
  <2>1. Len(r) = Len(q) + 1
    <3>1. Held(next, t, n) = Held(h, t, n) + 1
      BY <1>3, <1>8 DEF Held
    <3>2. QED BY <1>4, <1>5, <3>1
  <2>2. ASSUME NEW i \in 1..Len(r) PROVE r[i] = a[i]
    <3> DEFINE k == Slot(t, i, n)
    <3>1. r[i] = b[k]
      BY <1>5
    <3>2. i \in 1..(Len(q) + 1) /\ Len(q) \in Nat
      BY <1>4, <2>1
    <3>3. CASE i = Len(q) + 1
      <4>1. k = h BY <1>4, <3>2, <3>3 DEF Held, Slot
      <4>2. a[i] = x BY <1>6, <3>2, <3>3
      <4>3. QED BY <3>1, <4>1, <4>2 DEF x
    <3>4. CASE i <= Len(q)
      <4>1. k # h /\ k \in 0..(n - 1) BY <1>4, <3>2, <3>4 DEF Held, Slot
      <4>2. b[k] = buf[k] BY <4>1
      <4>3. i \in 1..Len(q) BY <3>2, <3>4
      <4>4. q[i] = buf[k] BY <1>4, <4>3
      <4>5. a[i] = q[i] BY <1>6, <3>2, <3>4
      <4>6. QED BY <3>1, <4>2, <4>4, <4>5
    <3>5. QED BY <3>2, <3>3, <3>4
  <2>3. QED BY <1>5, <1>6, <2>1, <2>2, SeqEqual
<1>9. QED
  BY <1>3, <1>7, <1>8 DEF q, next, r, a, x

\* The byte at the tail is the oldest.
LEMMA ContentsGet ==
    ASSUME NEW n \in Nat \ {0, 1}, NEW h \in 0..(n - 1), NEW t \in 0..(n - 1),
           NEW buf, IsRing(buf, n)
    PROVE  LET q == Contents(buf, h, t, n)
               next == (t + 1) % n
           IN /\ next \in 0..(n - 1)
              /\ h = t <=> q = <<>>
              /\ h # t => /\ Head(q) = buf[t]
                          /\ Contents(buf, h, next, n) = Tail(q)
<1> DEFINE S == {buf[i] : i \in 0..(n - 1)}
           q == Contents(buf, h, t, n)
           next == (t + 1) % n
           r == Contents(buf, h, next, n)
<1>1. buf \in [0..(n - 1) -> S]
  BY DEF IsRing
<1> HIDE DEF S
<1>2. next = (IF t + 1 = n THEN 0 ELSE t + 1) /\ next \in 0..(n - 1)
  <2>1. next = IF t + 1 = n THEN 0 ELSE t + 1
    BY Slots
  <2> HIDE DEF next
  <2>2. QED BY <2>1
<1>3. /\ q \in Seq(S) /\ Len(q) \in 0..(n - 1)
      /\ Len(q) = Held(h, t, n)
      /\ \A i \in 1..Len(q) : q[i] = buf[Slot(t, i, n)]
  <2>1. q \in Seq(S) /\ Len(q) = Held(h, t, n) /\ Held(h, t, n) \in 0..(n - 1)
    BY <1>1, ContentsLength
  <2>2. \A i \in 1..Held(h, t, n) : q[i] = buf[Slot(t, i, n)]
    BY ContentsSlots
  <2>3. QED BY <2>1, <2>2
<1> HIDE DEF q, next
<1>4. /\ r \in Seq(S) /\ Len(r) \in 0..(n - 1)
      /\ Len(r) = Held(h, next, n)
      /\ \A i \in 1..Len(r) :
            r[i] = buf[Slot(next, i, n)]
  <2>1. r \in Seq(S) /\ Len(r) = Held(h, next, n) /\ Held(h, next, n) \in 0..(n - 1)
    BY <1>1, <1>2, ContentsLength
  <2>2. \A i \in 1..Held(h, next, n) : r[i] = buf[Slot(next, i, n)]
    BY <1>2, ContentsSlots
  <2>3. QED BY <2>1, <2>2
<1>5. h = t <=> q = <<>>
  <2>1. h = t <=> Len(q) = 0
    BY <1>3 DEF Held
  <2>2. QED BY <1>3, <2>1, EmptySeq
<1>6. ASSUME h # t PROVE Head(q) = buf[t] /\ r = Tail(q)
  <2>1. q # <<>>
    BY <1>5, <1>6
  <2>2. /\ Head(q) = q[1] /\ Tail(q) \in Seq(S) /\ Len(Tail(q)) = Len(q) - 1
        /\ \A i \in 1..Len(Tail(q)) : Tail(q)[i] = q[i + 1]
    BY <1>3, <2>1, HeadTailProperties
  <2> DEFINE tl == Tail(q)
  <2> HIDE DEF tl, r
  <2>3. 1 \in 1..Len(q) /\ Slot(t, 1, n) = t
    BY <1>3, <1>6 DEF Held, Slot
  <2>4. Head(q) = buf[t]
    BY <1>3, <2>2, <2>3
  <2>5. Len(r) = Len(tl)
    <3>1. Len(tl) = Len(q) - 1
      BY <2>2 DEF tl
    <3>2. Held(h, next, n) = Held(h, t, n) - 1
      BY <1>2, <1>6 DEF Held
    <3>3. QED BY <1>3, <1>4, <3>1, <3>2
  <2>6. ASSUME NEW i \in 1..Len(r) PROVE r[i] = tl[i]
    <3>1. i + 1 \in 1..Len(q) /\ i \in 1..Len(tl)
      BY <1>3, <2>2, <2>5 DEF tl
    <3>2. Slot(next, i, n) = Slot(t, i + 1, n)
      <4>1. i \in 1..n BY <1>3, <3>1
      <4>2. QED BY <1>2, <4>1 DEF Slot
    <3> DEFINE j == i + 1
    <3> HIDE DEF j
    <3>3. q[j] = buf[Slot(t, j, n)]
      BY <1>3, <3>1 DEF j
    <3>4. tl[i] = q[j]
      BY <2>2, <3>1 DEF tl, j
    <3>5. r[i] = buf[Slot(next, i, n)]
      BY <1>4
    <3>6. QED BY <3>2, <3>3, <3>4, <3>5 DEF j
  <2>7. tl \in Seq(S) BY <2>2 DEF tl
  <2>8. QED BY <1>4, <2>4, <2>5, <2>6, <2>7, SeqEqual DEF tl, r
<1>7. QED
  BY <1>2, <1>5, <1>6 DEF q, next, r

\* The same, in the form the driver's steps need.
LEMMA RingIsFull ==
    ASSUME NEW n \in Nat \ {0, 1}, NEW h \in 0..(n - 1), NEW t \in 0..(n - 1),
           NEW buf, IsRing(buf, n)
    PROVE  /\ (h + 1) % n = t <=> Len(Contents(buf, h, t, n)) = n - 1
           /\ (h + 1) % n # t => Len(Contents(buf, h, t, n)) < n - 1
  BY ContentsPut

LEMMA RingPut ==
    ASSUME NEW n \in Nat \ {0, 1}, NEW h \in 0..(n - 1), NEW t \in 0..(n - 1),
           NEW buf, IsRing(buf, n), NEW b, IsRing(b, n),
           \A i \in 0..(n - 1) : i # h => b[i] = buf[i], (h + 1) % n # t
    PROVE  Contents(b, (h + 1) % n, t, n) = Append(Contents(buf, h, t, n), b[h])
  BY ContentsPut

LEMMA RingIsEmpty ==
    ASSUME NEW n \in Nat \ {0, 1}, NEW h \in 0..(n - 1), NEW t \in 0..(n - 1),
           NEW buf, IsRing(buf, n)
    PROVE  h = t <=> Contents(buf, h, t, n) = <<>>
  BY ContentsGet

LEMMA RingGet ==
    ASSUME NEW n \in Nat \ {0, 1}, NEW h \in 0..(n - 1), NEW t \in 0..(n - 1),
           NEW buf, IsRing(buf, n), h # t
    PROVE  /\ Head(Contents(buf, h, t, n)) = buf[t]
           /\ Contents(buf, h, (t + 1) % n, n) = Tail(Contents(buf, h, t, n))
  BY ContentsGet

-----------------------------------------------------------------------------
(* The invariant *)

RingsOK == IsRing(tx_buf, TX_SIZE) /\ IsRing(rx_buf, RX_SIZE)

\* A writer is in a call as long as it has bytes to put.
CallsOK == \A t \in Writers : wpc[t] = "out" <=> todo[t] = <<>>

\* Only the interrupt-driven uart_putc waits.
WindowsOK == \A t \in Writers : wpc[t] = "full" => async_tx_enabled

ConsoleInv == QueuedBytesAreDriven /\ RingsOK /\ CallsOK /\ WindowsOK

\* A string with a byte in it, carriage returns added, is a sequence with a
\* byte in it.
LEMMA ExpandedIsFull ==
    ASSUME NEW s \in Strings
    PROVE  Expanded(s) # <<>>
<1> DEFINE B == {CR, NL} \cup Range(s)
           parts == [i \in DOMAIN s |-> IF s[i] = NL THEN <<CR, NL>> ELSE <<s[i]>>]
<1>1. s \in Seq(Range(s)) /\ s # <<>>
  BY ConsoleAssumption
<1>2. Len(s) \in Nat \ {0} /\ DOMAIN s = 1..Len(s)
  BY <1>1, LenProperties, EmptySeq
<1>3. \A i \in DOMAIN s : s[i] \in B
  BY DEF Range
<1>4. CR \in B /\ NL \in B
  OBVIOUS
<1> HIDE DEF B
<1>5. \A i \in DOMAIN s : parts[i] \in Seq(B) /\ parts[i] # <<>>
  <2>1. <<CR, NL>> \in Seq(B) /\ <<CR, NL>> # <<>>
    BY <1>4
  <2>2. \A i \in DOMAIN s : <<s[i]>> \in Seq(B) /\ <<s[i]>> # <<>>
    BY <1>3
  <2>3. QED BY <2>1, <2>2, Zenon
<1>6. parts \in [1..Len(s) -> Seq(B)]
  BY <1>2, <1>5
<1>7. Expanded(s) = FlattenSeq(parts)
  BY DEF Expanded
<1> HIDE DEF parts
<1>8. parts \in Seq(Seq(B)) /\ Len(parts) = Len(s)
  BY <1>2, <1>6, FunctionIsSeq
<1>9. parts # <<>> /\ \A i \in 1..Len(parts) : parts[i] # <<>>
  <2>1. parts # <<>> BY <1>2, <1>8, EmptySeq
  <2>2. QED BY <1>2, <1>5, <1>8, <2>1
<1>10. QED
  BY <1>7, <1>8, <1>9, FlattenSeqProperties

\* The slot after one of a ring is one of its slots.
LEMMA NextSlots ==
    /\ \A h \in Tx : (h + 1) % TX_SIZE \in Tx
    /\ \A h \in Rx : (h + 1) % RX_SIZE \in Rx
<1>1. ASSUME NEW n \in Nat \ {0, 1}, NEW h \in 0..(n - 1)
      PROVE  (h + 1) % n \in 0..(n - 1)
  <2>1. (h + 1) % n = IF h + 1 = n THEN 0 ELSE h + 1
    BY Slots
  <2> DEFINE next == (h + 1) % n
  <2> HIDE DEF next
  <2>2. next \in 0..(n - 1)
    BY <2>1 DEF next
  <2>3. QED BY <2>2 DEF next
<1>2. QED
  BY <1>1, ConsoleAssumption DEF Tx, Rx

LEMMA ConsoleInitInv == ConsoleInit => ConsoleInv
<1>1. 0 \in Tx /\ 0 \in Rx
  BY ConsoleAssumption DEF Tx, Rx
<1>2. QED
  BY <1>1 DEF ConsoleInit, ConsoleInv, QueuedBytesAreDriven, ConsoleTypeOK, RingsOK, IsRing, Tx, Rx, CallsOK, WindowsOK

\* What follows a byte that is through.
LEMMA AdvanceInv ==
    ASSUME ConsoleInv, NEW t \in Writers, Advance(t), wpc[t] # "out", whole' = whole
    PROVE  /\ holder' \in Writers \cup {None} /\ DOMAIN todo' = Writers
           /\ wpc' \in [Writers -> {"out", "put", "full"}]
           /\ CallsOK'
           /\ \A u \in Writers : wpc'[u] = "full" => wpc[u] = "full"
<1> USE DEF ConsoleInv, QueuedBytesAreDriven, ConsoleTypeOK, CallsOK, Advance
<1>1. holder' \in Writers \cup {None} /\ DOMAIN todo' = Writers
  OBVIOUS
<1>2. wpc' \in [Writers -> {"out", "put", "full"}]
  OBVIOUS
<1>3. CallsOK'
  OBVIOUS
<1>4. \A u \in Writers : wpc'[u] = "full" => wpc[u] = "full"
  OBVIOUS
<1>5. QED
  BY <1>1, <1>2, <1>3, <1>4

LEMMA StoreInv ==
    ASSUME ConsoleInv, NEW t \in Writers, NEW next \in Tx, async_tx_enabled, wpc[t] # "out",
           Store(t, next), next_head' \in [Writers -> Tx]
    PROVE  ConsoleInv'
<1>1. /\ holder' \in Writers \cup {None} /\ DOMAIN todo' = Writers
      /\ wpc' \in [Writers -> {"out", "put", "full"}]
      /\ CallsOK'
      /\ \A u \in Writers : wpc'[u] = "full" => wpc[u] = "full"
  BY AdvanceInv DEF Store
<1>2. ConsoleTypeOK'
  BY <1>1 DEF ConsoleInv, QueuedBytesAreDriven, ConsoleTypeOK, Store, rx_vars, device, readers
<1>3. RingsOK'
  BY DEF ConsoleInv, RingsOK, IsRing, Tx, QueuedBytesAreDriven, ConsoleTypeOK, Store, rx_vars
<1>4. WindowsOK' /\ (tx_head' # tx_tail' => ier_tx' /\ async_tx_enabled')
  BY <1>1 DEF ConsoleInv, WindowsOK, Store
<1>5. QED
  BY <1>1, <1>2, <1>3, <1>4 DEF ConsoleInv, QueuedBytesAreDriven

LEMMA ConsoleNextInv == ConsoleInv /\ [ConsoleNext]_consoleVars => ConsoleInv'
<1> SUFFICES ASSUME ConsoleInv, [ConsoleNext]_consoleVars
             PROVE  ConsoleInv'
  OBVIOUS
<1> USE DEF ConsoleInv, QueuedBytesAreDriven
<1>1. ASSUME NEW t \in Writers, NEW s \in Strings, uart_puts(t, s)
      PROVE  ConsoleInv'
  <2>1. Expanded(s) # <<>>
    BY ExpandedIsFull
  <2>2. ConsoleTypeOK'
    BY <1>1 DEF uart_puts, ConsoleTypeOK, rx_vars, tx_vars, device, readers
  <2>3. CallsOK'
    BY <1>1, <2>1 DEF uart_puts, ConsoleTypeOK, CallsOK
  <2>4. QED BY <1>1, <2>2, <2>3 DEF uart_puts, ConsoleTypeOK, RingsOK, WindowsOK, rx_vars, tx_vars
<1>2. ASSUME NEW t \in Writers, NEW s \in Strings, uart_write(t, s)
      PROVE  ConsoleInv'
  <2>1. Expanded(s) # <<>>
    BY ExpandedIsFull
  <2>2. ConsoleTypeOK'
    BY <1>2 DEF uart_write, ConsoleTypeOK, rx_vars, tx_vars, device, readers
  <2>3. CallsOK'
    BY <1>2, <2>1 DEF uart_write, ConsoleTypeOK, CallsOK
  <2>4. QED BY <1>2, <2>2, <2>3 DEF uart_write, ConsoleTypeOK, RingsOK, WindowsOK, rx_vars, tx_vars
<1>3. ASSUME NEW t \in Writers, poll(t)
      PROVE  ConsoleInv'
  <2>1. /\ holder' \in Writers \cup {None} /\ DOMAIN todo' = Writers
        /\ wpc' \in [Writers -> {"out", "put", "full"}]
        /\ CallsOK'
        /\ \A u \in Writers : wpc'[u] = "full" => wpc[u] = "full"
    BY <1>3, AdvanceInv DEF poll
  <2>2. ConsoleTypeOK'
    BY <1>3, <2>1 DEF poll, ConsoleTypeOK, rx_vars, tx_vars, readers
  <2>3. QED BY <1>3, <2>1, <2>2 DEF poll, RingsOK, WindowsOK, rx_vars, tx_vars
<1>4. ASSUME NEW t \in Writers, uart_putc(t)
      PROVE  ConsoleInv'
  <2> DEFINE next == (tx_head + 1) % TX_SIZE
  <2>1. next \in Tx
    BY NextSlots DEF ConsoleTypeOK
  <2>2. /\ async_tx_enabled /\ wpc[t] = "put" /\ next_head' = [next_head EXCEPT ![t] = next]
        /\ IF Full(next)
           THEN /\ wpc' = [wpc EXCEPT ![t] = "full"] /\ holder' = None
                /\ UNCHANGED <<rx_vars, tx_vars, async_tx_enabled, ier_tx, device, todo, whole, readers>>
           ELSE Store(t, next)
    BY <1>4 DEF uart_putc
  <2> HIDE DEF next
  <2>3. next_head' \in [Writers -> Tx]
    BY <2>1, <2>2 DEF ConsoleTypeOK
  <2>4. CASE Full(next)
    <3>1. ConsoleTypeOK'
      BY <2>2, <2>3, <2>4 DEF ConsoleTypeOK, rx_vars, tx_vars, device, readers
    <3>2. CallsOK'
      BY <2>2, <2>4 DEF CallsOK, ConsoleTypeOK
    <3>3. QED BY <2>2, <2>4, <3>1, <3>2 DEF RingsOK, WindowsOK, rx_vars, tx_vars
  <2>5. CASE ~Full(next)
    BY <2>1, <2>2, <2>3, <2>5, StoreInv
  <2>6. QED BY <2>4, <2>5
<1>5. ASSUME NEW t \in Writers, uart_putc_wake(t)
      PROVE  ConsoleInv'
  <2>1. async_tx_enabled /\ wpc[t] # "out" /\ Store(t, next_head[t]) /\ next_head' = next_head
    BY <1>5 DEF uart_putc_wake, WindowsOK
  <2>2. next_head[t] \in Tx /\ next_head' \in [Writers -> Tx]
    BY <2>1 DEF ConsoleTypeOK
  <2>3. QED BY <2>1, <2>2, StoreInv
<1>6. ASSUME uart_intr_enable
      PROVE  ConsoleInv'
  BY <1>6 DEF uart_intr_enable, ConsoleTypeOK, RingsOK, CallsOK, WindowsOK, rx_vars, tx_vars, device,
              writers, readers
<1>7. ASSUME uart_interrupt_handler
      PROVE  ConsoleInv'
  <2>1. (rx_head + 1) % RX_SIZE \in Rx /\ (tx_tail + 1) % TX_SIZE \in Tx
    BY NextSlots DEF ConsoleTypeOK
  <2>2. async_tx_enabled /\ receive /\ transmit
        /\ UNCHANGED <<tx_buf, tx_head, async_tx_enabled, writers, readers>>
    BY <1>7 DEF uart_interrupt_handler
  <2>3. /\ rx_head' \in Rx /\ rx_tail' = rx_tail /\ DOMAIN rx_buf' = Rx /\ lsr_dr' \in BOOLEAN
        /\ IsRing(rx_buf', RX_SIZE)
    BY <2>1, <2>2 DEF receive, ConsoleTypeOK, RingsOK, IsRing, Rx, rx_vars
  <2>4. /\ tx_tail' \in Tx /\ {ier_tx', lsr_tdrq'} \subseteq BOOLEAN
        /\ tx_head # tx_tail' => ier_tx'
    BY <2>1, <2>2 DEF transmit, ConsoleTypeOK
  <2>5. ConsoleTypeOK'
    BY <2>2, <2>3, <2>4 DEF ConsoleTypeOK, writers, readers
  <2>6. QED
    BY <2>2, <2>3, <2>4, <2>5 DEF RingsOK, CallsOK, WindowsOK, writers
<1>8. ASSUME Sent \/ \E c \in Inputs : Arrives(c)
      PROVE  ConsoleInv'
  BY <1>8 DEF Sent, Arrives, ConsoleTypeOK, RingsOK, CallsOK, WindowsOK, rx_vars, tx_vars, writers, readers
<1>9. ASSUME NEW t \in Readers, uart_getc_raw(t) \/ uart_getc_data(t) \/ uart_getc_take(t)
      PROVE  ConsoleInv'
  <2>1. (rx_tail + 1) % RX_SIZE \in Rx
    BY NextSlots DEF ConsoleTypeOK
  <2>2. /\ rpc' \in [Readers -> {"out", "wait", "ready"}] /\ DOMAIN got' = Readers /\ rx_tail' \in Rx
        /\ UNCHANGED <<rx_buf, rx_head, tx_vars, async_tx_enabled, ier_tx, device, writers>>
    BY <1>9, <2>1 DEF uart_getc_raw, uart_getc_data, uart_getc_take, ReaderStep, ConsoleTypeOK
  <2>3. QED
    BY <2>2 DEF ConsoleTypeOK, RingsOK, CallsOK, WindowsOK, tx_vars, device, writers
<1>10. ASSUME UNCHANGED consoleVars
       PROVE  ConsoleInv'
  BY <1>10 DEF consoleVars, ConsoleTypeOK, RingsOK, CallsOK, WindowsOK, rx_vars, tx_vars, device, writers, readers
<1>11. QED
  BY <1>1, <1>2, <1>3, <1>4, <1>5, <1>6, <1>7, <1>8, <1>9, <1>10 DEF ConsoleNext

\* A byte in the transmit ring has the interrupt that will send it, whatever
\* the size of the ring and however many threads write.
THEOREM QueuedIsDriven == ConsoleSpec => []QueuedBytesAreDriven
<1>1. ConsoleInv => QueuedBytesAreDriven
  BY DEF ConsoleInv
<1>2. QED
  BY ConsoleInitInv, ConsoleNextInv, <1>1, PTL DEF ConsoleSpec

-----------------------------------------------------------------------------
(* The transmit ring as a channel *)

OneWriter == \A t, u \in Writers : t = u

\* A writer that waits knows the slot after the head: nobody else moved it.
SlotKept == \A t \in Writers : wpc[t] = "full" => next_head[t] = (tx_head + 1) % TX_SIZE

LEMMA SlotKeptInv ==
    ASSUME OneWriter, ConsoleInv, SlotKept, [ConsoleNext]_consoleVars
    PROVE  SlotKept'
<1> USE DEF ConsoleInv, QueuedBytesAreDriven, ConsoleTypeOK
<1>1. ASSUME NEW t \in Writers, NEW next, Store(t, next)
      PROVE  SlotKept'
  <2>1. wpc' = [wpc EXCEPT ![t] = IF Tail(todo[t]) = <<>> THEN "out" ELSE "put"]
    BY <1>1 DEF Store, Advance
  <2>2. \A u \in Writers : wpc'[u] # "full"
    BY <2>1 DEF OneWriter
  <2>3. QED BY <2>2 DEF SlotKept
<1>2. ASSUME NEW t \in Writers, NEW s \in Strings, uart_puts(t, s) \/ uart_write(t, s)
      PROVE  SlotKept'
  BY <1>2 DEF uart_puts, uart_write, SlotKept, tx_vars
<1>3. ASSUME NEW t \in Writers, poll(t)
      PROVE  SlotKept'
  BY <1>3 DEF poll, Advance, SlotKept, tx_vars
<1>4. ASSUME NEW t \in Writers, uart_putc(t)
      PROVE  SlotKept'
  <2> DEFINE next == (tx_head + 1) % TX_SIZE
  <2>1. /\ next_head' = [next_head EXCEPT ![t] = next]
        /\ (wpc' = [wpc EXCEPT ![t] = "full"] /\ UNCHANGED tx_vars) \/ Store(t, next)
    BY <1>4 DEF uart_putc
  <2>2. CASE wpc' = [wpc EXCEPT ![t] = "full"] /\ UNCHANGED tx_vars
    <3>1. tx_head' = tx_head /\ next_head'[t] = next
      BY <2>1, <2>2 DEF tx_vars
    <3>2. \A u \in Writers : u = t
      BY DEF OneWriter
    <3>3. QED BY <3>1, <3>2 DEF SlotKept
  <2>3. CASE Store(t, next)
    BY <1>1, <2>3
  <2>4. QED BY <2>1, <2>2, <2>3
<1>5. ASSUME NEW t \in Writers, uart_putc_wake(t)
      PROVE  SlotKept'
  BY <1>1, <1>5 DEF uart_putc_wake
<1>6. ASSUME \/ uart_intr_enable \/ uart_interrupt_handler \/ Sent
             \/ \E c \in Inputs : Arrives(c)
             \/ \E t \in Readers : uart_getc_raw(t) \/ uart_getc_data(t) \/ uart_getc_take(t)
             \/ UNCHANGED consoleVars
      PROVE  SlotKept'
  <2>1. UNCHANGED <<tx_head, writers>>
    BY <1>6 DEF uart_intr_enable, uart_interrupt_handler, Sent, Arrives, uart_getc_raw,
                uart_getc_data, uart_getc_take, ReaderStep, tx_vars, consoleVars
  <2>2. QED BY <2>1 DEF SlotKept, writers
<1>7. QED
  BY <1>2, <1>3, <1>4, <1>5, <1>6 DEF ConsoleNext

\* A byte stored is a byte put.
LEMMA StorePuts ==
    ASSUME ConsoleInv, NEW t \in Writers, wpc[t] # "out",
           Store(t, (tx_head + 1) % TX_SIZE), ~Full((tx_head + 1) % TX_SIZE)
    PROVE  TxChannel!Put(t)
<1> DEFINE next == (tx_head + 1) % TX_SIZE
           x == Head(todo[t])
<1>1. /\ TX_SIZE \in Nat \ {0, 1} /\ IsRing(tx_buf, TX_SIZE)
      /\ tx_head \in 0..(TX_SIZE - 1) /\ tx_tail \in 0..(TX_SIZE - 1)
  BY ConsoleAssumption DEF ConsoleInv, QueuedBytesAreDriven, ConsoleTypeOK, RingsOK, Tx
<1>3. todo[t] # <<>> /\ DOMAIN todo = Writers
  BY DEF ConsoleInv, CallsOK, QueuedBytesAreDriven, ConsoleTypeOK
<1>4. next # tx_tail
  BY DEF Full
<1> HIDE DEF x
<1>5. /\ tx_buf' = [tx_buf EXCEPT ![tx_head] = x] /\ tx_head' = next /\ tx_tail' = tx_tail
      /\ todo' = [todo EXCEPT ![t] = Tail(todo[t])] /\ thr' = thr
  BY DEF Store, Advance, device, x
<1>6. /\ IsRing(tx_buf', TX_SIZE) /\ tx_buf'[tx_head] = x
      /\ \A i \in 0..(TX_SIZE - 1) : i # tx_head => tx_buf'[i] = tx_buf[i]
  BY <1>1, <1>5 DEF IsRing
<1>7. Len(tx_queue) < TX_SIZE - 1
  BY <1>1, <1>4, RingIsFull DEF tx_queue
<1>8. Contents(tx_buf', next, tx_tail, TX_SIZE) = Append(tx_queue, tx_buf'[tx_head])
  BY <1>1, <1>4, <1>6, RingPut DEF tx_queue
<1> HIDE DEF next
<1>9. tx_queue' = Append(tx_queue, x)
  BY <1>5, <1>6, <1>8 DEF tx_queue
<1>10. line_got' = line_got
  BY <1>5 DEF line_got
<1>11. QED
  BY <1>3, <1>5, <1>7, <1>9, <1>10 DEF TxChannel!Put, TxChannel!Accepted, x

LEMMA TxStep ==
    ASSUME ConsoleInv, SlotKept, [ConsoleNext]_consoleVars
    PROVE  [TxChannel!Next]_<<tx_queue, todo, line_got>>
<1> USE DEF ConsoleInv, QueuedBytesAreDriven, ConsoleTypeOK
<1>1. ASSUME NEW t \in Writers, NEW s \in Strings, uart_puts(t, s) \/ uart_write(t, s)
      PROVE  TxChannel!Next
  <2>1. /\ todo[t] = <<>> /\ todo' = [todo EXCEPT ![t] = Expanded(s)]
        /\ UNCHANGED <<tx_buf, tx_head, tx_tail, thr>>
    BY <1>1 DEF uart_puts, uart_write, CallsOK, tx_vars, device
  <2>2. todo' = [todo EXCEPT ![t] = todo'[t]]
    BY <2>1
  <2>3. TxChannel!Offer(t)
    BY <2>1, <2>2 DEF TxChannel!Offer, tx_queue, line_got
  <2>4. QED BY <2>3 DEF TxChannel!Next
<1>2. ASSUME NEW t \in Writers, poll(t)
      PROVE  TxChannel!Next
  <2>1. /\ tx_head = tx_tail /\ todo[t] # <<>> /\ thr' = Head(todo[t])
        /\ todo' = [todo EXCEPT ![t] = Tail(todo[t])]
        /\ UNCHANGED <<tx_buf, tx_head, tx_tail>>
    BY <1>2 DEF poll, Advance, CallsOK, tx_vars
  <2>2. tx_queue = <<>> /\ tx_queue' = tx_queue
    <3>1. /\ TX_SIZE \in Nat \ {0, 1} /\ IsRing(tx_buf, TX_SIZE)
          /\ tx_head \in 0..(TX_SIZE - 1) /\ tx_tail \in 0..(TX_SIZE - 1)
      BY ConsoleAssumption DEF RingsOK, Tx
    <3>2. Contents(tx_buf, tx_head, tx_tail, TX_SIZE) = <<>>
      BY <2>1, <3>1, RingIsEmpty
    <3>3. QED BY <2>1, <3>2 DEF tx_queue
  <2>3. line_got' = [line_got EXCEPT !["line"] = Head(todo[t])]
    BY <2>1 DEF line_got
  <2>4. TxChannel!Pass(t, "line")
    BY <2>1, <2>2, <2>3 DEF TxChannel!Pass, TxChannel!Accepted
  <2>5. QED BY <2>4 DEF TxChannel!Next
<1>3. ASSUME NEW t \in Writers, uart_putc(t)
      PROVE  TxChannel!Next \/ UNCHANGED <<tx_queue, todo, line_got>>
  <2>1. CASE Full((tx_head + 1) % TX_SIZE)
    BY <1>3, <2>1 DEF uart_putc, tx_vars, device, tx_queue, line_got
  <2>2. CASE ~Full((tx_head + 1) % TX_SIZE)
    <3>1. TxChannel!Put(t)
      BY <1>3, <2>2, StorePuts DEF uart_putc
    <3>2. QED BY <3>1 DEF TxChannel!Next
  <2>3. QED BY <2>1, <2>2
<1>4. ASSUME NEW t \in Writers, uart_putc_wake(t)
      PROVE  TxChannel!Next
  <2>1. TxChannel!Put(t)
    BY <1>4, StorePuts DEF uart_putc_wake, SlotKept
  <2>2. QED BY <2>1 DEF TxChannel!Next
<1>5. ASSUME uart_interrupt_handler
      PROVE  TxChannel!Next \/ UNCHANGED <<tx_queue, todo, line_got>>
  <2>1. transmit /\ UNCHANGED <<tx_buf, tx_head, todo>>
    BY <1>5 DEF uart_interrupt_handler, writers
  <2>2. CASE tx_tail' = tx_tail /\ thr' = thr
    BY <2>1, <2>2 DEF tx_queue, line_got
  <2>3. CASE tx_head # tx_tail /\ thr' = tx_buf[tx_tail] /\ tx_tail' = (tx_tail + 1) % TX_SIZE
    <3> DEFINE q == Contents(tx_buf, tx_head, tx_tail, TX_SIZE)
    <3>1. /\ TX_SIZE \in Nat \ {0, 1} /\ IsRing(tx_buf, TX_SIZE)
          /\ tx_head \in 0..(TX_SIZE - 1) /\ tx_tail \in 0..(TX_SIZE - 1)
      BY ConsoleAssumption DEF RingsOK, Tx
    <3>2. /\ q # <<>> /\ Head(q) = tx_buf[tx_tail]
          /\ Contents(tx_buf, tx_head, (tx_tail + 1) % TX_SIZE, TX_SIZE) = Tail(q)
      <4> HIDE DEF q
      <4>1. q # <<>>
        BY <2>3, <3>1, RingIsEmpty DEF q
      <4>2. /\ Head(q) = tx_buf[tx_tail]
            /\ Contents(tx_buf, tx_head, (tx_tail + 1) % TX_SIZE, TX_SIZE) = Tail(q)
        BY <2>3, <3>1, RingGet DEF q
      <4>3. QED BY <4>1, <4>2
    <3>3. tx_queue # <<>> /\ tx_queue' = Tail(tx_queue) /\ thr' = Head(tx_queue)
      BY <2>1, <2>3, <3>2 DEF tx_queue
    <3>4. line_got' = [line_got EXCEPT !["line"] = Head(tx_queue)]
      BY <3>3 DEF line_got
    <3>5. TxChannel!Get("line")
      BY <2>1, <3>3, <3>4 DEF TxChannel!Get
    <3>6. QED BY <3>5 DEF TxChannel!Next
  <2>4. QED BY <2>1, <2>2, <2>3 DEF transmit
<1>6. ASSUME \/ uart_intr_enable \/ Sent \/ \E c \in Inputs : Arrives(c)
             \/ \E t \in Readers : uart_getc_raw(t) \/ uart_getc_data(t) \/ uart_getc_take(t)
             \/ UNCHANGED consoleVars
      PROVE  UNCHANGED <<tx_queue, todo, line_got>>
  <2>1. UNCHANGED <<tx_buf, tx_head, tx_tail, todo, thr>>
    BY <1>6 DEF uart_intr_enable, Sent, Arrives, uart_getc_raw, uart_getc_data, uart_getc_take,
                ReaderStep, tx_vars, writers, device, consoleVars
  <2>2. QED BY <2>1 DEF tx_queue, line_got
<1>7. QED
  BY <1>1, <1>2, <1>3, <1>4, <1>5, <1>6 DEF ConsoleNext

LEMMA TxInit == ConsoleInit => TxChannel!Init /\ SlotKept
<1> SUFFICES ASSUME ConsoleInit
             PROVE  TxChannel!Init /\ SlotKept
  OBVIOUS
<1>1. /\ TX_SIZE \in Nat \ {0, 1} /\ IsRing(tx_buf, TX_SIZE)
      /\ tx_head = 0 /\ tx_tail = 0 /\ 0 \in 0..(TX_SIZE - 1)
  BY ConsoleAssumption DEF ConsoleInit, Tx, IsRing
<1>2. Contents(tx_buf, tx_head, tx_tail, TX_SIZE) = <<>>
  BY <1>1, RingIsEmpty
<1>3. QED
  BY <1>2 DEF ConsoleInit, TxChannel!Init, SlotKept, tx_queue

\* One thread at a time in uart_putc: every byte it puts reaches the line
\* once, in order, for every size of the ring and every string.
THEOREM OneWriterHasAChannel ==
    ASSUME OneWriter
    PROVE  ConsoleSpec => TxIsChannel
<1>1. SlotKept /\ ConsoleInv /\ [ConsoleNext]_consoleVars => SlotKept'
  BY SlotKeptInv
<1>2. SlotKept /\ ConsoleInv /\ [ConsoleNext]_consoleVars => [TxChannel!Next]_<<tx_queue, todo, line_got>>
  BY TxStep
<1>3. QED
  BY ConsoleInitInv, ConsoleNextInv, TxInit, <1>1, <1>2, PTL DEF ConsoleSpec, TxIsChannel, TxChannel!Spec

-----------------------------------------------------------------------------
(* The receive ring as a channel *)

OneReader == \A t, u \in Readers : t = u

\* Data a reader has seen is there when it takes it: nobody else took it.
SeenIsThere == \A t \in Readers : rpc[t] = "ready" => rx_head # rx_tail

LEMMA SeenIsThereInv ==
    ASSUME OneReader, ConsoleInv, SeenIsThere, [ConsoleNext]_consoleVars
    PROVE  SeenIsThere'
<1> USE DEF ConsoleInv, QueuedBytesAreDriven, ConsoleTypeOK
<1>1. ASSUME NEW t \in Readers, uart_getc_raw(t)
      PROVE  SeenIsThere'
  BY <1>1 DEF uart_getc_raw, ReaderStep, SeenIsThere
<1>2. ASSUME NEW t \in Readers, uart_getc_data(t)
      PROVE  SeenIsThere'
  BY <1>2 DEF uart_getc_data, ReaderStep, SeenIsThere
<1>3. ASSUME NEW t \in Readers, uart_getc_take(t)
      PROVE  SeenIsThere'
  <2>1. rpc' = [rpc EXCEPT ![t] = "out"]
    BY <1>3 DEF uart_getc_take, ReaderStep
  <2>2. \A u \in Readers : rpc'[u] # "ready"
    BY <2>1 DEF OneReader
  <2>3. QED BY <2>2 DEF SeenIsThere
<1>4. ASSUME uart_interrupt_handler
      PROVE  SeenIsThere'
  <2>1. receive /\ UNCHANGED readers
    BY <1>4 DEF uart_interrupt_handler
  <2> DEFINE next == (rx_head + 1) % RX_SIZE
  <2>2. rx_tail' = rx_tail /\ (rx_head' = rx_head \/ (rx_head' = next /\ next # rx_tail))
    BY <2>1 DEF receive, rx_vars
  <2> HIDE DEF next
  <2>3. QED BY <2>1, <2>2 DEF SeenIsThere, readers
<1>5. ASSUME \/ \E t \in Writers, s \in Strings : uart_puts(t, s) \/ uart_write(t, s)
             \/ \E t \in Writers : poll(t) \/ uart_putc(t) \/ uart_putc_wake(t)
             \/ uart_intr_enable \/ Sent \/ \E c \in Inputs : Arrives(c)
             \/ UNCHANGED consoleVars
      PROVE  SeenIsThere'
  <2>1. UNCHANGED <<rx_vars, readers>>
    BY <1>5 DEF uart_puts, uart_write, poll, uart_putc, uart_putc_wake, Store, uart_intr_enable,
                Sent, Arrives, consoleVars
  <2>2. QED BY <2>1 DEF SeenIsThere, rx_vars, readers
<1>6. QED
  BY <1>1, <1>2, <1>3, <1>4, <1>5 DEF ConsoleNext

\* A byte stored in the receive ring joins its queue.
LEMMA ReceivedIsQueued ==
    ASSUME ConsoleInv, receive, lsr_dr, (rx_head + 1) % RX_SIZE # rx_tail
    PROVE  Len(rx_queue) < RX_SIZE - 1 /\ rx_queue' = Append(rx_queue, rbr)
<1>1. /\ RX_SIZE \in Nat \ {0, 1} /\ IsRing(rx_buf, RX_SIZE)
      /\ rx_head \in 0..(RX_SIZE - 1) /\ rx_tail \in 0..(RX_SIZE - 1)
  BY ConsoleAssumption DEF ConsoleInv, QueuedBytesAreDriven, ConsoleTypeOK, RingsOK, Rx
<1>2. /\ rx_buf' = [rx_buf EXCEPT ![rx_head] = rbr] /\ rx_tail' = rx_tail
      /\ rx_head' = (rx_head + 1) % RX_SIZE
  BY DEF receive
<1>3. /\ IsRing(rx_buf', RX_SIZE) /\ rx_buf'[rx_head] = rbr
      /\ \A i \in 0..(RX_SIZE - 1) : i # rx_head => rx_buf'[i] = rx_buf[i]
  BY <1>1, <1>2 DEF IsRing
<1>4. Len(rx_queue) < RX_SIZE - 1
  BY <1>1, RingIsFull DEF rx_queue
<1>5. Contents(rx_buf', (rx_head + 1) % RX_SIZE, rx_tail, RX_SIZE)
        = Append(rx_queue, rx_buf'[rx_head])
  BY <1>1, <1>3, RingPut DEF rx_queue
<1>6. QED
  BY <1>2, <1>3, <1>4, <1>5 DEF rx_queue

LEMMA RxStep ==
    ASSUME ConsoleInv, SeenIsThere, [ConsoleNext]_consoleVars
    PROVE  [RxChannel!Next]_<<rx_queue, line_offers, got>>
<1> USE DEF ConsoleInv, QueuedBytesAreDriven, ConsoleTypeOK
<1>1. /\ RX_SIZE \in Nat \ {0, 1} /\ IsRing(rx_buf, RX_SIZE)
      /\ rx_head \in 0..(RX_SIZE - 1) /\ rx_tail \in 0..(RX_SIZE - 1)
  BY ConsoleAssumption DEF RingsOK, Rx
<1>2. ASSUME NEW c \in Inputs, Arrives(c)
      PROVE  RxChannel!Next
  <2>1. line_offers["line"] = <<>> /\ line_offers' = [line_offers EXCEPT !["line"] = <<c>>]
    BY <1>2 DEF Arrives, line_offers
  <2>2. line_offers' = [line_offers EXCEPT !["line"] = line_offers'["line"]]
    BY <1>2 DEF Arrives, line_offers
  <2>3. UNCHANGED <<rx_queue, got>>
    BY <1>2 DEF Arrives, rx_vars, readers, rx_queue
  <2>4. RxChannel!Offer("line")
    BY <2>1, <2>2, <2>3 DEF RxChannel!Offer
  <2>5. QED BY <2>4 DEF RxChannel!Next
<1>3. ASSUME uart_interrupt_handler
      PROVE  RxChannel!Next \/ UNCHANGED <<rx_queue, line_offers, got>>
  <2> DEFINE next == (rx_head + 1) % RX_SIZE
  <2>1. receive /\ got' = got
    BY <1>3 DEF uart_interrupt_handler, readers
  <2>2. CASE ~lsr_dr
    <3>1. UNCHANGED <<rx_buf, rx_head, rx_tail, lsr_dr, rbr>>
      BY <2>1, <2>2 DEF receive, rx_vars
    <3>2. QED BY <2>1, <3>1 DEF rx_queue, line_offers
  <2>3. CASE lsr_dr
    <3>1. /\ lsr_dr' = FALSE /\ rx_tail' = rx_tail
          /\ IF next # rx_tail
             THEN rx_buf' = [rx_buf EXCEPT ![rx_head] = rbr] /\ rx_head' = next
             ELSE UNCHANGED <<rx_buf, rx_head>>
      BY <2>1, <2>3 DEF receive
    <3>2. RxChannel!Accepted("line")
      <4>1. line_offers["line"] = <<rbr>> /\ line_offers' = [p \in {"line"} |-> <<>>]
        BY <2>3, <3>1 DEF line_offers
      <4>2. <<rbr>> # <<>> /\ Tail(<<rbr>>) = <<>>
        OBVIOUS
      <4>3. line_offers' = [line_offers EXCEPT !["line"] = <<>>]
        BY <4>1 DEF line_offers
      <4>4. QED BY <4>1, <4>2, <4>3 DEF RxChannel!Accepted
    <3>3. Head(line_offers["line"]) = rbr
      BY <2>3 DEF line_offers
    <3>4. CASE next = rx_tail
      <4>1. Len(rx_queue) = RX_SIZE - 1
        BY <1>1, <3>4, RingIsFull DEF rx_queue
      <4>2. rx_queue' = rx_queue
        BY <3>1, <3>4 DEF rx_queue
      <4>3. RxChannel!Drop("line")
        BY <2>1, <3>2, <4>1, <4>2 DEF RxChannel!Drop
      <4>4. QED BY <4>3 DEF RxChannel!Next
    <3>5. CASE next # rx_tail
      <4>1. Len(rx_queue) < RX_SIZE - 1 /\ rx_queue' = Append(rx_queue, rbr)
        BY <2>1, <2>3, <3>5, ReceivedIsQueued
      <4>2. RxChannel!Put("line")
        BY <2>1, <3>2, <3>3, <4>1 DEF RxChannel!Put
      <4>3. QED BY <4>2 DEF RxChannel!Next
    <3>6. QED BY <3>4, <3>5
  <2>4. QED BY <2>2, <2>3
<1>4. ASSUME NEW t \in Readers, uart_getc_take(t)
      PROVE  RxChannel!Next
  <2>1. /\ got' = [got EXCEPT ![t] = rx_buf[rx_tail]] /\ rx_tail' = (rx_tail + 1) % RX_SIZE
        /\ UNCHANGED <<rx_buf, rx_head, lsr_dr, rbr>> /\ rx_head # rx_tail
    BY <1>4 DEF uart_getc_take, ReaderStep, SeenIsThere, device
  <2>2. rx_queue # <<>> /\ Head(rx_queue) = rx_buf[rx_tail]
    <3>1. rx_queue # <<>>
      BY <1>1, <2>1, RingIsEmpty DEF rx_queue
    <3>2. Head(rx_queue) = rx_buf[rx_tail]
      BY <1>1, <2>1, RingGet DEF rx_queue
    <3>3. QED BY <3>1, <3>2
  <2>3. Contents(rx_buf, rx_head, (rx_tail + 1) % RX_SIZE, RX_SIZE) = Tail(rx_queue)
    BY <1>1, <2>1, RingGet DEF rx_queue
  <2>4. rx_queue' = Tail(rx_queue)
    BY <2>1, <2>3 DEF rx_queue
  <2>5. line_offers' = line_offers
    BY <2>1 DEF line_offers
  <2>6. RxChannel!Get(t)
    BY <2>1, <2>2, <2>4, <2>5 DEF RxChannel!Get
  <2>7. QED BY <2>6 DEF RxChannel!Next
<1>5. ASSUME \/ \E t \in Writers, s \in Strings : uart_puts(t, s) \/ uart_write(t, s)
             \/ \E t \in Writers : poll(t) \/ uart_putc(t) \/ uart_putc_wake(t)
             \/ uart_intr_enable \/ Sent
             \/ \E t \in Readers : uart_getc_raw(t) \/ uart_getc_data(t)
             \/ UNCHANGED consoleVars
      PROVE  UNCHANGED <<rx_queue, line_offers, got>>
  <2>1. UNCHANGED <<rx_buf, rx_head, rx_tail, lsr_dr, rbr, got>>
    BY <1>5 DEF uart_puts, uart_write, poll, uart_putc, uart_putc_wake, Store, uart_intr_enable,
                Sent, uart_getc_raw, uart_getc_data, ReaderStep, rx_vars, device, readers, consoleVars
  <2>2. QED BY <2>1 DEF rx_queue, line_offers
<1>6. QED
  BY <1>2, <1>3, <1>4, <1>5 DEF ConsoleNext

LEMMA RxInit == ConsoleInit => RxChannel!Init /\ SeenIsThere
<1> SUFFICES ASSUME ConsoleInit
             PROVE  RxChannel!Init /\ SeenIsThere
  OBVIOUS
<1>1. /\ RX_SIZE \in Nat \ {0, 1} /\ IsRing(rx_buf, RX_SIZE)
      /\ rx_head = 0 /\ rx_tail = 0 /\ 0 \in 0..(RX_SIZE - 1)
  BY ConsoleAssumption DEF ConsoleInit, Rx, IsRing
<1>2. Contents(rx_buf, rx_head, rx_tail, RX_SIZE) = <<>>
  BY <1>1, RingIsEmpty
<1>3. QED
  BY <1>2 DEF ConsoleInit, RxChannel!Init, SeenIsThere, rx_queue, line_offers

\* One thread at a time in uart_getc_raw: every byte that arrives is returned
\* once, in order, or dropped because the ring is full, for every size of it.
THEOREM OneReaderHasAChannel ==
    ASSUME OneReader
    PROVE  ConsoleSpec => RxIsChannel
<1>1. SeenIsThere /\ ConsoleInv /\ [ConsoleNext]_consoleVars => SeenIsThere'
  BY SeenIsThereInv
<1>2. SeenIsThere /\ ConsoleInv /\ [ConsoleNext]_consoleVars => [RxChannel!Next]_<<rx_queue, line_offers, got>>
  BY RxStep
<1>3. QED
  BY ConsoleInitInv, ConsoleNextInv, RxInit, <1>1, <1>2, PTL DEF ConsoleSpec, RxIsChannel, RxChannel!Spec
================================================================================
