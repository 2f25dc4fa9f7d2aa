----------------------------- MODULE TimerQueue -----------------------------
(***************************************************************************)
(* The software timers (src/kernel/src/timer.c): a list of events by       *)
(* expiry over one compare register, whose interrupt runs what has expired *)
(* and re-arms it.  Callbacks that print may open a window in which        *)
(* interrupts are enabled (uart_putc on a full ring), so the handler may   *)
(* be entered again in the middle of its loop.                             *)
(*                                                                         *)
(* A time is kept as what is left until it is reached, 0 from then on: an  *)
(* event added later never expires before one that has expired, so the     *)
(* order of the list does not depend on how long ago that was.             *)
(***************************************************************************)
EXTENDS Integers, SequencesExt

CONSTANTS
    Slice,      \* the preemption period (SYS_CLOCK_FREQ / 32)
    Delays,     \* the delays other events are added with
    Never,      \* the compare register's largest value
    Unlucky,    \* the events ("preempt", "other") for which kmalloc may fail
    MaxTimers,  \* bound: events in the list
    Handlers    \* bound: activations of the handler at a time

ASSUME TimersAssumption ==
    /\ Slice \in Nat \ {0} /\ Delays \subseteq Nat /\ Never \notin Nat
    /\ Unlucky \subseteq {"preempt", "other"} /\ MaxTimers \in Nat \ {0} /\ 0 \notin Handlers

VARIABLES
    timers,         \* the list from timer_head: time left, callback, and a number
                    \* that tells events apart
    stimecmp,       \* time left until the timer interrupt is pending
    need_resched,
    handler,        \* per activation: "none", "loop", or "window"
    preempted,      \* per activation: it has run preempt_callback
    inside          \* the activation that runs with interrupts disabled, or 0

timerVars == <<timers, stimecmp, need_resched, handler, preempted, inside>>

\* A number no event in the list has.
FreshTimerId == CHOOSE n \in 1..(MaxTimers + 1) : \A i \in DOMAIN timers : timers[i].id # n

Event(callback, ticks) == [left |-> ticks, callback |-> callback, id |-> FreshTimerId]

\* Mutant: every event becomes the head.
Inserted_Front(list, e) == <<e>> \o list

\* The list with e behind every event that does not expire later.
Inserted(list, e) ==
    InsertAt(list, Cardinality({i \in DOMAIN list : list[i].left <= e.left}) + 1, e)

\* Mutant: the register is left alone when the new event is the earliest.
ArmedAfter_Not(list, e) == stimecmp

\* add_timer_ticks sets the register only for a new head.
ArmedAfter(list, e) ==
    IF list = <<>> \/ e.left < Head(list).left THEN e.left ELSE stimecmp

\* add_timer_ticks, on the list that is left when it is called.
add_timer_ticks(list, callback, ticks) ==
    LET e == Event(callback, ticks) IN
    \/ timers' = Inserted(list, e) /\ stimecmp' = ArmedAfter(list, e)
    \/ callback \in Unlucky /\ timers' = list /\ UNCHANGED stimecmp

\* core_timer_enable adds the first preemption event.
TimerInit ==
    /\ timers = <<[left |-> Slice, callback |-> "preempt", id |-> 1]>>
    /\ stimecmp = Slice
    /\ need_resched = FALSE
    /\ handler = [a \in Handlers |-> "none"]
    /\ preempted = [a \in Handlers |-> FALSE]
    /\ inside = 0

\* setTimeout and usleep.
add_timer(ticks) ==
    /\ inside = 0 /\ Len(timers) < MaxTimers
    /\ add_timer_ticks(timers, "other", ticks)
    /\ UNCHANGED <<need_resched, handler, preempted, inside>>

Less(n) == IF n = 0 THEN 0 ELSE n - 1

\* Time passes.  What the handler does without opening a window takes less
\* than the unit.
Tick ==
    /\ inside = 0
    /\ timers' = [i \in DOMAIN timers |-> [timers[i] EXCEPT !.left = Less(@)]]
    /\ stimecmp' = IF stimecmp = Never THEN Never ELSE Less(stimecmp)
    /\ UNCHANGED <<need_resched, handler, preempted, inside>>

-----------------------------------------------------------------------------
\* The timer interrupt.
core_timer_handler(a) ==
    /\ inside = 0 /\ handler[a] = "none" /\ stimecmp = 0
    /\ need_resched' = FALSE
    /\ handler' = [handler EXCEPT ![a] = "loop"] /\ inside' = a
    /\ preempted' = [preempted EXCEPT ![a] = FALSE]
    /\ UNCHANGED <<timers, stimecmp>>

Expired == timers # <<>> /\ Head(timers).left = 0

\* The head has expired, and is the preemption event, which adds itself again.
preempt_callback(a) ==
    /\ inside = a /\ Expired /\ Head(timers).callback = "preempt"
    /\ add_timer_ticks(Tail(timers), "preempt", Slice)
    /\ need_resched' = TRUE
    /\ preempted' = [preempted EXCEPT ![a] = TRUE]
    /\ UNCHANGED <<handler, inside>>

\* The head has expired, and its callback may open a window.
other_callback(a) ==
    /\ inside = a /\ Expired /\ Head(timers).callback = "other"
    /\ timers' = Tail(timers)
    /\ \/ UNCHANGED <<handler, inside>>
       \/ handler' = [handler EXCEPT ![a] = "window"] /\ inside' = 0
    /\ UNCHANGED <<stimecmp, need_resched, preempted>>

\* The window closes.
resume(a) ==
    /\ inside = 0 /\ handler[a] = "window"
    /\ handler' = [handler EXCEPT ![a] = "loop"] /\ inside' = a
    /\ UNCHANGED <<timers, stimecmp, need_resched, preempted>>

\* Mutant: the register is switched off whatever is left.
Rearmed_Never == Never

Rearmed == IF timers = <<>> THEN Never ELSE Head(timers).left

\* The loop ends; with need_resched the handler ends in schedule(), after
\* which it touches no timer.
finish(a) ==
    /\ inside = a /\ ~Expired
    /\ stimecmp' = Rearmed
    /\ handler' = [handler EXCEPT ![a] = "none"] /\ inside' = 0
    /\ UNCHANGED <<timers, need_resched, preempted>>

Handle(a) == core_timer_handler(a) \/ preempt_callback(a) \/ other_callback(a)
             \/ resume(a) \/ finish(a)

TimerNext ==
    \/ \E ticks \in Delays : add_timer(ticks)
    \/ Tick
    \/ \E a \in Handlers : Handle(a)

TimerSpec == TimerInit /\ [][TimerNext]_timerVars

\* Time passes, and interrupts and the code they interrupt are carried through.
TimerFairness == SF_timerVars(Tick) /\ \A a \in Handlers : SF_timerVars(Handle(a))

TimerFairSpec == TimerSpec /\ TimerFairness

-----------------------------------------------------------------------------
(* Properties *)

\* The types of the variables.
TimerTypeOK ==
    /\ timers \in Seq([left : Nat, callback : {"preempt", "other"}, id : 1..(MaxTimers + 1)])
    /\ stimecmp \in Nat \cup {Never} /\ need_resched \in BOOLEAN
    /\ handler \in [Handlers -> {"none", "loop", "window"}]
    /\ preempted \in [Handlers -> BOOLEAN] /\ inside \in Handlers \cup {0}

\* The handler, which looks at the head only, finds everything that has expired.
TimersAreSorted ==
    /\ TimerTypeOK
    /\ \A i, j \in DOMAIN timers : i < j => timers[i].left <= timers[j].left

\* No event is slept through, nested handlers included: the register never
\* stands behind the head.
RegisterCoversHead ==
    timers # <<>> => stimecmp # Never /\ stimecmp <= Head(timers).left

\* Every event's callback is called.
EventsFire == \A n \in 1..MaxTimers :
    (\E i \in DOMAIN timers : timers[i].id = n) ~> ~\E i \in DOMAIN timers : timers[i].id = n

\* "Re-register for the next 1/32 second": slices go on ending.
SlicesEnd == []<><<\E a \in Handlers : preempt_callback(a)>>_timerVars

\* "Give up CPU": a handler that has run preempt_callback ends in schedule().
SliceEndsInSchedule == [][\A a \in Handlers : finish(a) /\ preempted[a] => need_resched]_timerVars
=============================================================================
