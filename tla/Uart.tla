-------------------------------- MODULE Uart --------------------------------
(***************************************************************************)
(* The console driver (src/kernel/src/uart.c): two rings between threads   *)
(* and the interrupt handler.  There is one hart: code that runs with      *)
(* interrupts disabled is not interleaved with anything, so `holder` names *)
(* the writer inside a critical section that goes on over several steps.   *)
(* Every other step is a whole critical section, a test outside of one, or *)
(* a step of the device.                                                   *)
(***************************************************************************)
EXTENDS Integers, SequencesExt

CONSTANTS
    Writers, Readers, \* threads inside uart_puts/uart_putc, uart_getc_raw
    TX_SIZE, RX_SIZE, \* the slots of the rings (256 each in the code)
    Strings,          \* what is written: sequences of bytes
    Inputs,           \* the bytes that may arrive
    CR, NL, None,
    MaxOffered        \* bound: a call starts only if the bytes waiting to be sent stay below

ASSUME ConsoleAssumption ==
    /\ TX_SIZE \in Nat \ {0, 1} /\ RX_SIZE \in Nat \ {0, 1}
    /\ MaxOffered \in Nat /\ None \notin Writers
    /\ \A s \in Strings : s \in Seq(Range(s)) /\ s # <<>>

VARIABLES
    rx_buf, rx_head, rx_tail,
    tx_buf, tx_head, tx_tail,
    async_tx_enabled,
    ier_tx,     \* bit 1 of the interrupt enable register
    lsr_dr, rbr,   \* a received byte is ready, and which
    lsr_tdrq, thr, \* the transmitter takes a byte, and the last it was given
    holder,     \* the writer that has interrupts disabled, or None
    todo,       \* per writer: the bytes it still has to put
    whole,      \* per writer: it is in uart_puts, which disables interrupts throughout
    wpc,        \* per writer: "out", "put", or "full" (waiting in uart_putc)
    next_head,  \* per writer: uart_putc's local variable
    rpc,        \* per reader: "out", "wait", or "ready" (has seen data)
    got         \* per reader: the byte uart_getc_raw returned

rx_vars == <<rx_buf, rx_head, rx_tail>>
tx_vars == <<tx_buf, tx_head, tx_tail>>
device == <<lsr_dr, rbr, lsr_tdrq, thr>>
writers == <<holder, todo, whole, wpc, next_head>>
readers == <<rpc, got>>
consoleVars == <<rx_vars, tx_vars, async_tx_enabled, ier_tx, device, writers, readers>>

Tx == 0..(TX_SIZE - 1)
Rx == 0..(RX_SIZE - 1)

\* The bytes of a ring, oldest first.
Contents(buf, head, tail, size) ==
    [i \in 1..((head - tail) % size) |-> buf[(tail + i - 1) % size]]

tx_queue == Contents(tx_buf, tx_head, tx_tail, TX_SIZE)
rx_queue == Contents(rx_buf, rx_head, rx_tail, RX_SIZE)

\* uart_putc puts a carriage return before a line feed.
Expanded(s) == FlattenSeq([i \in DOMAIN s |-> IF s[i] = NL THEN <<CR, NL>> ELSE <<s[i]>>])

-----------------------------------------------------------------------------
ConsoleInit ==
    /\ rx_buf = [i \in Rx |-> None] /\ rx_head = 0 /\ rx_tail = 0
    /\ tx_buf = [i \in Tx |-> None] /\ tx_head = 0 /\ tx_tail = 0
    /\ async_tx_enabled = FALSE /\ ier_tx = FALSE
    /\ lsr_dr = FALSE /\ rbr = None /\ lsr_tdrq = TRUE /\ thr = None
    /\ holder = None
    /\ todo = [t \in Writers |-> <<>>] /\ whole = [t \in Writers |-> FALSE]
    /\ wpc = [t \in Writers |-> "out"] /\ next_head = [t \in Writers |-> 0]
    /\ rpc = [t \in Readers |-> "out"] /\ got = [t \in Readers |-> None]

MayRun(t) == holder \in {None, t}

\* Before uart_intr_enable only the boot code writes, and nothing preempts it.
Undisturbed == holder = None /\ (~async_tx_enabled => \A t \in Writers : wpc[t] = "out")

Waiting == Len(tx_queue) + FoldSet(LAMBDA t, n : n + Len(todo[t]), 0, Writers)

\* uart_puts (and uart_hex, uart_dec): the string in one critical section.
uart_puts(t, s) ==
    /\ Undisturbed /\ wpc[t] = "out"
    /\ Waiting + Len(Expanded(s)) <= MaxOffered
    /\ holder' = t
    /\ todo' = [todo EXCEPT ![t] = Expanded(s)]
    /\ whole' = [whole EXCEPT ![t] = TRUE]
    /\ wpc' = [wpc EXCEPT ![t] = "put"]
    /\ UNCHANGED <<rx_vars, tx_vars, async_tx_enabled, ier_tx, device, next_head, readers>>

\* The loop of SYS_uart_write, and the shell's uart_putc: each byte in a
\* critical section of its own.
uart_write(t, s) ==
    /\ Undisturbed /\ wpc[t] = "out" /\ async_tx_enabled
    /\ Waiting + Len(Expanded(s)) <= MaxOffered
    /\ todo' = [todo EXCEPT ![t] = Expanded(s)]
    /\ whole' = [whole EXCEPT ![t] = FALSE]
    /\ wpc' = [wpc EXCEPT ![t] = "put"]
    /\ UNCHANGED <<rx_vars, tx_vars, async_tx_enabled, ier_tx, device, holder, next_head, readers>>

\* One byte of the string is through.
Advance(t) ==
    LET rest == Tail(todo[t]) IN
    /\ todo' = [todo EXCEPT ![t] = rest]
    /\ wpc' = [wpc EXCEPT ![t] = IF rest = <<>> THEN "out" ELSE "put"]
    /\ holder' = IF whole[t] /\ rest # <<>> THEN t ELSE None

\* uart_putc while the driver polls.
poll(t) ==
    /\ ~async_tx_enabled /\ MayRun(t) /\ wpc[t] = "put"
    /\ lsr_tdrq
    /\ thr' = Head(todo[t]) /\ lsr_tdrq' = FALSE
    /\ Advance(t)
    /\ UNCHANGED <<rx_vars, tx_vars, async_tx_enabled, ier_tx, lsr_dr, rbr, whole, next_head, readers>>

\* Mutant: the transmit interrupt is not switched on.
Store_Silent(t, next) ==
    /\ tx_buf' = [tx_buf EXCEPT ![tx_head] = Head(todo[t])]
    /\ tx_head' = next
    /\ UNCHANGED ier_tx
    /\ Advance(t)
    /\ UNCHANGED <<rx_vars, tx_tail, async_tx_enabled, device, whole, readers>>

\* The end of uart_putc.
Store(t, next) ==
    /\ tx_buf' = [tx_buf EXCEPT ![tx_head] = Head(todo[t])]
    /\ tx_head' = next
    /\ ier_tx' = TRUE
    /\ Advance(t)
    /\ UNCHANGED <<rx_vars, tx_tail, async_tx_enabled, device, whole, readers>>

\* Mutant: the test misses the wrap.
Full_NoWrap(next) == next = tx_tail /\ next # 0

Full(next) == next = tx_tail

\* uart_putc up to its first test: the byte is stored, or the writer opens the
\* window in which it waits.
uart_putc(t) ==
    LET next == (tx_head + 1) % TX_SIZE IN
    /\ async_tx_enabled /\ MayRun(t) /\ wpc[t] = "put"
    /\ next_head' = [next_head EXCEPT ![t] = next]
    /\ IF Full(next)
       THEN /\ wpc' = [wpc EXCEPT ![t] = "full"] /\ holder' = None
            /\ UNCHANGED <<rx_vars, tx_vars, async_tx_enabled, ier_tx, device, todo, whole, readers>>
       ELSE Store(t, next)

\* The window closes and the test is made again, with the value of next_head
\* computed before.
uart_putc_wake(t) ==
    /\ holder = None /\ wpc[t] = "full"
    /\ ~Full(next_head[t])
    /\ Store(t, next_head[t])
    /\ UNCHANGED next_head

\* main: the interrupt-driven mode, and interrupts, are switched on.
uart_intr_enable ==
    /\ ~async_tx_enabled /\ Undisturbed
    /\ async_tx_enabled' = TRUE
    /\ UNCHANGED <<rx_vars, tx_vars, ier_tx, device, writers, readers>>

-----------------------------------------------------------------------------
\* Mutant: a byte that finds the ring full is stored over the oldest.
receive_Overrun ==
    IF lsr_dr
    THEN /\ lsr_dr' = FALSE /\ UNCHANGED <<rbr, rx_tail>>
         /\ rx_buf' = [rx_buf EXCEPT ![rx_head] = rbr]
         /\ rx_head' = (rx_head + 1) % RX_SIZE
    ELSE UNCHANGED <<lsr_dr, rbr, rx_vars>>

\* The handler's first half: a received byte, dropped if the ring is full.
receive ==
    IF lsr_dr
    THEN LET next == (rx_head + 1) % RX_SIZE IN
         /\ lsr_dr' = FALSE /\ UNCHANGED <<rbr, rx_tail>>
         /\ IF next # rx_tail
            THEN rx_buf' = [rx_buf EXCEPT ![rx_head] = rbr] /\ rx_head' = next
            ELSE UNCHANGED <<rx_buf, rx_head>>
    ELSE UNCHANGED <<lsr_dr, rbr, rx_vars>>

\* The second half: the next byte for the transmitter; without one the
\* transmit interrupt is switched off.
transmit ==
    IF lsr_tdrq
    THEN IF tx_head # tx_tail
         THEN /\ thr' = tx_buf[tx_tail] /\ lsr_tdrq' = FALSE
              /\ tx_tail' = (tx_tail + 1) % TX_SIZE
              /\ UNCHANGED ier_tx
         ELSE ier_tx' = FALSE /\ UNCHANGED <<lsr_tdrq, thr, tx_tail>>
    ELSE UNCHANGED <<lsr_tdrq, thr, tx_tail, ier_tx>>

uart_interrupt_handler ==
    /\ async_tx_enabled /\ holder = None
    /\ lsr_dr \/ (ier_tx /\ lsr_tdrq)
    /\ receive /\ transmit
    /\ UNCHANGED <<tx_buf, tx_head, async_tx_enabled, writers, readers>>

\* The device sends what it was given, and receives.
Sent ==
    /\ ~lsr_tdrq /\ lsr_tdrq' = TRUE
    /\ UNCHANGED <<rx_vars, tx_vars, async_tx_enabled, ier_tx, lsr_dr, rbr, thr, writers, readers>>

Arrives(c) ==
    /\ ~lsr_dr /\ lsr_dr' = TRUE /\ rbr' = c
    /\ UNCHANGED <<rx_vars, tx_vars, async_tx_enabled, ier_tx, lsr_tdrq, thr, writers, readers>>

-----------------------------------------------------------------------------
ReaderStep(t, from, to) ==
    /\ async_tx_enabled /\ holder = None /\ rpc[t] = from
    /\ rpc' = [rpc EXCEPT ![t] = to]
    /\ UNCHANGED <<rx_buf, rx_head, tx_vars, async_tx_enabled, ier_tx, device, writers>>

\* A thread calls uart_getc_raw.
uart_getc_raw(t) == ReaderStep(t, "out", "wait") /\ UNCHANGED <<rx_tail, got>>

\* Mutant: the ring is taken for empty once its head has wrapped.
uart_getc_data_Wrapped(t) ==
    ReaderStep(t, "wait", "ready") /\ rx_head > rx_tail /\ UNCHANGED <<rx_tail, got>>

\* The loop is left: interrupts are still enabled.
uart_getc_data(t) ==
    ReaderStep(t, "wait", "ready") /\ rx_head # rx_tail /\ UNCHANGED <<rx_tail, got>>

\* The critical section, which does not test again.
uart_getc_take(t) ==
    /\ ReaderStep(t, "ready", "out")
    /\ got' = [got EXCEPT ![t] = rx_buf[rx_tail]]
    /\ rx_tail' = (rx_tail + 1) % RX_SIZE

ConsoleNext ==
    \/ \E t \in Writers, s \in Strings : uart_puts(t, s) \/ uart_write(t, s)
    \/ \E t \in Writers : poll(t) \/ uart_putc(t) \/ uart_putc_wake(t)
    \/ uart_intr_enable \/ uart_interrupt_handler \/ Sent
    \/ \E c \in Inputs : Arrives(c)
    \/ \E t \in Readers : uart_getc_raw(t) \/ uart_getc_data(t) \/ uart_getc_take(t)

ConsoleSpec == ConsoleInit /\ [][ConsoleNext]_consoleVars

\* Threads that are in the kernel get the CPU again and again (the timer
\* preempts whoever has it), an interrupt is taken once it is enabled, and the
\* line keeps sending.
ConsoleFairness ==
    /\ \A t \in Writers : WF_consoleVars(poll(t)) /\ SF_consoleVars(uart_putc(t)) /\ SF_consoleVars(uart_putc_wake(t))
    /\ \A t \in Readers : SF_consoleVars(uart_getc_data(t)) /\ SF_consoleVars(uart_getc_take(t))
    /\ SF_consoleVars(uart_interrupt_handler) /\ WF_consoleVars(Sent)

ConsoleFairSpec == ConsoleSpec /\ ConsoleFairness

-----------------------------------------------------------------------------
(* Properties *)

\* The types of the variables.
ConsoleTypeOK ==
    /\ rx_head \in Rx /\ rx_tail \in Rx /\ tx_head \in Tx /\ tx_tail \in Tx
    /\ DOMAIN rx_buf = Rx /\ DOMAIN tx_buf = Tx
    /\ {async_tx_enabled, ier_tx, lsr_dr, lsr_tdrq} \subseteq BOOLEAN
    /\ holder \in Writers \cup {None}
    /\ DOMAIN todo = Writers /\ whole \in [Writers -> BOOLEAN]
    /\ wpc \in [Writers -> {"out", "put", "full"}] /\ next_head \in [Writers -> Tx]
    /\ rpc \in [Readers -> {"out", "wait", "ready"}] /\ DOMAIN got = Readers

\* No byte waits for an interrupt that is switched off: the handler switches
\* it off only when it finds the ring empty, and a writer switches it on after
\* it has made its byte visible.
QueuedBytesAreDriven ==
    /\ ConsoleTypeOK
    /\ tx_head # tx_tail => ier_tx /\ async_tx_enabled

line_got == [c \in {"line"} |-> thr]

TxChannel == INSTANCE ByteChannel WITH
    Producers <- Writers, Consumers <- {"line"}, Capacity <- TX_SIZE - 1, Lossy <- FALSE,
    queue <- tx_queue, offers <- todo, got <- line_got

line_offers == [p \in {"line"} |-> IF lsr_dr THEN <<rbr>> ELSE <<>>]

RxChannel == INSTANCE ByteChannel WITH
    Producers <- {"line"}, Consumers <- Readers, Capacity <- RX_SIZE - 1, Lossy <- TRUE,
    queue <- rx_queue, offers <- line_offers

\* Every byte a writer puts reaches the line once, in order, also over the
\* change from polling to interrupts; a full ring makes the writer wait.
TxIsChannel == TxChannel!Spec

\* Every byte received is returned by one uart_getc_raw, in order, or dropped
\* on arrival because RX_SIZE - 1 bytes are waiting.
RxIsChannel == RxChannel!Spec

\* A writer gets all its bytes into the ring, however full it is.
WritersReturn == \A t \in Writers : wpc[t] # "out" ~> wpc[t] = "out"

\* A reader does not sleep on data.
ReadersReturn == \A t \in Readers : rpc[t] = "wait" /\ rx_head # rx_tail ~> rpc[t] = "out"
=============================================================================
