---------------------------- MODULE ByteChannel ----------------------------
(***************************************************************************)
(* What the console driver promises of each direction: a bounded queue of  *)
(* bytes.  A producer offers bytes, which are queued in its order; a       *)
(* consumer gets the oldest byte.                                          *)
(***************************************************************************)
EXTENDS Naturals, Sequences

CONSTANTS
    Producers, Consumers,
    Capacity,   \* the most bytes that are queued
    Lossy       \* whether a byte offered while the queue is full is dropped

VARIABLES
    queue,      \* the bytes accepted and not delivered, oldest first
    offers,     \* per producer: the bytes it still has to get accepted
    got         \* per consumer: the byte it got last

Init == queue = <<>> /\ offers = [p \in Producers |-> <<>>]

\* A producer that is done comes with new bytes.
Offer(p) ==
    /\ offers[p] = <<>> /\ offers' = [offers EXCEPT ![p] = offers'[p]]
    /\ UNCHANGED <<queue, got>>

Accepted(p) == offers[p] # <<>> /\ offers' = [offers EXCEPT ![p] = Tail(@)]

Put(p) ==
    /\ Accepted(p) /\ Len(queue) < Capacity
    /\ queue' = Append(queue, Head(offers[p]))
    /\ UNCHANGED got

Drop(p) == Lossy /\ Accepted(p) /\ Len(queue) = Capacity /\ UNCHANGED <<queue, got>>

Get(c) ==
    /\ queue # <<>> /\ queue' = Tail(queue)
    /\ got' = [got EXCEPT ![c] = Head(queue)]
    /\ UNCHANGED offers

\* A byte that finds the queue empty may go straight to a consumer.
Pass(p, c) ==
    /\ Accepted(p) /\ queue = <<>>
    /\ got' = [got EXCEPT ![c] = Head(offers[p])]
    /\ UNCHANGED queue

Next ==
    \/ \E p \in Producers : Offer(p) \/ Put(p) \/ Drop(p) \/ \E c \in Consumers : Pass(p, c)
    \/ \E c \in Consumers : Get(c)

Spec == Init /\ [][Next]_<<queue, offers, got>>
=============================================================================
