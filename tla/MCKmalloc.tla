----------------------------- MODULE MCKmalloc -----------------------------
(* An instance of Kmalloc for TLC: pages of four units with chunks of two. *)
EXTENDS Kmalloc

TwoPools == <<1, 2>>
=============================================================================
