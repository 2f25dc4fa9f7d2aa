----------------------------- MODULE MCThreads -----------------------------
(* Instances of Threads for TLC. *)
EXTENDS Threads

\* The task_structs other than the boot threads' are interchangeable.
Interchangeable == Permutations(Tasks \ {Idle, Shell})
=============================================================================
