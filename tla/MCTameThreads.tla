--------------------------- MODULE MCTameThreads ---------------------------
(* Instances of Threads in which the programs keep to the rules. *)
EXTENDS TameThreads

\* The task_structs other than the boot threads' are interchangeable.
Interchangeable == Permutations(Tasks \ {Idle, Shell})
=============================================================================
