-------------------------- MODULE MCDeferredTasks --------------------------
(* Instances of DeferredTasks for TLC: testTask with its own batch. *)
EXTENDS DeferredTasks

TestTask == <<1, 5, 3>>
=============================================================================
