---------------------------- MODULE MCTimerQueue ----------------------------
(* Instances of TimerQueue for TLC. *)
EXTENDS TimerQueue
=============================================================================
