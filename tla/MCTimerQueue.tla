---------------------------- MODULE MCTimerQueue ----------------------------
(* One loop with two timers, on a clock of a few ticks.            *)
EXTENDS TimerQueue
=============================================================================
