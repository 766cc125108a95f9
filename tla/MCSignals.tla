----------------------------- MODULE MCSignals -----------------------------
(* Model checking of Signals: two tasks, a plain signal (1, the alarm) and a *)
(* queued one (2, that of the timers).                                       *)
EXTENDS Signals, TLC

CONSTANTS e1, e2, x1

MCActions == 1 :> {"handler", "ignore"} @@ 2 :> {"siginfo"}
MCFree == <<e1, e2>>
=============================================================================
