------------------------------ MODULE MCSched ------------------------------
(* Model checking of Sched: a periodic and a sporadic EDF task, two RR tasks. *)
EXTENDS Sched, TLC

CONSTANTS per, spo, main, rr2, dummy

MCPeriod == per :> 2 @@ spo :> 3
MCDeadline == per :> 2 @@ spo :> 2
MCOffset == per :> 1 @@ spo :> 0
MCCost == per :> 1 @@ spo :> 1
MCSlice == main :> 2 @@ rr2 :> 1
=============================================================================
