------------------------------- MODULE MCCbs -------------------------------
(* Model checking of Sched with servers: a hard periodic task that shares the *)
(* whole processor with a soft periodic and a soft aperiodic task.           *)
EXTENDS Sched, TLC

CONSTANTS hard, soft, aper, main, dummy

MCPeriod == hard :> 4 @@ soft :> 2 @@ aper :> 6
MCDeadline == hard :> 3
MCOffset == hard :> 0
MCCost == hard :> 1 @@ soft :> 1 @@ aper :> 1
MCSlice == main :> 1
=============================================================================
