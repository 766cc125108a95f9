------------------------------- MODULE MCCond -------------------------------
(* Model checking of Cond: three tasks, one condition, two mutexes.        *)
EXTENDS Cond, TLC

CONSTANTS t1, t2, t3, c1

MCCeiling == [m \in Mutexes |-> 1]
MCPriority == [x \in Tasks |-> 1]
Pairs == {<<"NOP", "PI">>}
NoNesting == {}
Symmetric == Permutations(Tasks)
=============================================================================
