------------------------------- MODULE MCSem -------------------------------
(* Model checking of Sem: three tasks, one or two semaphores.              *)
EXTENDS Sem, TLC

Symmetric == Permutations(Tasks)
=============================================================================
