------------------------------ MODULE MCMqueue ------------------------------
(* Model checking of Mqueue: two senders and two receivers, one queue. *)
EXTENDS Mqueue, TLC

CONSTANTS s1, s2, r1, r2, q0, n1

Symmetric == Permutations(Senders)

\* One receiver goes before the other.
MCPriority == [t \in Tasks |-> IF t = r1 THEN 1 ELSE 0]
=============================================================================
