----------------------------- MODULE MCTaskLife -----------------------------
(* Model checking of TaskLife.                                             *)
EXTENDS TaskLife, TLC

Symmetric == Permutations(Pids)
=============================================================================
