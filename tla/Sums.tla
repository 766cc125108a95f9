-------------------------------- MODULE Sums --------------------------------
(***************************************************************************)
(* Sums over sets, as the sizes of sets: a bundle holds g[t] numbered      *)
(* units for every t of S.  The properties that account for units, time or *)
(* bandwidth are stated with it, because the size of a set can be proved   *)
(* about without an induction over the set.                                *)
(***************************************************************************)
EXTENDS Integers, FiniteSets

Bundle(S, g) == UNION {{t} \X (1 .. g[t]) : t \in S}
SumOf(g, S) == Cardinality(Bundle(S, g))
=============================================================================
