-------------------------- MODULE MCDistribution --------------------------
(* The values that TLC gives the constants of Distribution. *)
EXTENDS Distribution, TLC

Symmetry == Permutations(Nodes)
=============================================================================
