--------------------------- MODULE MCSearchCache ---------------------------
(* The values that TLC gives the constants of SearchCache. *)
EXTENDS SearchCache, TLC

Symmetry == Permutations(Handlers) \cup Permutations(Ids)
=============================================================================
