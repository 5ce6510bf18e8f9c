------------------------------ MODULE MCPeers ------------------------------
(* The values that TLC gives the constants of Peers. *)
EXTENDS Peers, TLC

Symmetry == Permutations(Handlers)
=============================================================================
