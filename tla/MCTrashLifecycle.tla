-------------------------- MODULE MCTrashLifecycle --------------------------
(* Instances of TrashLifecycle for TLC; where every node is registered, no  *)
(* property tells nodes apart.                                              *)
EXTENDS TrashLifecycle, TLC

NodeSymmetry == Permutations(Nodes)
=============================================================================
