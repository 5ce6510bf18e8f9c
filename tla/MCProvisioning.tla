--------------------------- MODULE MCProvisioning ---------------------------
(* The instances of Provisioning that TLC checks. *)
EXTENDS Provisioning, TLC

Symmetry == Permutations(Handlers) \cup Permutations(Requests) \cup Permutations(OTPs)
=============================================================================
