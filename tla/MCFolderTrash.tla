--------------------------- MODULE MCFolderTrash ---------------------------
(* The instances of FolderTrash that TLC checks. *)
EXTENDS FolderTrash, TLC

Symmetry == Permutations(Handlers) \cup Permutations(Folders) \cup Permutations(Files)
=============================================================================
