------------------------ MODULE MCDeletedItemsCleanup ------------------------
(* DeletedItemsCleanup for TLC. *)
EXTENDS DeletedItemsCleanup, TLC

\* Folders are alike.  For runs without liveness.
FolderSymmetry == Permutations(Folders)

============================================================================
