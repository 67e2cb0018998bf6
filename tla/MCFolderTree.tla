---------------------------- MODULE MCFolderTree ----------------------------
(***************************************************************************)
(* FolderTree for TLC.                                                     *)
(***************************************************************************)
EXTENDS FolderTree, TLC

\* Folders are alike, and so are names and requests.
FolderSymmetry == Permutations(Folders) \cup Permutations(Names) \cup Permutations(Requests)

============================================================================
