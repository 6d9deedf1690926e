---------------------------- MODULE MCConflict ----------------------------
(***************************************************************************)
(* Small instances of Conflict for TLC.  Two folders let a session reach   *)
(* the next one, two files let the selection move; folders are             *)
(* interchangeable, files are not (their order matters).                   *)
(***************************************************************************)
EXTENDS Conflict, TLC

FolderSymmetry == Permutations(Folders)
=============================================================================
