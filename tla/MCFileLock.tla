----------------------------- MODULE MCFileLock -----------------------------
(***************************************************************************)
(* Small instances of FileLock.                                            *)
(***************************************************************************)
EXTENDS FileLock, TLC

Symmetry == Permutations(Writers)
=============================================================================
