---------------------------- MODULE MCRemoteLock ----------------------------
(***************************************************************************)
(* Small instances of RemoteLock.                                          *)
(***************************************************************************)
EXTENDS RemoteLock, TLC

Symmetry == Permutations(Writers \ Breakers)
=============================================================================
