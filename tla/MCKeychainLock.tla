--------------------------- MODULE MCKeychainLock ---------------------------
(***************************************************************************)
(* Small instances of KeychainLock for TLC.                                *)
(***************************************************************************)
EXTENDS KeychainLock, TLC

TaskSymmetry == Permutations(Task)
=============================================================================
