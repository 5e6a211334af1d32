----------------------------- MODULE MCRuntimes -----------------------------
(***************************************************************************)
(* Small instances of Runtimes for TLC.                                    *)
(***************************************************************************)
EXTENDS Runtimes, TLC

ProcSymmetry == Permutations(Proc)
=============================================================================
