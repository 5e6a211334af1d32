----------------------------- MODULE MCBackups -----------------------------
(* A small instance of Backups for TLC. *)
EXTENDS Backups, TLC

ProcSymmetry == Permutations(Proc)
=============================================================================
