--------------------------- MODULE MCHealthRounds ---------------------------
(* A small instance of HealthRounds for TLC. *)
EXTENDS HealthRounds
=============================================================================
