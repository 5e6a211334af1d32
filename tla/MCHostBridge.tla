---------------------------- MODULE MCHostBridge ----------------------------
(***************************************************************************)
(* HostBridge for TLC: its configurations give the bounds.                 *)
(***************************************************************************)
EXTENDS HostBridge
=============================================================================
