---------------------------- MODULE MCFirstStart ----------------------------
(***************************************************************************)
(* FirstStart for TLC by itself: its configuration gives the bounds.       *)
(***************************************************************************)
EXTENDS FirstStart
=============================================================================
