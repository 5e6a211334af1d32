------------------------- MODULE MCDesktopServices -------------------------
(***************************************************************************)
(* Small instances of DesktopServices for TLC.                             *)
(***************************************************************************)
EXTENDS DesktopServices, TLC

Symmetry == Permutations(Thread \ {Main}) \cup Permutations(Flow)
=============================================================================
