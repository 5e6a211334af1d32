--------------------------- MODULE MCDesktopStart ---------------------------
(* A small instance of DesktopStart, with FirstStart, for TLC. *)
EXTENDS DesktopStart
=============================================================================
