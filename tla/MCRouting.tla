----------------------------- MODULE MCRouting -----------------------------
(***************************************************************************)
(* Small instances of Routing for TLC: two account ids of one person, over *)
(* one app (MCAppOf) or one for each of two apps (MCTwoAppOf).             *)
(***************************************************************************)
EXTENDS Routing, TLC

CONSTANTS a1, a2, p1, p2

MCAppOf == a1 :> p1 @@ a2 :> p1
MCTwoAppOf == a1 :> p1 @@ a2 :> p2
MCUserOf == a1 :> "ada" @@ a2 :> "ada"
ProcSymmetry == Permutations(Proc)
=============================================================================
