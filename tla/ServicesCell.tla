---------------------------- MODULE ServicesCell ----------------------------
(***************************************************************************)
(* What the services of the desktop promise to whoever creates Apps: they  *)
(* are one cell that is replaced in an instant, and only while nobody has  *)
(* any use for what is in it.  DesktopServices implements it with two      *)
(* counters and a flag, which are read one after the other.                *)
(***************************************************************************)
EXTENDS Naturals

CONSTANTS
  Thread, \* those who work with the services
  Flow    \* the creations a user can be told of

VARIABLES
  generation, \* of the services
  given,      \* the flows the user was told of and that are not over
  working     \* who is at work with these services: begins a flow, or imports its App

vars == <<generation, given, working>>

Init == generation = 1 /\ given = {} /\ working = {}

Begin(t) ==
  /\ t \notin working
  /\ working' = working \cup {t}
  /\ UNCHANGED <<generation, given>>

\* A beginning ends with a flow or without one, an import without.
End(t) ==
  /\ t \in working
  /\ working' = working \ {t}
  /\ given' = given \/ \E f \in Flow \ given : given' = given \cup {f}
  /\ UNCHANGED generation

\* A flow is over: its App is imported, or what is left of it is tidied up.
Take(t, f) ==
  /\ f \in given /\ t \notin working
  /\ given' = given \ {f}
  /\ working' = working \cup {t}
  /\ UNCHANGED generation

Replace ==
  /\ given = {} /\ working = {}
  /\ generation' = generation + 1
  /\ UNCHANGED <<given, working>>

Next ==
  \/ \E t \in Thread : Begin(t) \/ End(t) \/ \E f \in Flow : Take(t, f)
  \/ Replace

Spec == Init /\ [][Next]_vars
=============================================================================
