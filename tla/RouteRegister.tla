---------------------------- MODULE RouteRegister ----------------------------
(***************************************************************************)
(* What the routing layer promises, as if every operation on the shared    *)
(* files happened at one instant: a register that holds the accounts and   *)
(* the current route (active account, CLI, generation), and the commands   *)
(* that run under a route they read from it once.                          *)
(*                                                                         *)
(* docs/ARCHITECTURE.md calls this the routing linearization.  The module  *)
(* Routing, which spreads every operation over locks, files and crashes,   *)
(* is shown to implement it.                                               *)
(***************************************************************************)
EXTENDS Naturals

CONSTANTS Proc, Account, Cli, GenMax, None

VARIABLES
  accounts,  \* the accounts that exist
  active,    \* the account new commands run as
  cli,       \* the CLI new commands run
  gen,       \* the generation of the route
  running    \* per process: the route of the command it runs, or None

vars == <<accounts, active, cli, gen, running>>

Bump == gen' = IF gen < GenMax THEN gen + 1 ELSE GenMax

Init ==
  /\ accounts \subseteq Account
  /\ active \in accounts \cup {None}
  /\ cli \in Cli \cup {None}
  /\ gen \in 0..GenMax
  /\ running = [p \in Proc |-> None]

\* A new account; the first one becomes the route (unless the process that
\* registered it died before it got to that).
Add(a) ==
  /\ a \notin accounts
  /\ accounts' = accounts \cup {a}
  /\ \/ active = None /\ active' = a /\ Bump
     \/ UNCHANGED <<active, gen>>
  /\ UNCHANGED <<cli, running>>

\* An account goes while no command runs as it.  If it was the route, another
\* account takes over, unless the process that removed it died before that: the
\* route then names an account that is gone, and commands fail until a switch.
Remove(a) ==
  /\ a \in accounts
  /\ \A p \in Proc : running[p] # None => running[p].account # a
  /\ accounts' = accounts \ {a}
  /\ \/ /\ active = a
        /\ active' \in IF accounts' = {} THEN {None} ELSE accounts'
        /\ Bump
     \/ UNCHANGED <<active, gen>>
  /\ UNCHANGED <<cli, running>>

Switch(a) ==
  /\ a \in accounts
  /\ active' = a /\ Bump
  /\ UNCHANGED <<accounts, cli, running>>

Activate(c) ==
  /\ cli' = c /\ Bump
  /\ UNCHANGED <<accounts, active, running>>

\* A command starts as the active account, or as the one it asks for; whatever
\* it asks for, the register does not change.
Run(p, a) ==
  /\ running[p] = None
  /\ a \in accounts /\ cli # None
  /\ running' = [running EXCEPT ![p] = [account |-> a, cli |-> cli, gen |-> gen]]
  /\ UNCHANGED <<accounts, active, cli, gen>>

Stop(p) ==
  /\ running[p] # None
  /\ running' = [running EXCEPT ![p] = None]
  /\ UNCHANGED <<accounts, active, cli, gen>>

Next ==
  \/ \E a \in Account : Add(a) \/ Remove(a) \/ Switch(a)
  \/ \E c \in Cli : Activate(c)
  \/ \E p \in Proc : Stop(p) \/ \E a \in Account : Run(p, a)

Spec == Init /\ [][Next]_vars
=============================================================================
