----------------------------- MODULE FirstStart -----------------------------
(***************************************************************************)
(* How a process opens the store (StateStore::initialize, lpc-core/src/    *)
(* store.rs) before it does its work.  Every process does so, whichever    *)
(* version of larkswitch it belongs to, so that the first start of one may *)
(* be the first start of all, or meet others at work.                      *)
(*                                                                         *)
(* A missing catalog.json is created empty, without the routing gate.      *)
(* Then, under the gate, the catalog is loaded and migrated.  The job that *)
(* follows registers an account, under the gate again, as in module        *)
(* Routing.                                                                *)
(***************************************************************************)
EXTENDS Naturals, FiniteSets

CONSTANTS
  Proc,    \* the processes, each with one account to register
  Release, \* the releases of larkswitch, as the CLI version they recommend
  None

ASSUME FirstStartAssumption ==
  /\ Release \subseteq Nat /\ Release # {}
  /\ None \notin Proc

Missing == [accounts |-> {}, hint |-> 0, exists |-> FALSE]
Default(r) == [accounts |-> {}, hint |-> r, exists |-> TRUE]

VARIABLES
  catalog, \* catalog.json: the accounts, recommended_cli_version; may not exist
  gate,    \* the process that holds the routing gate, or None
  pc,      \* where a process is
  copy,    \* its copy of the catalog
  release  \* the release it belongs to

vars == <<catalog, gate, pc, copy, release>>

Catalog == [accounts: SUBSET Proc, hint: {0} \cup Release, exists: BOOLEAN]
Steps == {"start", "create", "open", "load", "migrate", "ready", "read", "write", "off"}

TypeOK ==
  /\ catalog \in Catalog
  /\ gate \in Proc \cup {None}
  /\ pc \in [Proc -> Steps]
  /\ copy \in [Proc -> Catalog]
  /\ release \in [Proc -> Release]

Init ==
  /\ catalog \in {Missing} \cup {Default(r) : r \in Release}
  /\ gate = None
  /\ pc = [p \in Proc |-> "start"]
  /\ copy = [p \in Proc |-> Missing]
  /\ release \in [Proc -> Release]

Goto(p, step) == pc' = [pc EXCEPT ![p] = step]
Load(p) == copy' = [copy EXCEPT ![p] = catalog]

-----------------------------------------------------------------------------
\* Is there a catalog?
Exists(p) ==
  /\ pc[p] = "start"
  /\ Goto(p, IF catalog.exists THEN "open" ELSE "create")
  /\ UNCHANGED <<catalog, gate, copy, release>>

\* There was none.  The empty one is written over whatever is there by now.
Create(p) ==
  /\ pc[p] = "create"
  /\ catalog' = Default(release[p])
  /\ Goto(p, "open")
  /\ UNCHANGED <<gate, copy, release>>

\* Mutant of Take: the gate excludes nobody.
TakeShared(p) == gate' = p

Take(p) == gate = None /\ gate' = p

OpenGate(p) ==
  /\ pc[p] = "open" /\ Take(p)
  /\ Goto(p, "load")
  /\ UNCHANGED <<catalog, copy, release>>

\* The catalog is loaded again under the gate.
LoadLocked(p) ==
  /\ pc[p] = "load"
  /\ Load(p)
  /\ Goto(p, "migrate")
  /\ UNCHANGED <<catalog, gate, release>>

\* Mutant of Migrated: the hint becomes that of the release at hand.
MigratedAlways(p) == [copy[p] EXCEPT !.hint = release[p]]

\* The recommended version is only ever upgraded.
Migrated(p) ==
  [copy[p] EXCEPT !.hint = IF @ < release[p] THEN release[p] ELSE @]

\* It is saved if it changed, and the gate is dropped.
Migrate(p) ==
  /\ pc[p] = "migrate"
  /\ catalog' = IF Migrated(p) # copy[p] THEN Migrated(p) ELSE catalog
  /\ gate' = None
  /\ Goto(p, "ready")
  /\ UNCHANGED <<copy, release>>

-----------------------------------------------------------------------------
(* The job: register_new_account, without the parts module Routing details. *)

Begin(p) ==
  /\ pc[p] = "ready" /\ Take(p)
  /\ Goto(p, "read")
  /\ UNCHANGED <<catalog, copy, release>>

Read(p) ==
  /\ pc[p] = "read"
  /\ Load(p)
  /\ Goto(p, "write")
  /\ UNCHANGED <<catalog, gate, release>>

Write(p) ==
  /\ pc[p] = "write"
  /\ catalog' = [copy[p] EXCEPT !.accounts = @ \cup {p}]
  /\ gate' = None
  /\ Goto(p, "off")
  /\ UNCHANGED <<copy, release>>

\* The process dies, or its job is one that adds no account.
Stop(p) ==
  /\ pc[p] # "off"
  /\ gate' = IF gate = p THEN None ELSE gate
  /\ Goto(p, "off")
  /\ UNCHANGED <<catalog, copy, release>>

Next ==
  \E p \in Proc :
    \/ Exists(p) \/ Create(p)
    \/ OpenGate(p) \/ LoadLocked(p) \/ Migrate(p)
    \/ Begin(p) \/ Read(p) \/ Write(p)
    \/ Stop(p)

Spec == Init /\ [][Next]_vars

-----------------------------------------------------------------------------
(* Properties. *)

\* A process that has found no catalog writes the empty one.
Creation == \E p \in Proc : pc[p] = "create" /\ pc'[p] = "open"

\* "Every catalog mutation here happens inside the routing gate and reloads the
\* catalog after taking the lock" (store.rs): no process that starts loses an
\* account that another one has registered.
AccountsKept == [][ catalog.accounts \subseteq catalog'.accounts ]_catalog

\* Whatever starts beside whatever else, only the creation of the catalog can
\* lose accounts: neither the migration nor the jobs that follow do.
OnlyCreationLoses == [][ catalog.accounts \subseteq catalog'.accounts \/ Creation ]_vars

\* A process that has opened the store finds a catalog (not NotInitialized).
OpenedExists ==
  \A p \in Proc : pc[p] \notin {"start", "create", "off"} => catalog.exists

\* A creation has come between a process and the catalog it has loaded.
Overwritten == \E p \in Proc : pc[p] \in {"migrate", "write"} /\ copy[p] # catalog

\* "An older app version must not downgrade the hint a newer version wrote"
\* (store.rs): whichever releases start beside each other, no migration and no
\* job lowers it, creations aside.
HintRises ==
  [][ catalog.hint <= catalog'.hint \/ Creation \/ Overwritten ]_vars

-----------------------------------------------------------------------------
(* The inductive invariant. *)

\* The gate is with the process that is between taking it and dropping it.
Gated == {"load", "migrate", "read", "write"}
GateHeld == \A p \in Proc : pc[p] \in Gated <=> gate = p

\* A copy that is about to be written has every account that is in the file:
\* only a creation can have come in between, and leaves none.
CopiesComplete ==
  \A p \in Proc :
    pc[p] \in {"migrate", "write"} =>
      /\ copy[p].exists
      /\ catalog.accounts \subseteq copy[p].accounts

IInv == TypeOK /\ GateHeld /\ CopiesComplete /\ OpenedExists
=============================================================================
