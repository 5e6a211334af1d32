---------------------------- MODULE KeychainLock ----------------------------
(***************************************************************************)
(* The reader/writer lock on the keychain that all accounts share, and the *)
(* official CLI processes that run under it (lpc-core/src/locking.rs and   *)
(* cli.rs, lpc-shim/src/main.rs).                                          *)
(*                                                                         *)
(* A task is one use of the lock: it takes the lock, starts an official    *)
(* CLI and keeps the lock until that has exited.  Who waits for the exit   *)
(* depends on its kind:                                                    *)
(*   shim      a user's command; the shim waits for as long as it takes    *)
(*   capture   a bounded CLI call; the caller waits, and may kill it       *)
(*   verify    the same, for an identity in another directory: exclusive   *)
(*   login     a login; looked at whenever the user's window polls it      *)
(*   creation  an App creation; polled too, but a thread watches the       *)
(*             process and keeps the lock                                  *)
(*                                                                         *)
(* The lock is a lock of the operating system, which drops it with the     *)
(* process that holds it.  The CLI lives on then.                          *)
(*                                                                         *)
(* A lark-cli call that a user's command makes in its turn takes no lock   *)
(* while it finds the official CLI and the shim above it among its         *)
(* ancestors (nested_shim.rs): it runs under theirs.  Otherwise it is a    *)
(* task like any other.                                                    *)
(***************************************************************************)
CONSTANTS Task

VARIABLES
  at,    \* where a task is; "left" if its process is gone and its CLI is not
  kind,  \* its kind
  held,  \* the lock it holds
  cli,   \* its official CLI: not there, running, or exited and not reaped
  nested \* the official CLI of a call that its CLI has made in its turn: not
         \* there, under the two, or loose when one of the two is gone

lockVars == <<at, kind, held, cli, nested>>

Kinds == {"shim", "capture", "verify", "login", "creation"}

LockTypeOK ==
  /\ at \in [Task -> {"idle", "wait", "spawn", "run", "left"}]
  /\ kind \in [Task -> Kinds]
  /\ held \in [Task -> {"no", "shared", "exclusive"}]
  /\ cli \in [Task -> {"none", "running", "exited"}]
  /\ nested \in [Task -> {"none", "under", "loose"}]

LockInit ==
  /\ at = [t \in Task |-> "idle"]
  /\ kind \in [Task -> Kinds]
  /\ held = [t \in Task |-> "no"]
  /\ cli = [t \in Task |-> "none"]
  /\ nested = [t \in Task |-> "none"]

-----------------------------------------------------------------------------
Mode(t) == IF kind[t] = "verify" THEN "exclusive" ELSE "shared"

\* Mutant of Free: those who share the lock are not looked at.
FreeOfWriters(t) == \A u \in Task \ {t} : held[u] # "exclusive"

\* The lock can be had at this instant.
Free(t) ==
  \A u \in Task \ {t} :
    held[u] = "no" \/ (held[u] = "shared" /\ Mode(t) = "shared")

Go(t, step) == at' = [at EXCEPT ![t] = step]
Release(t) == held' = [held EXCEPT ![t] = "no"]
Running(t) == at[t] = "run" /\ cli[t] = "running"

\* The shim or its CLI is gone, and with it what a nested call ran under.
Loosen(t) == nested' = [nested EXCEPT ![t] = IF @ = "under" THEN "loose" ELSE @]

\* The task is over: its guard is dropped.
End(t) ==
  /\ Go(t, "idle")
  /\ Release(t)
  /\ cli' = [cli EXCEPT ![t] = "none"]
  /\ UNCHANGED <<kind, nested>>

Begin(t, k) ==
  /\ at[t] = "idle"
  /\ Go(t, "wait")
  /\ kind' = [kind EXCEPT ![t] = k]
  /\ UNCHANGED <<held, cli, nested>>

\* The lock is polled for ...
Acquire(t) ==
  /\ at[t] = "wait" /\ Free(t)
  /\ held' = [held EXCEPT ![t] = Mode(t)]
  /\ Go(t, "spawn")
  /\ UNCHANGED <<kind, cli, nested>>

\* ... for 5 s (30 s exclusively, 180 s in the shim).
Busy(t) ==
  /\ at[t] = "wait" /\ ~Free(t)
  /\ End(t)

Spawn(t) ==
  /\ at[t] = "spawn"
  /\ \/ Go(t, "run") /\ cli' = [cli EXCEPT ![t] = "running"]
        /\ UNCHANGED <<kind, held, nested>>
     \/ End(t)

\* Mutant of Nest: what the environment says of the shim is enough.
NestByEnvironment(t) ==
  /\ cli[t] = "running" /\ kind[t] = "shim" /\ nested[t] = "none"
  /\ nested' = [nested EXCEPT ![t] = "under"]
  /\ UNCHANGED <<at, kind, held, cli>>

\* A user's command runs lark-cli again, which finds both the CLI and the shim that
\* has started it among its ancestors (official_below_owner).
Nest(t) ==
  /\ Running(t) /\ kind[t] = "shim" /\ nested[t] = "none"
  /\ nested' = [nested EXCEPT ![t] = "under"]
  /\ UNCHANGED <<at, kind, held, cli>>

NestedExit(t) ==
  /\ nested[t] # "none"
  /\ nested' = [nested EXCEPT ![t] = "none"]
  /\ UNCHANGED <<at, kind, held, cli>>

\* The CLI exits, whether or not it has waited for the calls it made.  Nobody waits
\* for one that is left alone.
Exit(t) ==
  /\ cli[t] = "running"
  /\ IF at[t] = "left"
       THEN Go(t, "idle") /\ cli' = [cli EXCEPT ![t] = "none"]
       ELSE cli' = [cli EXCEPT ![t] = "exited"] /\ UNCHANGED at
  /\ Loosen(t)
  /\ UNCHANGED <<kind, held>>

\* The exit is seen: by the caller, or by the next poll of a login.
Reap(t) ==
  /\ at[t] = "run" /\ cli[t] = "exited" /\ kind[t] # "creation"
  /\ End(t)

\* A bounded call is killed after its timeout, a login when it is cancelled.
KillAndReap(t) ==
  /\ at[t] = "run" /\ cli[t] = "running" /\ kind[t] \in {"capture", "verify", "login"}
  /\ End(t)

\* An App creation is polled after its exit, or cancelled.
ReapCreation(t) ==
  /\ at[t] = "run" /\ cli[t] # "none" /\ kind[t] = "creation"
  /\ cli' = [cli EXCEPT ![t] = "none"]
  /\ UNCHANGED <<at, kind, held, nested>>

\* Mutant of WatchCreation: the watcher does not wait.
WatchCreationNot(t) ==
  /\ at[t] = "run" /\ kind[t] = "creation"
  /\ Release(t)
  /\ UNCHANGED <<at, kind, cli, nested>>

\* Its watcher no longer finds the process.  (Whether it still finds one that
\* has exited and was not reaped depends on the system.)
WatchCreation(t) ==
  /\ at[t] = "run" /\ cli[t] # "running" /\ kind[t] = "creation"
  /\ End(t)

\* The secret cannot be written to the CLI: the call returns, the lock with it,
\* and neither kills the CLI nor waits for it.
SecretNotWritten(t) ==
  /\ at[t] = "run" /\ cli[t] = "running" /\ kind[t] = "capture"
  /\ Release(t)
  /\ Go(t, "left")
  /\ UNCHANGED <<kind, cli, nested>>

\* The process of the task dies.
Crash(t) ==
  /\ at[t] \in {"wait", "spawn", "run"}
  /\ Release(t)
  /\ IF cli[t] = "running"
       THEN Go(t, "left") /\ UNCHANGED cli
       ELSE Go(t, "idle") /\ cli' = [cli EXCEPT ![t] = "none"]
  /\ Loosen(t)
  /\ UNCHANGED kind

LockNext ==
  \E t \in Task :
    \/ \E k \in Kinds : Begin(t, k)
    \/ Acquire(t) \/ Busy(t) \/ Spawn(t) \/ Exit(t)
    \/ Reap(t) \/ KillAndReap(t) \/ ReapCreation(t) \/ WatchCreation(t)
    \/ SecretNotWritten(t) \/ Crash(t)
    \/ Nest(t) \/ NestedExit(t)

LockSpec == LockInit /\ [][LockNext]_lockVars

-----------------------------------------------------------------------------
(* Properties. *)

\* "All managed lark-cli child processes hold it for their lifetime"
\* (locking.rs), as far as it is true: while the process that has started a CLI
\* lives and has not given it up, the CLI has its lock, whoever waits for it; and
\* a task that is over has none.  And "the outer shim holds the keychain lock until
\* those children exit" (nested_shim.rs): it does for a nested call whose shim and
\* CLI are there; not for one that outlives them, however it came to be there.
HeldForLifetime ==
  \A t \in Task :
    /\ Running(t) => held[t] = Mode(t)
    /\ nested[t] = "under" => held[t] = "shared"
    /\ at[t] \in {"idle", "wait", "left"} => held[t] = "no"

\* While the verification of an identity runs in a directory that is not the
\* account's, no other official CLI does, but for those whose process is gone: not
\* even one that has taken no lock because it is nested.
ExclusiveAlone ==
  \A t, u \in Task :
    t # u /\ kind[t] = "verify" /\ Running(t) => ~Running(u) /\ nested[u] # "under"

-----------------------------------------------------------------------------
(* The inductive invariant. *)

\* The locks that are held go together (the operating system's part).
Compatible ==
  \A t, u \in Task :
    t # u /\ held[t] = "exclusive" => held[u] = "no"

\* A task takes its lock before it starts its CLI, in its own mode.
LockFirst ==
  \A t \in Task :
    /\ at[t] \in {"spawn", "run"} => held[t] = Mode(t)
    /\ at[t] \in {"idle", "wait", "left"} => held[t] = "no"
    /\ at[t] \in {"idle", "wait", "spawn"} => cli[t] = "none"

\* A nested call that is not loose runs under a shim and its CLI.
NestedUnder ==
  \A t \in Task : nested[t] = "under" => Running(t) /\ kind[t] = "shim"

LockInv == LockTypeOK /\ Compatible /\ LockFirst /\ NestedUnder
=============================================================================
