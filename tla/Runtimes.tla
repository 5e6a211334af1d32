------------------------------ MODULE Runtimes ------------------------------
(***************************************************************************)
(* The official CLI binaries larkswitch manages (lpc-core/src/runtime.rs): *)
(* the directories under runtime/versions, and the pointer to the active   *)
(* one in active-state.json.                                               *)
(*                                                                         *)
(* Installing, rolling back and repairing are jobs of independent          *)
(* processes (lpcctl, the desktop, any process that initialises the store);*)
(* so is every command, which captures the active binary and runs it after *)
(* it has got the keychain lock.  Installations exclude each other with    *)
(* locks/runtime.lock; rollbacks and repairs take no such lock.  The       *)
(* pointer itself is read and written under the routing gate, so that each *)
(* of these accesses is one step here (module Routing).                    *)
(*                                                                         *)
(* A version stands for its directory, its binary and its path; versions   *)
(* are numbered in their order.                                            *)
(***************************************************************************)
EXTENDS Naturals, FiniteSets

CONSTANTS
  Proc,      \* the processes
  Version,   \* the versions on the allowlist
  Ops,       \* the kinds of job that processes start
  MaxStarts, \* bound: how many jobs a process runs in turn
  None

AllOps == {"install", "rollback", "repair", "exec"}

Job == [op: {"install"}, version: Version] \cup [op: {"rollback", "repair", "exec"}]

ASSUME RuntimesAssumption ==
  /\ Version \subseteq Nat \ {0}
  /\ \A V \in SUBSET Version : V # {} => \E v \in V : \A w \in V : w <= v
  /\ Ops \subseteq AllOps
  /\ MaxStarts \in Nat
  /\ None \notin Proc \cup Version
  /\ None \notin Job

VARIABLES
  active,   \* the managed CLI in active-state.json, or None
  versions, \* the directories under runtime/versions
  binaries, \* those of them that hold their executable
  lock,     \* the process that holds runtime.lock, or None
  undo,     \* what was active before the last installation, when that is complete
            \* and nothing was installed or activated since, or None
  pc,       \* where a process is in its job
  job,      \* its job, or None
  target,   \* the version it is to activate, or has captured, or None
  previous, \* the version it found active, or None
  starts    \* how many jobs it has run

memory == <<job, target, previous>>
vars == <<active, versions, binaries, lock, undo, pc, job, target, previous, starts>>

Steps == {"off", "lock", "read", "look", "fetch", "dir", "promote", "file", "activate",
          "prune", "exec"}

TypeOK ==
  /\ active \in Version \cup {None}
  /\ versions \subseteq Version
  /\ binaries \subseteq versions
  /\ lock \in Proc \cup {None}
  /\ undo \in Version \cup {None}
  /\ pc \in [Proc -> Steps]
  /\ job \in [Proc -> Job \cup {None}]
  /\ target \in [Proc -> Version \cup {None}]
  /\ previous \in [Proc -> Version \cup {None}]
  /\ starts \in [Proc -> 0..MaxStarts]

-----------------------------------------------------------------------------
Op(p) == job[p].op
Newest(V) == CHOOSE v \in V : \A w \in V : w <= v

Goto(p, step) == pc' = [pc EXCEPT ![p] = step]
Proceed(p, step) == Goto(p, step) /\ UNCHANGED <<lock, memory>>

\* The job is over, or its process dies: the OS frees its lock.
Exit(p) ==
  /\ Goto(p, "off")
  /\ job' = [job EXCEPT ![p] = None]
  /\ target' = [target EXCEPT ![p] = None]
  /\ previous' = [previous EXCEPT ![p] = None]
  /\ lock' = IF lock = p THEN None ELSE lock

\* What the store holds after earlier jobs; the active binary may have been
\* deleted from outside.
Init ==
  /\ versions \in SUBSET Version
  /\ binaries \in SUBSET versions
  /\ active \in Version \cup {None}
  /\ lock = None
  /\ undo = None
  /\ pc = [p \in Proc |-> "off"]
  /\ job = [p \in Proc |-> None]
  /\ target = [p \in Proc |-> None]
  /\ previous = [p \in Proc |-> None]
  /\ starts = [p \in Proc |-> 0]

FirstStep(j) == IF j.op = "install" THEN "lock" ELSE "read"

Start(p, j) ==
  /\ pc[p] = "off" /\ starts[p] < MaxStarts
  /\ j.op \in Ops
  /\ job' = [job EXCEPT ![p] = j]
  /\ starts' = [starts EXCEPT ![p] = @ + 1]
  /\ Goto(p, FirstStep(j))
  /\ UNCHANGED <<active, versions, binaries, lock, undo, target, previous>>

-----------------------------------------------------------------------------
(* install *)

\* Mutant of LockRuntime: installations do not exclude each other.
LockRuntimeNot(p) ==
  /\ pc[p] = "lock"
  /\ Proceed(p, "read")
  /\ UNCHANGED <<active, versions, binaries, undo, starts>>

LockRuntime(p) ==
  /\ pc[p] = "lock" /\ lock = None
  /\ lock' = p
  /\ Goto(p, "read")
  /\ UNCHANGED <<active, versions, binaries, undo, starts, memory>>

\* The version to keep for a rollback is read before the download.
ReadRollback(p) ==
  LET v == job[p].version
  IN /\ pc[p] = "read" /\ Op(p) = "install"
     /\ target' = [target EXCEPT ![p] = v]
     /\ previous' = [previous EXCEPT ![p] = IF active = v THEN None ELSE active]
     /\ Goto(p, "look")
     /\ UNCHANGED <<active, versions, binaries, lock, undo, job, starts>>

\* A binary that is there already is only checked.
LookForBinary(p) ==
  /\ pc[p] = "look"
  /\ \/ target[p] \in binaries /\ Proceed(p, "file")
     \/ target[p] \in binaries /\ Exit(p)
     \/ target[p] \notin binaries /\ Proceed(p, "fetch")
  /\ UNCHANGED <<active, versions, binaries, undo, starts>>

\* Download, verification and extraction in a temporary directory.
Fetch(p) ==
  /\ pc[p] = "fetch"
  /\ Proceed(p, "dir") \/ Exit(p)
  /\ UNCHANGED <<active, versions, binaries, undo, starts>>

MakeDir(p) ==
  /\ pc[p] = "dir"
  /\ versions' = versions \cup {target[p]}
  /\ Proceed(p, "promote")
  /\ UNCHANGED <<active, binaries, undo, starts>>

\* Mutant of Promote: the pointer is moved whether or not the check succeeded.
PromoteUnchecked(p) ==
  /\ pc[p] = "promote"
  /\ binaries' \in {binaries, binaries \cup {target[p]}}
  /\ Proceed(p, "activate")
  /\ UNCHANGED <<active, versions, undo, starts>>

\* The staged binary gets its name once its version and its commands have been
\* checked; a failure leaves the directory behind.
Promote(p) ==
  /\ pc[p] = "promote"
  /\ \/ binaries' = binaries \cup {target[p]} /\ undo' = None /\ Proceed(p, "file")
     \/ UNCHANGED <<binaries, undo>> /\ Exit(p)
  /\ UNCHANGED <<active, versions, starts>>

\* Mutant of Kept: the newest other version is kept, active or not.
KeptNewest(p) ==
  LET others == versions \ {target[p]}
  IN {target[p]} \cup IF others # {} THEN {Newest(others)} ELSE {}

\* What an installation keeps: its version and the one that was active, or the
\* newest other one.
Kept(p) ==
  LET others == versions \ {target[p]}
  IN {target[p]} \cup IF previous[p] # None THEN {previous[p]}
                      ELSE IF others # {} THEN {Newest(others)} ELSE {}

\* The other versions are deleted.  A deletion may fail at any file; the
\* installation then ends with an error, its version active.
Prune(p) ==
  LET excess == versions \ Kept(p)
  IN /\ pc[p] = "prune"
     /\ \/ /\ versions' = versions \ excess
           /\ binaries' = binaries \ excess
           /\ undo' = IF active = target[p] /\ previous[p] \in binaries
                        THEN previous[p] ELSE undo
        \/ /\ \E removed \in SUBSET excess, emptied \in SUBSET excess :
                /\ versions' = versions \ removed
                /\ binaries' = binaries \ (removed \cup emptied)
           /\ UNCHANGED undo
     /\ Exit(p)
     /\ UNCHANGED <<active, starts>>

-----------------------------------------------------------------------------
(* rollback, and the repair that initialising a store includes *)

\* The versions a rollback may go to: any other directory.  Here these are the ones
\* that installations have made; a directory that somebody else has put there, if its
\* name is that of a version, would be taken for one too.
Candidates == versions \ {active}

\* The newest one, whose binary is checked by running it.
PickRollback(p) ==
  /\ pc[p] = "read" /\ Op(p) = "rollback"
  /\ IF Candidates # {} /\ Newest(Candidates) \in binaries
       THEN /\ target' = [target EXCEPT ![p] = Newest(Candidates)]
            /\ Goto(p, "file")
            /\ UNCHANGED <<lock, job, previous>>
       ELSE Exit(p)
  /\ UNCHANGED <<active, versions, binaries, undo, starts>>

NeedsRepair == active # None /\ active \notin binaries /\ binaries # {}

\* Only a pointer to a missing binary is repaired, with the newest binary.
PickRepair(p) ==
  /\ pc[p] = "read" /\ Op(p) = "repair"
  /\ IF NeedsRepair
       THEN /\ target' = [target EXCEPT ![p] = Newest(binaries)]
            /\ Goto(p, "file")
            /\ UNCHANGED <<lock, job, previous>>
       ELSE Exit(p)
  /\ UNCHANGED <<active, versions, binaries, undo, starts>>

\* The binary is looked for once more, before the gate is taken ...
CheckFile(p) ==
  /\ pc[p] = "file"
  /\ IF target[p] \in binaries THEN Proceed(p, "activate") ELSE Exit(p)
  /\ UNCHANGED <<active, versions, binaries, undo, starts>>

\* ... and under the gate the pointer is moved to it.
Activate(p) ==
  /\ pc[p] = "activate"
  /\ active' = target[p]
  /\ undo' = None
  /\ IF Op(p) = "install" THEN Proceed(p, "prune") ELSE Exit(p)
  /\ UNCHANGED <<versions, binaries, starts>>

-----------------------------------------------------------------------------
(* a command *)

\* Under the gate, the command captures the active binary, which is there.
Capture(p) ==
  /\ pc[p] = "read" /\ Op(p) = "exec"
  /\ IF active \in binaries
       THEN /\ target' = [target EXCEPT ![p] = active]
            /\ Goto(p, "exec")
            /\ UNCHANGED <<lock, job, previous>>
       ELSE Exit(p)
  /\ UNCHANGED <<active, versions, binaries, undo, starts>>

\* Later, with the keychain lock (up to 180 s), it is run; two installations in
\* between may have deleted it, and the command then fails.
Execute(p) ==
  /\ pc[p] = "exec"
  /\ Exit(p)
  /\ UNCHANGED <<active, versions, binaries, undo, starts>>

-----------------------------------------------------------------------------
Crash(p) ==
  /\ pc[p] # "off"
  /\ Exit(p)
  /\ UNCHANGED <<active, versions, binaries, undo, starts>>

Next ==
  \E p \in Proc :
    \/ \E j \in Job : Start(p, j)
    \/ LockRuntime(p) \/ ReadRollback(p) \/ LookForBinary(p) \/ Fetch(p)
    \/ MakeDir(p) \/ Promote(p) \/ Prune(p)
    \/ PickRollback(p) \/ PickRepair(p)
    \/ CheckFile(p) \/ Activate(p)
    \/ Capture(p) \/ Execute(p)
    \/ Crash(p)

Spec == Init /\ [][Next]_vars

-----------------------------------------------------------------------------
(* Properties. *)

\* A rollback or a repair is about to move the pointer, or has moved it after the
\* installation that is about to prune did.
Overtaken ==
  \E p \in Proc :
    \/ pc[p] = "activate" /\ Op(p) # "install"
    \/ pc[p] = "prune" /\ active # target[p]

\* The active binary does not disappear, nor does the pointer move to a binary
\* that is not there: wherever the jobs die and however their files fail, what
\* could run before can run after (install_locked, prune_other_versions).  Only
\* a rollback or a repair in the middle of an installation breaks this.
ActiveStays ==
  [][ (active \in binaries /\ ~Overtaken) => (active' \in binaries') ]_<<active, binaries>>

\* No installation deletes what was active when another one began, or what that
\* one has just put in place, nor does it delete its own.
NoVersionStolen ==
  [][ \A p \in Proc :
        pc[p] \in {"look", "file", "activate", "prune"} /\ Op(p) = "install" =>
          {target[p], previous[p]} \cap binaries \subseteq binaries' ]_binaries

\* A rollback that finds a binary undoes the installation it follows: it goes back
\* to the version that was active before, also past the directories and binaries
\* that other installations have left or are only half through with.
RollbackUndoes ==
  [][ \A p \in Proc :
        pc[p] = "read" /\ Op(p) = "rollback" /\ pc'[p] = "file" /\ undo # None =>
          target'[p] = undo ]_pc

-----------------------------------------------------------------------------
(* The inductive invariant. *)

Installing(p) == pc[p] \in {"look", "fetch", "dir", "promote", "file", "activate", "prune"}

\* A job is at a step of its own, and knows by then which version it is about.
JobAtStep ==
  \A p \in Proc :
    /\ pc[p] = "off" <=> job[p] = None
    /\ pc[p] \in {"lock", "look", "fetch", "dir", "promote", "prune"} => Op(p) = "install"
    /\ pc[p] \in {"file", "activate"} => Op(p) # "exec"
    /\ pc[p] = "exec" => Op(p) = "exec"
    /\ Installing(p) => target[p] \in Version

\* An installation has runtime.lock as soon as it looks at anything.
LockHeld ==
  \A p \in Proc :
    lock = p <=> pc[p] \notin {"off", "lock"} /\ Op(p) = "install"

\* What an installation has put in place stays: nobody else deletes.
InPlace ==
  \A p \in Proc :
    /\ pc[p] = "promote" => target[p] \in versions
    /\ pc[p] \in {"activate", "prune"} /\ Op(p) = "install" => target[p] \in binaries

\* After an installation there is nothing to roll back to but what it replaced.
OneUndo == undo # None => binaries \subseteq {active, undo}

IInv == TypeOK /\ JobAtStep /\ LockHeld /\ InPlace /\ OneUndo
=============================================================================
