------------------------------ MODULE Backups ------------------------------
(***************************************************************************)
(* File backups and their restoration (lpc-core/src/backup.rs).            *)
(*                                                                         *)
(* Every process that makes a backup (lpcctl backup, the desktop when it   *)
(* starts and every six hours) or a restoration (lpcctl restore) works on  *)
(* one directory of snapshots, without any lock: neither against another   *)
(* backup nor, the routing gate being left alone, against the operations   *)
(* that write the data root meanwhile.                                     *)
(*                                                                         *)
(* A process makes one call.  The data root is seen as two files that an   *)
(* operation writes one after the other, an account's directory and the    *)
(* catalog; what they hold is the number of the operation.                 *)
(***************************************************************************)
EXTENDS Integers, FiniteSets

CONSTANTS
  Proc,     \* the processes, each with one call
  Reason,   \* the reasons for a backup, in the order of their names
  Keep,     \* MAX_RETAINED_BACKUPS
  MaxTime,  \* bound: seconds
  MaxEdits, \* bound: operations on the data root
  None

PreRestore == 1 \* "pre-restore"; "manual" sorts before it, "startup" after it

ASSUME BackupsAssumption ==
  /\ Reason \subseteq Nat /\ IsFiniteSet(Reason) /\ PreRestore \notin Reason
  /\ Keep \in Nat \ {0} /\ MaxTime \in Nat /\ MaxEdits \in Nat
  /\ None \notin Nat

Part == {"dir", "catalog"} \* the files of the data root
Content == 0..MaxEdits

\* A snapshot's name, the second and then the reason: names sort like numbers.
Id == (0..MaxTime) \X (Reason \cup {PreRestore})
Newer(i, j) == i[1] > j[1] \/ (i[1] = j[1] /\ i[2] > j[2])

VARIABLES
  root,    \* the files of the data root
  edit,    \* the operation that has written the first of its two files, or 0
  edits,   \* the operations so far
  clock,   \* the second
  snaps,   \* what is in the published snapshots; None for a name not in use
  temp,    \* what is in a process's temporary directory; None: there is none
  pc,      \* where a process is
  from,    \* the snapshot it restores; None: it makes a backup
  id,      \* the name of the snapshot it makes
  left,    \* what it has yet to copy, or to restore
  skipped, \* a file could not be copied; the call goes on
  todo,    \* the snapshots it is about to prune
  before,  \* history: the data root when the process began
  wanted,  \* history: the snapshot it restores, as it was then
  touched, \* history: the files of the data root that another one has written since
  hit,     \* history: another one has removed some or all of its temporary directory
  robbed,  \* history: another one prunes what it restores, or what it has made
  missed,  \* history: what it was to restore and its walk lost, or another one pruned
  swapped  \* history: what it restores was pruned and its name used again

files == <<root, edit, edits>>
work == <<from, id, left, skipped, todo>>
history == <<before, wanted, touched, hit, robbed, missed, swapped>>
vars == <<files, clock, snaps, temp, pc, work, history>>

Files == [Part -> Content \cup {None}]
Roots == [Part -> Content]
Empty == [x \in Part |-> None]
\* History, while nobody prunes it: nothing was skipped or removed from it as it
\* was made, and what the data root was if nobody wrote that meanwhile either.
Snapshot == [files: Files, sound: BOOLEAN, was: Roots \cup {None}]
ASSUME NoneAssumption == None \notin Id /\ None \notin Files /\ None \notin Snapshot

Steps == {"off", "prepare", "copy", "publish", "list", "prune", "check", "apply",
          "done", "gone"}

Published == {i \in Id : snaps[i] # None}

TypeOK ==
  /\ root \in Roots /\ edit \in Content /\ edits \in Content
  /\ clock \in 0..MaxTime
  /\ snaps \in [Id -> Snapshot \cup {None}]
  /\ temp \in [Proc -> Files \cup {None}]
  /\ pc \in [Proc -> Steps]
  /\ from \in [Proc -> Id \cup {None}]
  /\ id \in [Proc -> Id]
  /\ left \in [Proc -> SUBSET Part]
  /\ skipped \in [Proc -> BOOLEAN]
  /\ todo \in [Proc -> SUBSET Id]
  /\ before \in [Proc -> Roots]
  /\ wanted \in [Proc -> Files]
  /\ touched \in [Proc -> SUBSET Part]
  /\ hit \in [Proc -> BOOLEAN]
  /\ robbed \in [Proc -> BOOLEAN]
  /\ missed \in [Proc -> SUBSET Part]
  /\ swapped \in [Proc -> BOOLEAN]

NoId == <<0, PreRestore>>
Start == [x \in Part |-> 0]
Old == [files |-> Start, sound |-> TRUE, was |-> Start]

\* There may be snapshots from before.
Init ==
  /\ root = Start /\ edit = 0 /\ edits = 0 /\ clock = 0
  /\ \E old \in SUBSET ({0} \X Reason) :
       snaps = [i \in Id |-> IF i \in old THEN Old ELSE None]
  /\ temp = [p \in Proc |-> None]
  /\ pc = [p \in Proc |-> "off"]
  /\ from = [p \in Proc |-> None]
  /\ id = [p \in Proc |-> NoId]
  /\ left = [p \in Proc |-> {}]
  /\ skipped = [p \in Proc |-> FALSE]
  /\ todo = [p \in Proc |-> {}]
  /\ before = [p \in Proc |-> Start]
  /\ wanted = [p \in Proc |-> Empty]
  /\ touched = [p \in Proc |-> {}]
  /\ hit = [p \in Proc |-> FALSE]
  /\ robbed = [p \in Proc |-> FALSE]
  /\ missed = [p \in Proc |-> {}]
  /\ swapped = [p \in Proc |-> FALSE]

Goto(p, step) == pc' = [pc EXCEPT ![p] = step]
Active(p) == pc[p] \notin {"off", "gone"}

\* The call fails, or the process ends otherwise: what it knew is gone.
Ends(p) ==
  /\ Goto(p, "gone")
  /\ from' = [from EXCEPT ![p] = None]
  /\ id' = [id EXCEPT ![p] = NoId]
  /\ left' = [left EXCEPT ![p] = {}]
  /\ skipped' = [skipped EXCEPT ![p] = FALSE]
  /\ todo' = [todo EXCEPT ![p] = {}]
  /\ before' = [before EXCEPT ![p] = Start]
  /\ wanted' = [wanted EXCEPT ![p] = Empty]
  /\ touched' = [touched EXCEPT ![p] = {}]
  /\ hit' = [hit EXCEPT ![p] = FALSE]
  /\ robbed' = [robbed EXCEPT ![p] = FALSE]
  /\ missed' = [missed EXCEPT ![p] = {}]
  /\ swapped' = [swapped EXCEPT ![p] = FALSE]

-----------------------------------------------------------------------------
(* The rest of the program. *)

\* A file of the data root is written: which marks the others.
Touch(others, x) ==
  touched' = [q \in Proc |-> IF q \in others /\ Active(q)
                             THEN touched[q] \cup {x} ELSE touched[q]]

\* An operation writes its first file (a registration: the directory) ...
EditFirst ==
  /\ edit = 0 /\ edits < MaxEdits
  /\ edits' = edits + 1 /\ edit' = edits + 1
  /\ root' = [root EXCEPT !["dir"] = edits + 1]
  /\ Touch(Proc, "dir")
  /\ UNCHANGED <<clock, snaps, temp, pc, work, before, wanted, hit, robbed, missed, swapped>>

\* ... and then the catalog.
EditSecond ==
  /\ edit # 0
  /\ root' = [root EXCEPT !["catalog"] = edit]
  /\ edit' = 0
  /\ Touch(Proc, "catalog")
  /\ UNCHANGED <<edits, clock, snaps, temp, pc, work, before, wanted, hit, robbed, missed,
                 swapped>>

-----------------------------------------------------------------------------
(* run_credential_backup_to_with_prune *)

Enter(p, source, content) ==
  /\ pc[p] = "off"
  /\ from' = [from EXCEPT ![p] = source]
  /\ wanted' = [wanted EXCEPT ![p] = content]
  /\ before' = [before EXCEPT ![p] = root]
  /\ Goto(p, "prepare")
  /\ UNCHANGED <<files, clock, snaps, temp, left, skipped, todo, touched, hit, robbed,
                 missed, swapped>>

\* lpcctl backup, or a thread of the desktop.
Backup(p, r) ==
  /\ id' = [id EXCEPT ![p] = <<0, r>>]
  /\ Enter(p, None, Empty)

\* What remove_dir_all, whose failure is ignored, may leave of a directory.
Remains(f) ==
  IF f = None THEN {None} ELSE {None} \cup {g \in Files : \A x \in Part : g[x] \in {f[x], None}}

\* cleanup_stale_temp_dirs: every temporary directory is taken for one that a
\* crash has left, and removed as far as that succeeds.  Then the process makes
\* its own; the second goes into the snapshot's name.
Prepare(p) ==
  /\ pc[p] = "prepare"
  /\ temp' \in {t \in [Proc -> Files \cup {None}] :
                 t[p] = Empty /\ \A q \in Proc \ {p} : t[q] \in Remains(temp[q])}
  /\ hit' = [q \in Proc |-> hit[q] \/ (q # p /\ Active(q) /\ temp'[q] # temp[q])]
  /\ clock' \in clock..MaxTime
  /\ id' = [id EXCEPT ![p] = <<clock', @[2]>>]
  /\ left' = [left EXCEPT ![p] = Part]
  /\ Goto(p, "copy")
  /\ UNCHANGED <<files, snaps, from, skipped, todo, before, wanted, touched, robbed, missed,
                 swapped>>

\* The directories on the way to a file are made, also when somebody has removed
\* the ones that were there.
Held(p) == IF temp[p] = None THEN Empty ELSE temp[p]

\* Mutant of AfterCopy: the snapshot is published without waiting for the rest.
AfterCopyOfCatalog(p, x) == IF x = "catalog" THEN "publish" ELSE "copy"

AfterCopy(p, x) == IF left[p] = {x} THEN "publish" ELSE "copy"

\* copy_dir_contents: in the file system's order, a file is copied or counted as
\* skipped.
Copy(p) ==
  /\ pc[p] = "copy"
  /\ \E x \in left[p] :
       /\ left' = [left EXCEPT ![p] = @ \ {x}]
       /\ \/ /\ temp' = [temp EXCEPT ![p] = [Held(p) EXCEPT ![x] = root[x]]]
             /\ UNCHANGED skipped
          \/ /\ temp' \in {temp, [temp EXCEPT ![p] = Held(p)]}
             /\ skipped' = [skipped EXCEPT ![p] = TRUE]
       /\ Goto(p, AfterCopy(p, x))
  /\ UNCHANGED <<files, clock, snaps, from, id, todo, history>>

\* Whether a backup prunes: the one that a restoration makes first does not.
Prunes(p) == from[p] = None

AfterBackup(p) == IF from[p] = None THEN "done" ELSE "check"

\* Mutant of AfterFailure: a restoration goes on without its backup.
AfterFailureOn(p) ==
  IF from[p] = None THEN Ends(p) ELSE Goto(p, "check") /\ UNCHANGED <<work, history>>

AfterFailure(p) == Ends(p)

Sound(p) == ~skipped[p] /\ ~hit[p]
Made(p) == [files |-> temp[p], sound |-> Sound(p),
            was |-> IF Sound(p) /\ touched[p] = {} THEN before[p] ELSE None]

\* The manifest is written and the rename publishes the snapshot, unless the name
\* is in use or the temporary directory is gone; then that directory is removed
\* and the call fails.
Publish(p) ==
  /\ pc[p] = "publish"
  /\ temp' = [temp EXCEPT ![p] = None]
  /\ \/ /\ temp[p] # None /\ snaps[id[p]] = None
        /\ snaps' = [snaps EXCEPT ![id[p]] = Made(p)]
        /\ swapped' = [q \in Proc |-> swapped[q] \/ (Active(q) /\ from[q] = id[p])]
        /\ Goto(p, IF Prunes(p) THEN "list" ELSE AfterBackup(p))
        /\ UNCHANGED <<work, before, wanted, touched, hit, robbed, missed>>
     \/ /\ temp[p] = None \/ snaps[id[p]] # None
        /\ AfterFailure(p)
        /\ UNCHANGED snaps
  /\ UNCHANGED <<files, clock>>

\* Mutant of Surplus: one too many.
SurplusOneMore(ids) ==
  {i \in ids : Cardinality({j \in ids : Newer(j, i)}) + 1 >= Keep}

\* The oldest ones beyond Keep.
Surplus(ids) == {i \in ids : Cardinality({j \in ids : Newer(j, i)}) >= Keep}

ListOld(p) ==
  /\ pc[p] = "list"
  /\ todo' = [todo EXCEPT ![p] = Surplus(Published)]
  /\ Goto(p, "prune")
  /\ UNCHANGED <<files, clock, snaps, temp, from, id, left, skipped, history>>

Oldest(ids) == {i \in ids : \A j \in ids : j = i \/ Newer(j, i)}

\* The snapshots that a process works with.
Has(p, i) == Active(p) /\ i \in {from[p], id[p]}

\* Another one than p has begun to prune a snapshot, or goes on with it.
Robs(p, i) == robbed' = [q \in Proc |-> robbed[q] \/ (q # p /\ Has(q, i))]

\* remove_dir_all removes the files one by one ...
PruneFile(p) ==
  /\ pc[p] = "prune"
  /\ \E i \in Oldest(todo[p]), x \in Part :
       /\ snaps[i] # None /\ snaps[i].files[x] # None
       /\ snaps' = [snaps EXCEPT ![i] =
            [files |-> [@.files EXCEPT ![x] = None], sound |-> FALSE, was |-> None]]
       /\ missed' = [q \in Proc |-> IF q # p /\ Active(q) /\ from[q] = i
                                   THEN missed[q] \cup {x} ELSE missed[q]]
       /\ Robs(p, i)
  /\ UNCHANGED <<files, clock, temp, pc, work, before, wanted, touched, hit, swapped>>

\* ... and then the directory.
PruneDir(p) ==
  /\ pc[p] = "prune"
  /\ \E i \in Oldest(todo[p]) :
       /\ snaps[i] # None /\ snaps[i].files = Empty
       /\ snaps' = [snaps EXCEPT ![i] = None]
       /\ todo' = [todo EXCEPT ![p] = @ \ {i}]
       /\ Robs(p, i)
  /\ UNCHANGED <<files, clock, temp, pc, from, id, left, skipped, before, wanted, touched,
                 hit, missed, swapped>>

\* It fails, and with it the call, when another process has removed the snapshot.
PruneFails(p) ==
  /\ pc[p] = "prune"
  /\ \E i \in Oldest(todo[p]) : snaps[i] = None
  /\ Ends(p)
  /\ UNCHANGED <<files, clock, snaps, temp>>

PruneDone(p) ==
  /\ pc[p] = "prune" /\ todo[p] = {}
  /\ Goto(p, AfterBackup(p))
  /\ UNCHANGED <<files, clock, snaps, temp, work, history>>

-----------------------------------------------------------------------------
(* lpcctl restore: restore_latest, restore_from_backup *)

\* A snapshot is chosen, by its name or as the newest, before a backup is made.
Restore(p, i) ==
  /\ snaps[i] # None
  /\ id' = [id EXCEPT ![p] = <<0, PreRestore>>]
  /\ Enter(p, i, snaps[i].files)

\* The files of the snapshot it restores that are still there.
Found(p) ==
  IF snaps[from[p]] = None THEN {} ELSE {x \in Part : snaps[from[p]].files[x] # None}

\* Mutant of CheckSource: the newest snapshot is chosen now, after that backup.
CheckSourceLate(p) ==
  /\ pc[p] = "check"
  /\ \E i \in Published :
       /\ \A j \in Published : ~Newer(j, i)
       /\ from' = [from EXCEPT ![p] = i]
  /\ left' = [left EXCEPT ![p] = Part]
  /\ Goto(p, "apply")
  /\ UNCHANGED <<files, clock, snaps, temp, id, skipped, todo, history>>

\* There must be a directory lpc-control-plane; it may be empty.
CheckSource(p) ==
  /\ pc[p] = "check"
  /\ \/ /\ snaps[from[p]] # None
        /\ left' = [left EXCEPT ![p] = Part]
        /\ Goto(p, "apply")
        /\ UNCHANGED <<from, id, skipped, todo, history>>
     \/ Found(p) = {} /\ Ends(p)
  /\ UNCHANGED <<files, clock, snaps, temp>>

\* restore_subtree_atomic: one file after the other is replaced, in any order and
\* without the gate.  What is not in the snapshot stays.
Apply(p) ==
  /\ pc[p] = "apply"
  /\ \E x \in left[p] \cap Found(p) :
       /\ root' = [root EXCEPT ![x] = snaps[from[p]].files[x]]
       /\ left' = [left EXCEPT ![p] = @ \ {x}]
       /\ Touch(Proc \ {p}, x)
  /\ UNCHANGED <<edit, edits, clock, snaps, temp, pc, from, id, skipped, todo, before,
                 wanted, hit, robbed, missed, swapped>>

\* A directory that the walk cannot read, or an entry that it cannot tell the kind
\* of, is dropped without a word (filter_map), and the files below with it.
ApplyMisses(p) ==
  /\ pc[p] = "apply"
  /\ \E x \in left[p] \cap Found(p) :
       /\ left' = [left EXCEPT ![p] = @ \ {x}]
       /\ missed' = [missed EXCEPT ![p] = @ \cup {x}]
  /\ UNCHANGED <<files, clock, snaps, temp, pc, from, id, skipped, todo, before, wanted,
                 touched, hit, robbed, swapped>>

\* A file cannot be read (it is being pruned) or not be written.
ApplyFails(p) ==
  /\ pc[p] = "apply" /\ left[p] # {}
  /\ Ends(p)
  /\ UNCHANGED <<files, clock, snaps, temp>>

\* The walk is over when it finds nothing more: the call reports success.
Restored(p) ==
  /\ pc[p] = "apply" /\ left[p] \cap Found(p) = {}
  /\ Goto(p, "done")
  /\ UNCHANGED <<files, clock, snaps, temp, work, history>>

\* The process ends, or dies in the middle: its temporary directory stays.
Exit(p) == Active(p) /\ Ends(p) /\ UNCHANGED <<files, clock, snaps, temp>>

Step(p) ==
  \/ Prepare(p) \/ Copy(p) \/ Publish(p) \/ ListOld(p)
  \/ PruneFile(p) \/ PruneDir(p) \/ PruneFails(p) \/ PruneDone(p)
  \/ CheckSource(p) \/ Apply(p) \/ ApplyMisses(p) \/ ApplyFails(p) \/ Restored(p)

Next ==
  \/ EditFirst \/ EditSecond
  \/ \E p \in Proc :
       \/ \E r \in Reason : Backup(p, r)
       \/ \E i \in Id : Restore(p, i)
       \/ Step(p) \/ Exit(p)

Spec == Init /\ [][Next]_vars

-----------------------------------------------------------------------------
(* Properties. *)

\* "Rename only after everything is copied: an observer sees a complete snapshot
\* or an older one, never half of one" (backup.rs:126).  A snapshot that nobody
\* prunes has every file, unless its manifest counts one as skipped or another
\* backup took the temporary directory for a stale one: the copy then goes on in
\* a new one, without what it had copied before, and its manifest counts it all.
\* And the files are those of one moment, unless an operation or a restoration
\* wrote the data root meanwhile.
SnapshotsWhole ==
  \A i \in Published :
    /\ snaps[i].sound => \A x \in Part : snaps[i].files[x] # None
    /\ snaps[i].was # None => snaps[i].files = snaps[i].was

NewerThan(i) == {j \in Published : Newer(j, i)}

\* However many processes prune at once, a snapshot is only ever given up for at
\* least Keep newer ones.
KeepsNewest ==
  [][ \A i \in Published :
        snaps'[i] # snaps[i] => Cardinality(NewerThan(i)) >= Keep ]_snaps

\* A restoration that reports success has, file by file, put back what it was asked
\* for or left what was there, and it leaves a file only for two reasons: its walk
\* dropped an error (backup.rs:236), or another backup was pruning that snapshot.
\* The backup that it makes first is no such reason.  Never does it mix in another
\* snapshot, unless one has taken the name of the one that was pruned; a file that
\* somebody else has written since is theirs.
RestoreWhole ==
  \A p \in Proc :
    from[p] # None /\ pc[p] = "done" /\ ~swapped[p] =>
      \A x \in Part \ touched[p] :
        wanted[p][x] # None /\ root[x] # wanted[p][x] =>
          x \in missed[p] /\ root[x] = before[p][x]

\* Before a restoration replaces the first file there is a snapshot to go back to,
\* with every file of the data root as it was or as somebody else has written it
\* since, unless a file could not be copied into it, its temporary directory was
\* taken for a stale one, or somebody else has pruned the snapshot in turn.
UndoPossible ==
  \A p \in Proc :
    from[p] # None /\ pc[p] \in {"apply", "done"} /\ Sound(p) /\ ~robbed[p] =>
      /\ snaps[id[p]] # None
      /\ \A x \in Part \ touched[p] : snaps[id[p]].files[x] = before[p][x]

-----------------------------------------------------------------------------
(* The inductive invariant. *)

\* What a process has listed for pruning has Keep newer ones, and keeps them.
ListedOld == \A p \in Proc : \A i \in todo[p] : Cardinality(NewerThan(i)) >= Keep

\* The backup that a restoration makes first prunes nothing, and only a restoration
\* restores.
PrunesAlone ==
  \A p \in Proc :
    /\ pc[p] \in {"list", "prune"} => from[p] = None
    /\ pc[p] \in {"check", "apply"} => from[p] # None

\* A file that nobody else writes is as the process has found it.
RootKept ==
  \A p \in Proc :
    Active(p) /\ pc[p] \notin {"apply", "done"} =>
      \A x \in Part \ touched[p] : root[x] = before[p][x]

\* What a process has copied so far is in its temporary directory.
CopyKept ==
  \A p \in Proc :
    pc[p] \in {"copy", "publish"} /\ Sound(p) =>
      /\ temp[p] # None
      /\ pc[p] = "publish" => left[p] = {}
      /\ \A x \in Part \ left[p] :
           temp[p][x] # None /\ (x \notin touched[p] => temp[p][x] = before[p][x])

\* The snapshot that a restoration has made first stays as it was made.
MadeKept ==
  \A p \in Proc :
    from[p] # None /\ pc[p] \in {"check", "apply", "done"} /\ Sound(p) /\ ~robbed[p] =>
      /\ snaps[id[p]] # None
      /\ \A x \in Part \ touched[p] : snaps[id[p]].files[x] = before[p][x]

\* Of the snapshot that it restores only what others prune goes.
ChosenKept ==
  \A p \in Proc :
    Active(p) /\ from[p] # None /\ ~swapped[p] =>
      \A x \in Part :
        \/ snaps[from[p]] # None /\ snaps[from[p]].files[x] = wanted[p][x]
        \/ /\ x \in missed[p] \/ wanted[p][x] = None
           /\ snaps[from[p]] # None => snaps[from[p]].files[x] = None

\* What it has restored so far is in the data root; the rest has not changed.
AppliedKept ==
  \A p \in Proc :
    from[p] # None /\ pc[p] \in {"apply", "done"} /\ ~swapped[p] =>
      \A x \in Part \ touched[p] :
        /\ root[x] \in {wanted[p][x], before[p][x]}
        /\ pc[p] = "apply" /\ x \in left[p] => root[x] = before[p][x]
        /\ wanted[p][x] # None /\ x \notin missed[p] /\ (x \notin left[p] \/ pc[p] = "done") =>
             root[x] = wanted[p][x]

IInv ==
  /\ TypeOK /\ SnapshotsWhole /\ ListedOld /\ PrunesAlone /\ RootKept /\ CopyKept
  /\ MadeKept /\ ChosenKept /\ AppliedKept
=============================================================================
