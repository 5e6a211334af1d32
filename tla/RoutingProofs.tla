--------------------------- MODULE RoutingProofs ---------------------------
(***************************************************************************)
(* Proofs about Routing, for any number of processes, accounts and apps    *)
(* and any bounds.                                                         *)
(***************************************************************************)
EXTENDS Routing, TLAPS

(***************************************************************************)
(* The inductive invariant.  The properties are not inductive by           *)
(* themselves: what a process at a given step has already checked, and     *)
(* that nobody can have changed it since because it holds the gate, has to *)
(* be said step by step.                                                   *)
(***************************************************************************)

\* Which jobs can be at a step.
JobAt(p) ==
  /\ pc[p] # "off" => job[p] \in Job
  /\ pc[p] \in {"probe", "cli"} => Op(p) = "health"
  /\ pc[p] \in {"lease", "run"} => Op(p) = "exec" /\ route[p] \in Route
  /\ pc[p] \notin {"lease", "run"} => route[p] = None
  /\ pc[p] \in {"idle", "logout"} => Op(p) = "remove"
  /\ pc[p] = "load" => Op(p) \in {"switch", "remove"}
  /\ pc[p] = "mkdir" => Op(p) \in {"register", "addApp"}
  /\ pc[p] = "savecat" =>
       Op(p) \in {"remove", "register", "addApp", "removeApp", "edit", "health"}
  /\ pc[p] = "rmdir" => Op(p) \in {"remove", "removeApp"}
  /\ pc[p] = "loadst" => Op(p) \in {"switch", "register", "remove"}
  /\ pc[p] = "savest" => Op(p) \in {"switch", "register", "remove", "activate"}

\* A process knows its own start time, or that it does not.
KnowsItself(p) ==
  pc[p] # "off" => inc[p] # 0 /\ started[p] \in {0, inc[p]}

\* Before the catalog is written, the writer's copy is the file, and the file
\* still is one the job may be applied to.
CatalogCopy(p) ==
  pc[p] \in {"mkdir", "logout", "savecat"} =>
    /\ copy[p] = cat
    /\ Op(p) \in {"remove", "health"} => Arg(p) \in cat.accounts
    /\ Op(p) = "register" => AppOf[Arg(p)] \in cat.apps /\ ~HasDuplicate(cat, Arg(p))
    /\ Op(p) = "removeApp" => \A a \in cat.accounts : AppOf[a] # Arg(p)
    /\ pc[p] = "savecat" /\ Op(p) \in {"register", "addApp"} => Arg(p) \in dirs

\* After it, the file is the writer's copy with the job's change.
CatalogWritten(p) ==
  /\ pc[p] \in {"rmdir", "loadst", "savest"} /\ Op(p) = "remove" =>
       /\ copy[p] \in Catalog
       /\ cat.accounts = copy[p].accounts \ {Arg(p)}
       /\ cat.apps = copy[p].apps
  /\ pc[p] = "rmdir" /\ Op(p) = "removeApp" => Arg(p) \notin cat.apps
  /\ pc[p] \in {"loadst", "savest"} /\ Op(p) \in {"switch", "register"} =>
       Arg(p) \in cat.accounts

StateCopy(p) ==
  pc[p] = "savest" =>
    /\ was[p] = st
    /\ Op(p) = "remove" => st.active = Arg(p)
    /\ Op(p) = "register" => st.active = None

\* No command runs as the account that is being removed.
TargetIdle(p) ==
  /\ pc[p] \in {"load", "logout", "savecat", "rmdir", "loadst", "savest"}
  /\ Op(p) = "remove"
  => \A q \in Proc : pc[q] \in {"lease", "run"} => route[q].account # Arg(p)

\* A running command has its lease on disk.
HasLease(p) == pc[p] = "run" => OwnLease(p) \in leases

\* The active account is in the catalog, or its removal is not over.
ActiveSettles ==
  \/ st.active \in cat.accounts \cup {None} \cup cut
  \/ \E p \in Proc : HalfRemoved(p) /\ Arg(p) = st.active

IInv ==
  /\ TypeOK
  /\ GateExclusive
  /\ \A p \in Proc : JobAt(p) /\ KnowsItself(p)
  /\ \A p \in Proc : CatalogCopy(p) /\ CatalogWritten(p) /\ StateCopy(p)
  /\ \A p \in Proc : TargetIdle(p) /\ HasLease(p)
  /\ CatalogBacked /\ AppsPresent /\ NoDuplicateUsers
  /\ CommandKeepsAccount
  /\ ActiveSettles
\* What the argument of a job is, by its kind.
LEMMA JobFields ==
  ASSUME NEW j \in Job
  PROVE  /\ j.op \in AllOps
         /\ j.op = "exec" => j.arg \in Account \cup {None}
         /\ j.op \in {"switch", "remove", "register", "health"} => j.arg \in Account
         /\ j.op \in {"addApp", "removeApp"} => j.arg \in App
         /\ j.op = "activate" => j.arg \in Cli
  BY DEF Job, AllOps

\* A store left by earlier processes, nobody running.
LEMMA InitInv == Init => IInv
  BY RoutingAssumption
  DEF Init, IInv, TypeOK, GateExclusive, GatedSteps, Steps, JobAt, KnowsItself,
      CatalogCopy, CatalogWritten, StateCopy, TargetIdle, HasLease, CatalogBacked,
      AppsPresent, NoDuplicateUsers, CommandKeepsAccount, ActiveSettles, Catalog,
      ActiveState

\* A new process is at the step its job starts with, and knows nothing yet.
LEMMA StartPreserves ==
  ASSUME IInv, NEW p \in Proc, NEW j \in Job, Start(p, j)
  PROVE  IInv'
  <1> USE JobFields, RoutingAssumption
      DEF IInv, TypeOK, GateExclusive, GatedSteps, JobAt, Op, Arg,
          Start, Goto, Exit, Proceed, store, memory
  <1>1. TypeOK'
    BY DEF Steps
  <1>2. GateExclusive'
    OBVIOUS
  <1>3. \A q \in Proc : JobAt(q)' /\ KnowsItself(q)'
    BY DEF KnowsItself
  <1>4. \A q \in Proc : CatalogCopy(q)' /\ CatalogWritten(q)' /\ StateCopy(q)'
    BY DEF CatalogCopy, CatalogWritten, StateCopy, HasDuplicate
  <1>5. \A q \in Proc : TargetIdle(q)' /\ HasLease(q)'
    BY DEF TargetIdle, HasLease, OwnLease
  <1>6. (CatalogBacked /\ AppsPresent /\ NoDuplicateUsers)'
    BY DEF CatalogBacked, AppsPresent, NoDuplicateUsers
  <1>7. CommandKeepsAccount'
    BY DEF CommandKeepsAccount
  <1>8. ActiveSettles'
    BY DEF ActiveSettles, HalfRemoved
  <1>9. QED
    BY <1>1, <1>2, <1>3, <1>4, <1>5, <1>6, <1>7, <1>8

\* Taking the gate: nobody else is in the critical section.
LEMMA LockPreserves ==
  ASSUME IInv, NEW p \in Proc, Lock(p)
  PROVE  IInv'
  <1> USE JobFields, RoutingAssumption
      DEF IInv, TypeOK, GateExclusive, GatedSteps, JobAt, Op, Arg,
          Lock, Goto, Exit, Proceed, store, memory
  <1>1. TypeOK'
    BY DEF Steps
  <1>2. GateExclusive'
    OBVIOUS
  <1>3. \A q \in Proc : JobAt(q)' /\ KnowsItself(q)'
    BY DEF KnowsItself
  <1>4. \A q \in Proc : CatalogCopy(q)' /\ CatalogWritten(q)' /\ StateCopy(q)'
    BY DEF CatalogCopy, CatalogWritten, StateCopy, HasDuplicate
  <1>5. \A q \in Proc : TargetIdle(q)' /\ HasLease(q)'
    BY DEF TargetIdle, HasLease, OwnLease
  <1>6. (CatalogBacked /\ AppsPresent /\ NoDuplicateUsers)'
    BY DEF CatalogBacked, AppsPresent, NoDuplicateUsers
  <1>7. CommandKeepsAccount'
    BY DEF CommandKeepsAccount
  <1>8. ActiveSettles'
    BY DEF ActiveSettles, HalfRemoved
  <1>9. QED
    BY <1>1, <1>2, <1>3, <1>4, <1>5, <1>6, <1>7, <1>8

\* Giving up on the gate changes no file.
LEMMA LockTimeoutPreserves ==
  ASSUME IInv, NEW p \in Proc, LockTimeout(p)
  PROVE  IInv'
  <1> USE JobFields, RoutingAssumption
      DEF IInv, TypeOK, GateExclusive, GatedSteps, JobAt, Op, Arg,
          LockTimeout, SlowSteps, Goto, Exit, Proceed, store, memory
  <1>1. TypeOK'
    BY DEF Steps
  <1>2. GateExclusive'
    OBVIOUS
  <1>3. \A q \in Proc : JobAt(q)' /\ KnowsItself(q)'
    BY DEF KnowsItself
  <1>4. \A q \in Proc : CatalogCopy(q)' /\ CatalogWritten(q)' /\ StateCopy(q)'
    BY DEF CatalogCopy, CatalogWritten, StateCopy, HasDuplicate
  <1>5. \A q \in Proc : TargetIdle(q)' /\ HasLease(q)'
    BY DEF TargetIdle, HasLease, OwnLease
  <1>6. (CatalogBacked /\ AppsPresent /\ NoDuplicateUsers)'
    BY DEF CatalogBacked, AppsPresent, NoDuplicateUsers
  <1>7. CommandKeepsAccount'
    BY DEF CommandKeepsAccount
  <1>8. ActiveSettles'
    BY DEF ActiveSettles, HalfRemoved
  <1>9. QED
    BY <1>1, <1>2, <1>3, <1>4, <1>5, <1>6, <1>7, <1>8

\* A captured route names an account of the catalog: nobody is removing it,
\* for the gate is taken.
LEMMA SnapshotPreserves ==
  ASSUME IInv, NEW p \in Proc, Snapshot(p)
  PROVE  IInv'
  <1> USE JobFields, RoutingAssumption
      DEF IInv, TypeOK, GateExclusive, GatedSteps, JobAt, Op, Arg,
          Snapshot, Wanted, Goto, Exit, Proceed, store, memory
  <1> DEFINE r == [account |-> Wanted(p), cli |-> st.cli, gen |-> st.gen]
  <1>1. Op(p) = "exec" /\ Wanted(p) \in Account \cup {None}
    BY DEF ActiveState
  <1>2. \/ Exit(p)
        \/ /\ r \in Route /\ r.account \in cat.accounts /\ AppOf[r.account] \in cat.apps
           /\ route' = [route EXCEPT ![p] = r]
           /\ Goto(p, "lease") /\ UNCHANGED <<gate, job, copy, was, started>>
    BY <1>1 DEF Route, ActiveState, Catalog
  <1> HIDE DEF r, Wanted, Snapshot
  <1>3. UNCHANGED <<store, issued, cut, inc>> /\ pc[p] = "locked"
    BY DEF Snapshot
  <1>4. TypeOK'
    BY <1>2, <1>3 DEF Steps
  <1>5. GateExclusive'
    BY <1>2, <1>3
  <1>6. \A q \in Proc : JobAt(q)' /\ KnowsItself(q)'
    BY <1>1, <1>2, <1>3 DEF KnowsItself
  <1>7. \A q \in Proc : CatalogCopy(q)' /\ CatalogWritten(q)' /\ StateCopy(q)'
    BY <1>2, <1>3 DEF CatalogCopy, CatalogWritten, StateCopy, HasDuplicate
  <1>8. \A q \in Proc : TargetIdle(q)' /\ HasLease(q)'
    BY <1>1, <1>2, <1>3 DEF TargetIdle, HasLease, OwnLease
  <1>9. (CatalogBacked /\ AppsPresent /\ NoDuplicateUsers)'
    BY <1>3 DEF CatalogBacked, AppsPresent, NoDuplicateUsers
  <1>10. CommandKeepsAccount'
    BY <1>1, <1>2, <1>3 DEF CommandKeepsAccount, CatalogBacked
  <1>11. ActiveSettles'
    BY <1>2, <1>3 DEF ActiveSettles, HalfRemoved
  <1>12. QED
    BY <1>4, <1>5, <1>6, <1>7, <1>8, <1>9, <1>10, <1>11

\* The lease is on disk before the gate is dropped.
LEMMA WriteLeasePreserves ==
  ASSUME IInv, NEW p \in Proc, WriteLease(p)
  PROVE  IInv'
  <1> USE JobFields, RoutingAssumption
      DEF IInv, TypeOK, GateExclusive, GatedSteps, JobAt, Op, Arg,
          WriteLease, Goto, Exit, Proceed, store, memory
  <1>1. TypeOK'
    BY DEF Steps, Lease, Route, OwnLease, KnowsItself
  <1>2. GateExclusive'
    OBVIOUS
  <1>3. \A q \in Proc : JobAt(q)' /\ KnowsItself(q)'
    BY DEF KnowsItself
  <1>4. \A q \in Proc : CatalogCopy(q)' /\ CatalogWritten(q)' /\ StateCopy(q)'
    BY DEF CatalogCopy, CatalogWritten, StateCopy, HasDuplicate
  <1>5. \A q \in Proc : TargetIdle(q)' /\ HasLease(q)'
    BY DEF TargetIdle, HasLease, OwnLease
  <1>6. (CatalogBacked /\ AppsPresent /\ NoDuplicateUsers)'
    BY DEF CatalogBacked, AppsPresent, NoDuplicateUsers
  <1>7. CommandKeepsAccount'
    BY DEF CommandKeepsAccount
  <1>8. ActiveSettles'
    BY DEF ActiveSettles, HalfRemoved
  <1>9. QED
    BY <1>1, <1>2, <1>3, <1>4, <1>5, <1>6, <1>7, <1>8

\* A finished command takes away its own lease and no other.
LEMMA FinishPreserves ==
  ASSUME IInv, NEW p \in Proc, Finish(p)
  PROVE  IInv'
  <1> USE JobFields, RoutingAssumption
      DEF IInv, TypeOK, GateExclusive, GatedSteps, JobAt, Op, Arg,
          Finish, Goto, Exit, Proceed, store, memory
  <1>1. TypeOK'
    BY DEF Steps
  <1>2. GateExclusive'
    OBVIOUS
  <1>3. \A q \in Proc : JobAt(q)' /\ KnowsItself(q)'
    BY DEF KnowsItself
  <1>4. \A q \in Proc : CatalogCopy(q)' /\ CatalogWritten(q)' /\ StateCopy(q)'
    BY DEF CatalogCopy, CatalogWritten, StateCopy, HasDuplicate
  <1>5. \A q \in Proc : TargetIdle(q)' /\ HasLease(q)'
    BY DEF TargetIdle, HasLease, OwnLease
  <1>6. (CatalogBacked /\ AppsPresent /\ NoDuplicateUsers)'
    BY DEF CatalogBacked, AppsPresent, NoDuplicateUsers
  <1>7. CommandKeepsAccount'
    BY DEF CommandKeepsAccount
  <1>8. ActiveSettles'
    BY DEF ActiveSettles, HalfRemoved
  <1>9. QED
    BY <1>1, <1>2, <1>3, <1>4, <1>5, <1>6, <1>7, <1>8

\* The cleanup keeps the lease of every running command: its pid is alive, and
\* its start time is that of the process, or unknown.
LEMMA CleanupPreserves ==
  ASSUME IInv, NEW p \in Proc, Cleanup(p)
  PROVE  IInv'
  <1> USE JobFields, RoutingAssumption
      DEF IInv, TypeOK, GateExclusive, GatedSteps, JobAt, Op, Arg,
          Cleanup, Orphan, Alive, Goto, Exit, Proceed, store, memory
  <1>1. \A q \in Proc : pc[q] = "run" => OwnLease(q) \in leases /\ ~Orphan(OwnLease(q))
    BY DEF HasLease, KnowsItself, OwnLease
  <1>2. TypeOK'
    BY DEF Steps
  <1>3. GateExclusive'
    OBVIOUS
  <1>4. \A q \in Proc : JobAt(q)' /\ KnowsItself(q)'
    BY DEF KnowsItself
  <1>5. \A q \in Proc : CatalogCopy(q)' /\ CatalogWritten(q)' /\ StateCopy(q)'
    BY DEF CatalogCopy, CatalogWritten, StateCopy, HasDuplicate
  <1>6. \A q \in Proc : TargetIdle(q)'
    BY DEF TargetIdle
  <1>7. \A q \in Proc : HasLease(q)'
    BY <1>1 DEF HasLease, OwnLease
  <1>8. (CatalogBacked /\ AppsPresent /\ NoDuplicateUsers)'
    BY DEF CatalogBacked, AppsPresent, NoDuplicateUsers
  <1>9. CommandKeepsAccount'
    BY DEF CommandKeepsAccount
  <1>10. ActiveSettles'
    BY DEF ActiveSettles, HalfRemoved
  <1>11. QED
    BY <1>2, <1>3, <1>4, <1>5, <1>6, <1>7, <1>8, <1>9, <1>10

\* Past the check no command runs as the account: every running one has a lease,
\* and none can start while the gate is held.
LEMMA CheckIdlePreserves ==
  ASSUME IInv, NEW p \in Proc, CheckIdle(p)
  PROVE  IInv'
  <1> USE JobFields, RoutingAssumption
      DEF IInv, TypeOK, GateExclusive, GatedSteps, JobAt, Op, Arg,
          CheckIdle, Goto, Exit, Proceed, store, memory
  <1>1. \A q \in Proc : pc[q] \in {"lease", "run"} =>
            \/ Exit(p)
            \/ route[q].account # Arg(p)
    <2>1. CASE \E l \in leases : l.account = Arg(p)
      BY <2>1
    <2>2. ASSUME \A l \in leases : l.account # Arg(p),
                 NEW q \in Proc, pc[q] \in {"lease", "run"}
          PROVE  route[q].account # Arg(p)
      <3>1. pc[q] = "run"
        BY <2>2
      <3>2. OwnLease(q) \in leases /\ OwnLease(q).account = route[q].account
        BY <3>1 DEF HasLease, OwnLease
      <3> QED BY <2>2, <3>2
    <2> QED BY <2>1, <2>2
  <1>2. TypeOK'
    BY DEF Steps
  <1>3. GateExclusive'
    OBVIOUS
  <1>4. \A q \in Proc : JobAt(q)' /\ KnowsItself(q)'
    BY DEF KnowsItself
  <1>5. \A q \in Proc : CatalogCopy(q)' /\ CatalogWritten(q)' /\ StateCopy(q)'
    BY DEF CatalogCopy, CatalogWritten, StateCopy, HasDuplicate
  <1>6. \A q \in Proc : TargetIdle(q)'
    BY <1>1 DEF TargetIdle
  <1>7. \A q \in Proc : HasLease(q)'
    BY DEF HasLease, OwnLease
  <1>8. (CatalogBacked /\ AppsPresent /\ NoDuplicateUsers)'
    BY DEF CatalogBacked, AppsPresent, NoDuplicateUsers
  <1>9. CommandKeepsAccount'
    BY DEF CommandKeepsAccount
  <1>10. ActiveSettles'
    BY DEF ActiveSettles, HalfRemoved
  <1>11. QED
    BY <1>2, <1>3, <1>4, <1>5, <1>6, <1>7, <1>8, <1>9, <1>10

\* The copy of the catalog is the catalog, and the job is admissible.
LEMMA LoadCatalogPreserves ==
  ASSUME IInv, NEW p \in Proc, LoadCatalog(p)
  PROVE  IInv'
  <1> USE JobFields, RoutingAssumption
      DEF IInv, TypeOK, GateExclusive, GatedSteps, JobAt, Op, Arg,
          LoadCatalog, Admissible, AfterLoad, Goto, Exit, Proceed, store, memory
  <1>1. TypeOK'
    BY DEF Steps
  <1>2. GateExclusive'
    OBVIOUS
  <1>3. \A q \in Proc : JobAt(q)' /\ KnowsItself(q)'
    BY DEF KnowsItself
  <1>4. \A q \in Proc : CatalogCopy(q)' /\ CatalogWritten(q)' /\ StateCopy(q)'
    BY DEF CatalogCopy, CatalogWritten, StateCopy, HasDuplicate
  <1>5. \A q \in Proc : TargetIdle(q)' /\ HasLease(q)'
    BY DEF TargetIdle, HasLease, OwnLease
  <1>6. (CatalogBacked /\ AppsPresent /\ NoDuplicateUsers)'
    BY DEF CatalogBacked, AppsPresent, NoDuplicateUsers
  <1>7. CommandKeepsAccount'
    BY DEF CommandKeepsAccount
  <1>8. ActiveSettles'
    BY DEF ActiveSettles, HalfRemoved
  <1>9. QED
    BY <1>1, <1>2, <1>3, <1>4, <1>5, <1>6, <1>7, <1>8

\* The logout adds a directory at most.
LEMMA LogoutPreserves ==
  ASSUME IInv, NEW p \in Proc, Logout(p)
  PROVE  IInv'
  <1> USE JobFields, RoutingAssumption
      DEF IInv, TypeOK, GateExclusive, GatedSteps, JobAt, Op, Arg,
          Logout, Goto, Exit, Proceed, store, memory
  <1>1. TypeOK'
    BY DEF Steps
  <1>2. GateExclusive'
    OBVIOUS
  <1>3. \A q \in Proc : JobAt(q)' /\ KnowsItself(q)'
    BY DEF KnowsItself
  <1>4. \A q \in Proc : CatalogCopy(q)' /\ CatalogWritten(q)' /\ StateCopy(q)'
    BY DEF CatalogCopy, CatalogWritten, StateCopy, HasDuplicate
  <1>5. \A q \in Proc : TargetIdle(q)' /\ HasLease(q)'
    BY DEF TargetIdle, HasLease, OwnLease
  <1>6. (CatalogBacked /\ AppsPresent /\ NoDuplicateUsers)'
    BY DEF CatalogBacked, AppsPresent, NoDuplicateUsers
  <1>7. CommandKeepsAccount'
    BY DEF CommandKeepsAccount
  <1>8. ActiveSettles'
    BY DEF ActiveSettles, HalfRemoved
  <1>9. QED
    BY <1>1, <1>2, <1>3, <1>4, <1>5, <1>6, <1>7, <1>8

\* The directory of a new account or app is there before the catalog names it.
LEMMA MakeDirPreserves ==
  ASSUME IInv, NEW p \in Proc, MakeDir(p)
  PROVE  IInv'
  <1> USE JobFields, RoutingAssumption
      DEF IInv, TypeOK, GateExclusive, GatedSteps, JobAt, Op, Arg,
          MakeDir, Goto, Exit, Proceed, store, memory
  <1>1. TypeOK'
    BY DEF Steps
  <1>2. GateExclusive'
    OBVIOUS
  <1>3. \A q \in Proc : JobAt(q)' /\ KnowsItself(q)'
    BY DEF KnowsItself
  <1>4. \A q \in Proc : CatalogCopy(q)' /\ CatalogWritten(q)' /\ StateCopy(q)'
    BY DEF CatalogCopy, CatalogWritten, StateCopy, HasDuplicate
  <1>5. \A q \in Proc : TargetIdle(q)' /\ HasLease(q)'
    BY DEF TargetIdle, HasLease, OwnLease
  <1>6. (CatalogBacked /\ AppsPresent /\ NoDuplicateUsers)'
    BY DEF CatalogBacked, AppsPresent, NoDuplicateUsers
  <1>7. CommandKeepsAccount'
    BY DEF CommandKeepsAccount
  <1>8. ActiveSettles'
    BY DEF ActiveSettles, HalfRemoved
  <1>9. QED
    BY <1>1, <1>2, <1>3, <1>4, <1>5, <1>6, <1>7, <1>8

\* Writing the catalog: only the job's own change, which keeps every account
\* backed, with its app, unique, and under no running command when it goes.
LEMMA SaveCatalogPreserves ==
  ASSUME IInv, NEW p \in Proc, SaveCatalog(p)
  PROVE  IInv'
  <1> USE JobFields, RoutingAssumption
      DEF IInv, TypeOK, GateExclusive, GatedSteps, JobAt, Op, Arg,
          SaveCatalog, Edited, Goto, Exit, Proceed, store, memory
  <1>1. /\ cat' \in Catalog
        /\ Op(p) = "remove" =>
             cat'.accounts = cat.accounts \ {Arg(p)} /\ cat'.apps = cat.apps
        /\ Op(p) = "register" =>
             cat'.accounts = cat.accounts \cup {Arg(p)} /\ cat'.apps = cat.apps
        /\ Op(p) = "addApp" =>
             cat'.accounts = cat.accounts /\ cat'.apps = cat.apps \cup {Arg(p)}
        /\ Op(p) = "removeApp" =>
             cat'.accounts = cat.accounts /\ cat'.apps = cat.apps \ {Arg(p)}
        /\ Op(p) \in {"edit", "health"} =>
             cat'.accounts = cat.accounts /\ cat'.apps = cat.apps
    BY DEF CatalogCopy, Catalog
  <1> HIDE DEF Edited
  <1>2. TypeOK'
    BY <1>1 DEF Steps
  <1>3. GateExclusive'
    OBVIOUS
  <1>4. \A q \in Proc : JobAt(q)' /\ KnowsItself(q)'
    BY DEF KnowsItself
  <1>5. \A q \in Proc : CatalogCopy(q)' /\ StateCopy(q)'
    BY DEF CatalogCopy, StateCopy
  <1>6. \A q \in Proc : CatalogWritten(q)'
    BY <1>1 DEF CatalogWritten, CatalogCopy
  <1>7. \A q \in Proc : TargetIdle(q)' /\ HasLease(q)'
    BY DEF TargetIdle, HasLease, OwnLease
  <1>8. (CatalogBacked /\ AppsPresent /\ NoDuplicateUsers)'
    <2>1. CatalogBacked'
      BY <1>1 DEF CatalogBacked, CatalogCopy
    <2>2. AppsPresent'
      BY <1>1 DEF AppsPresent, CatalogCopy
    <2>3. NoDuplicateUsers'
      BY <1>1 DEF NoDuplicateUsers, CatalogCopy, HasDuplicate
    <2> QED BY <2>1, <2>2, <2>3
  <1>9. CommandKeepsAccount'
    BY <1>1 DEF CommandKeepsAccount, CatalogCopy, TargetIdle
  <1>10. ActiveSettles'
    BY <1>1 DEF ActiveSettles, HalfRemoved
  <1>11. QED
    BY <1>2, <1>3, <1>4, <1>5, <1>6, <1>7, <1>8, <1>9, <1>10

\* The directory that goes is one the catalog no longer names.
LEMMA RemoveDirPreserves ==
  ASSUME IInv, NEW p \in Proc, RemoveDir(p)
  PROVE  IInv'
  <1> USE JobFields, RoutingAssumption
      DEF IInv, TypeOK, GateExclusive, GatedSteps, JobAt, Op, Arg,
          RemoveDir, Goto, Exit, Proceed, store, memory
  <1>1. /\ Op(p) = "remove" => Arg(p) \in Account /\ Arg(p) \notin cat.accounts
        /\ Op(p) = "removeApp" => Arg(p) \in App /\ Arg(p) \notin cat.apps
        /\ cat.accounts \subseteq Account /\ cat.apps \subseteq App
    BY DEF CatalogWritten, Catalog
  <1>2. Arg(p) \notin cat.accounts \cup cat.apps
    BY <1>1
  <1>3. TypeOK'
    BY DEF Steps
  <1>4. GateExclusive'
    OBVIOUS
  <1>5. \A q \in Proc : JobAt(q)' /\ KnowsItself(q)'
    BY DEF KnowsItself
  <1>6. \A q \in Proc : CatalogCopy(q)' /\ CatalogWritten(q)' /\ StateCopy(q)'
    BY DEF CatalogCopy, CatalogWritten, StateCopy, HasDuplicate
  <1>7. \A q \in Proc : TargetIdle(q)' /\ HasLease(q)'
    BY DEF TargetIdle, HasLease, OwnLease
  <1>8. (CatalogBacked /\ AppsPresent /\ NoDuplicateUsers)'
    BY <1>2 DEF CatalogBacked, AppsPresent, NoDuplicateUsers
  <1>9. CommandKeepsAccount'
    BY <1>2 DEF CommandKeepsAccount
  <1>10. ActiveSettles'
    BY DEF ActiveSettles, HalfRemoved
  <1>11. QED
    BY <1>3, <1>4, <1>5, <1>6, <1>7, <1>8, <1>9, <1>10

\* The copy of the state is the state.
LEMMA LoadStatePreserves ==
  ASSUME IInv, NEW p \in Proc, LoadState(p)
  PROVE  IInv'
  <1> USE JobFields, RoutingAssumption
      DEF IInv, TypeOK, GateExclusive, GatedSteps, JobAt, Op, Arg,
          LoadState, MovesRoute, Goto, Exit, Proceed, store, memory
  <1>1. TypeOK'
    BY DEF Steps
  <1>2. GateExclusive'
    OBVIOUS
  <1>3. \A q \in Proc : JobAt(q)' /\ KnowsItself(q)'
    BY DEF KnowsItself
  <1>4. \A q \in Proc : CatalogCopy(q)' /\ CatalogWritten(q)' /\ StateCopy(q)'
    BY DEF CatalogCopy, CatalogWritten, StateCopy, HasDuplicate
  <1>5. \A q \in Proc : TargetIdle(q)' /\ HasLease(q)'
    BY DEF TargetIdle, HasLease, OwnLease
  <1>6. (CatalogBacked /\ AppsPresent /\ NoDuplicateUsers)'
    BY DEF CatalogBacked, AppsPresent, NoDuplicateUsers
  <1>7. CommandKeepsAccount'
    BY DEF CommandKeepsAccount
  <1>8. ActiveSettles'
    BY DEF ActiveSettles, HalfRemoved
  <1>9. QED
    BY <1>1, <1>2, <1>3, <1>4, <1>5, <1>6, <1>7, <1>8

\* Writing the state: the new active account is in the catalog.
LEMMA SaveStatePreserves ==
  ASSUME IInv, NEW p \in Proc, SaveState(p)
  PROVE  IInv'
  <1> USE JobFields, RoutingAssumption
      DEF IInv, TypeOK, GateExclusive, GatedSteps, JobAt, Op, Arg,
          SaveState, Heirs, Edited, MovedState, NextGen, Goto, Exit, Proceed, store, memory
  <1>1. /\ st' \in ActiveState
        /\ Op(p) \in {"switch", "register"} => st'.active = Arg(p)
        /\ Op(p) = "remove" => st'.active \in cat.accounts \cup {None}
        /\ Op(p) = "activate" => st'.active = st.active
    <2>1. was[p] = st /\ st \in ActiveState /\ NextGen(st.gen) \in 0..GenMax
      BY DEF StateCopy, ActiveState
    <2> HIDE DEF NextGen
    <2>2. Op(p) = "remove" => Heirs(p) \subseteq cat.accounts \cup {None}
      BY DEF CatalogWritten
    <2>3. cat.accounts \subseteq Account
      BY DEF Catalog
    <2> HIDE DEF Heirs, Edited
    <2> QED BY <2>1, <2>2, <2>3 DEF ActiveState
  <1> HIDE DEF Heirs, Edited, MovedState, NextGen
  <1>2. TypeOK'
    BY <1>1 DEF Steps
  <1>3. GateExclusive'
    OBVIOUS
  <1>4. \A q \in Proc : JobAt(q)' /\ KnowsItself(q)'
    BY DEF KnowsItself
  <1>5. \A q \in Proc : CatalogCopy(q)' /\ CatalogWritten(q)' /\ StateCopy(q)'
    BY DEF CatalogCopy, CatalogWritten, StateCopy, HasDuplicate
  <1>6. \A q \in Proc : TargetIdle(q)' /\ HasLease(q)'
    BY DEF TargetIdle, HasLease, OwnLease
  <1>7. (CatalogBacked /\ AppsPresent /\ NoDuplicateUsers)'
    BY DEF CatalogBacked, AppsPresent, NoDuplicateUsers
  <1>8. CommandKeepsAccount'
    BY DEF CommandKeepsAccount
  <1>9. ActiveSettles'
    BY <1>1 DEF ActiveSettles, HalfRemoved, CatalogWritten
  <1>10. QED
    BY <1>2, <1>3, <1>4, <1>5, <1>6, <1>7, <1>8, <1>9

\* The unlocked read of the health check changes nothing.
LEMMA ProbePreserves ==
  ASSUME IInv, NEW p \in Proc, Probe(p)
  PROVE  IInv'
  <1> USE JobFields, RoutingAssumption
      DEF IInv, TypeOK, GateExclusive, GatedSteps, JobAt, Op, Arg,
          Probe, Goto, Exit, Proceed, store, memory
  <1>1. TypeOK'
    BY DEF Steps
  <1>2. GateExclusive'
    OBVIOUS
  <1>3. \A q \in Proc : JobAt(q)' /\ KnowsItself(q)'
    BY DEF KnowsItself
  <1>4. \A q \in Proc : CatalogCopy(q)' /\ CatalogWritten(q)' /\ StateCopy(q)'
    BY DEF CatalogCopy, CatalogWritten, StateCopy, HasDuplicate
  <1>5. \A q \in Proc : TargetIdle(q)' /\ HasLease(q)'
    BY DEF TargetIdle, HasLease, OwnLease
  <1>6. (CatalogBacked /\ AppsPresent /\ NoDuplicateUsers)'
    BY DEF CatalogBacked, AppsPresent, NoDuplicateUsers
  <1>7. CommandKeepsAccount'
    BY DEF CommandKeepsAccount
  <1>8. ActiveSettles'
    BY DEF ActiveSettles, HalfRemoved
  <1>9. QED
    BY <1>1, <1>2, <1>3, <1>4, <1>5, <1>6, <1>7, <1>8

\* The health check's CLI run adds a directory at most.
LEMMA RunCliPreserves ==
  ASSUME IInv, NEW p \in Proc, RunCli(p)
  PROVE  IInv'
  <1> USE JobFields, RoutingAssumption
      DEF IInv, TypeOK, GateExclusive, GatedSteps, JobAt, Op, Arg,
          RunCli, Goto, Exit, Proceed, store, memory
  <1>1. TypeOK'
    BY DEF Steps
  <1>2. GateExclusive'
    OBVIOUS
  <1>3. \A q \in Proc : JobAt(q)' /\ KnowsItself(q)'
    BY DEF KnowsItself
  <1>4. \A q \in Proc : CatalogCopy(q)' /\ CatalogWritten(q)' /\ StateCopy(q)'
    BY DEF CatalogCopy, CatalogWritten, StateCopy, HasDuplicate
  <1>5. \A q \in Proc : TargetIdle(q)' /\ HasLease(q)'
    BY DEF TargetIdle, HasLease, OwnLease
  <1>6. (CatalogBacked /\ AppsPresent /\ NoDuplicateUsers)'
    BY DEF CatalogBacked, AppsPresent, NoDuplicateUsers
  <1>7. CommandKeepsAccount'
    BY DEF CommandKeepsAccount
  <1>8. ActiveSettles'
    BY DEF ActiveSettles, HalfRemoved
  <1>9. QED
    BY <1>1, <1>2, <1>3, <1>4, <1>5, <1>6, <1>7, <1>8

\* A process that dies leaves the files as they are; the removal it may have cut
\* short is remembered.
LEMMA CrashPreserves ==
  ASSUME IInv, NEW p \in Proc, Crash(p)
  PROVE  IInv'
  <1> USE JobFields, RoutingAssumption
      DEF IInv, TypeOK, GateExclusive, GatedSteps, JobAt, Op, Arg,
          Crash, Alive, Goto, Exit, Proceed, store, memory
  <1>1. TypeOK'
    BY DEF Steps, HalfRemoved
  <1>2. GateExclusive'
    OBVIOUS
  <1>3. \A q \in Proc : JobAt(q)' /\ KnowsItself(q)'
    BY DEF KnowsItself
  <1>4. \A q \in Proc : CatalogCopy(q)' /\ CatalogWritten(q)' /\ StateCopy(q)'
    BY DEF CatalogCopy, CatalogWritten, StateCopy, HasDuplicate
  <1>5. \A q \in Proc : TargetIdle(q)' /\ HasLease(q)'
    BY DEF TargetIdle, HasLease, OwnLease
  <1>6. (CatalogBacked /\ AppsPresent /\ NoDuplicateUsers)'
    BY DEF CatalogBacked, AppsPresent, NoDuplicateUsers
  <1>7. CommandKeepsAccount'
    BY DEF CommandKeepsAccount
  <1>8. ActiveSettles'
    BY DEF ActiveSettles, HalfRemoved
  <1>9. QED
    BY <1>1, <1>2, <1>3, <1>4, <1>5, <1>6, <1>7, <1>8


\* Every step of every process keeps the invariant.
LEMMA NextPreserves ==
  ASSUME IInv, Next
  PROVE  IInv'
  <1>1. PICK p \in Proc :
           \/ \E j \in Job : Start(p, j)
           \/ Work(p)
           \/ LockTimeout(p)
           \/ Finish(p)
           \/ Crash(p)
    BY DEF Next
  <1>2. ASSUME Work(p) PROVE IInv'
    BY <1>2, LockPreserves, SnapshotPreserves, WriteLeasePreserves, CleanupPreserves,
       CheckIdlePreserves, LoadCatalogPreserves, LogoutPreserves, MakeDirPreserves,
       SaveCatalogPreserves, RemoveDirPreserves, LoadStatePreserves,
       SaveStatePreserves, ProbePreserves, RunCliPreserves
    DEF Work
  <1>3. QED
    BY <1>1, <1>2, StartPreserves, LockTimeoutPreserves, FinishPreserves, CrashPreserves

\* So does a step that changes nothing.
LEMMA StutterPreserves ==
  ASSUME IInv, UNCHANGED vars
  PROVE  IInv'
  BY DEF IInv, vars, TypeOK, GateExclusive, JobAt, KnowsItself, CatalogCopy,
         CatalogWritten, StateCopy, TargetIdle, HasLease, OwnLease, CatalogBacked,
         AppsPresent, NoDuplicateUsers, HasDuplicate, CommandKeepsAccount,
         ActiveSettles, HalfRemoved, Op, Arg

\* The invariant holds in every reachable state.
THEOREM Inductive == Spec => []IInv
  <1>1. IInv /\ [Next]_vars => IInv'
    BY NextPreserves, StutterPreserves
  <1> QED
    BY InitInv, <1>1, PTL DEF Spec
(***************************************************************************)
(* What follows from the invariant.                                        *)
(***************************************************************************)

\* Types: every file keeps its shape, every process its memory.
THEOREM TypeCorrect == Spec => []TypeOK
  BY Inductive, PTL DEF IInv

\* No two processes are in the critical section of the routing gate
\* (locking.rs, RoutingGuard): the one that is, holds the gate.
THEOREM GateIsExclusive == Spec => []GateExclusive
  BY Inductive, PTL DEF IInv

\* An account is never removed under a command that runs as it, whatever the
\* interleaving of snapshots, leases, cleanups, removals and crashes.
THEOREM CommandsKeepTheirAccount == Spec => []CommandKeepsAccount
  BY Inductive, PTL DEF IInv

\* The catalog only names accounts and apps whose directory exists, also when
\* a registration or a removal dies half-way.
THEOREM CatalogIsBacked == Spec => []CatalogBacked
  BY Inductive, PTL DEF IInv

\* The catalog never has an account without its app.
THEOREM AppsStayPresent == Spec => []AppsPresent
  BY Inductive, PTL DEF IInv

\* Two logins of one user to one app never both register.
THEOREM UsersAreUnique == Spec => []NoDuplicateUsers
  BY Inductive, PTL DEF IInv

\* With the gate free, the active account is in the catalog, or its removal
\* was cut short by a crash.
THEOREM ActiveIsKnown == Spec => []ActiveKnown
  <1>1. IInv => ActiveKnown
    BY RoutingAssumption
    DEF IInv, GateExclusive, GatedSteps, ActiveSettles, HalfRemoved, ActiveKnown
  <1> QED
    BY Inductive, <1>1, PTL

\* The route never changes without a new generation, and generations never go
\* down: no writer of active-state.json works from a stale copy.
THEOREM RouteIsStamped == Spec => RouteChangesStamped
  <1>1. IInv /\ [Next]_vars =>
          [st'.gen > st.gen \/ (st'.gen = st.gen /\ st.gen = GenMax)]_st
    <2> SUFFICES ASSUME IInv, [Next]_vars, st' # st
                 PROVE  st'.gen > st.gen \/ (st'.gen = st.gen /\ st.gen = GenMax)
      OBVIOUS
    <2>1. PICK p \in Proc : SaveState(p)
      BY DEF vars, store, Next, Work, Start, Lock, LockTimeout, Snapshot, WriteLease,
             Finish, Cleanup, CheckIdle, LoadCatalog, Logout, MakeDir, SaveCatalog,
             RemoveDir, LoadState, Probe, RunCli, Crash
    <2>2. st'.gen = NextGen(st.gen)
      BY <2>1 DEF IInv, StateCopy, SaveState, MovedState
    <2>3. st.gen \in 0..GenMax /\ GenMax \in Nat
      BY RoutingAssumption DEF IInv, TypeOK, ActiveState
    <2> QED
      BY <2>2, <2>3 DEF NextGen
  <1> QED
    BY Inductive, <1>1, PTL DEF Spec, RouteChangesStamped

\* An account leaves the catalog only through its own removal: no writer of
\* catalog.json works from a stale copy.
THEOREM AccountsAreNotLost == Spec => NoLostAccounts
  <1> DEFINE Lost == \A a \in cat.accounts \ cat'.accounts :
                \E p \in Proc : gate = p /\ job[p] = [op |-> "remove", arg |-> a]
  <1>1. IInv /\ [Next]_vars => [Lost]_cat
    <2> SUFFICES ASSUME IInv, [Next]_vars, cat' # cat
                 PROVE  Lost
      OBVIOUS
    <2>1. PICK p \in Proc : SaveCatalog(p)
      BY DEF vars, store, Next, Work, Start, Lock, LockTimeout, Snapshot, WriteLease,
             Finish, Cleanup, CheckIdle, LoadCatalog, Logout, MakeDir, RemoveDir,
             LoadState, SaveState, Probe, RunCli, Crash
    <2>2. copy[p] = cat /\ gate = p /\ job[p] \in Job
      BY <2>1 DEF IInv, CatalogCopy, SaveCatalog, GateExclusive, GatedSteps, JobAt
    <2>3. ASSUME NEW a \in cat.accounts \ cat'.accounts
          PROVE  Op(p) = "remove" /\ a = Arg(p)
      BY <2>1, <2>2, <2>3 DEF SaveCatalog, Edited
    <2>4. Op(p) = "remove" => job[p] = [op |-> "remove", arg |-> Arg(p)]
      BY <2>2 DEF Job, Op, Arg
    <2> QED
      BY <2>2, <2>3, <2>4
  <1> QED
    BY Inductive, <1>1, PTL DEF Spec, NoLostAccounts

-----------------------------------------------------------------------------
(***************************************************************************)
(* Routing implements RouteRegister: spread over a lock, four files and    *)
(* processes that die anywhere, each operation still takes effect at one   *)
(* instant.  For any number of processes, accounts and apps.               *)
(*                                                                         *)
(* The instants are: Snapshot for a command that starts, Finish or Crash   *)
(* for one that ends, SaveState for a switch, an activation, and for a     *)
(* removal or a registration that moves the route, LoadState for one that  *)
(* does not, and Crash for one that dies after it wrote the catalog.       *)
(***************************************************************************)

\* What the settled accounts are: the catalog's, but for the one whose removal
\* or registration has written the catalog and is not over.
SettledShape ==
  /\ (\A p \in Proc : ~HalfRemoved(p) /\ ~HalfRegistered(p)) =>
       SettledAccounts = cat.accounts
  /\ \A p \in Proc : HalfRemoved(p) =>
       /\ SettledAccounts = cat.accounts \cup {Arg(p)}
       /\ Arg(p) \in Account /\ Arg(p) \notin cat.accounts
  /\ \A p \in Proc : HalfRegistered(p) =>
       /\ SettledAccounts = cat.accounts \ {Arg(p)}
       /\ Arg(p) \in Account /\ Arg(p) \in cat.accounts

\* At most one operation is half-way: it holds the gate.
LEMMA Settled == IInv => SettledShape
  <1> SUFFICES ASSUME IInv PROVE SettledShape
    OBVIOUS
  <1>1. /\ cat.accounts \subseteq Account
        /\ \A p, q \in Proc : pc[p] \in GatedSteps /\ pc[q] \in GatedSteps => p = q
        /\ \A p \in Proc : HalfRemoved(p) \/ HalfRegistered(p) =>
             pc[p] \in GatedSteps /\ Arg(p) \in Account
        /\ \A p \in Proc : ~(HalfRemoved(p) /\ HalfRegistered(p))
    BY JobFields
    DEF IInv, TypeOK, Catalog, GateExclusive, GatedSteps, JobAt, HalfRemoved,
        HalfRegistered, Op, Arg
  <1>2. \A p \in Proc : /\ HalfRemoved(p) => Arg(p) \notin cat.accounts
                        /\ HalfRegistered(p) => Arg(p) \in cat.accounts
    BY DEF IInv, CatalogWritten, HalfRemoved, HalfRegistered
  <1> HIDE DEF IInv
  <1>3. ASSUME \A p \in Proc : ~HalfRemoved(p) /\ ~HalfRegistered(p)
        PROVE  SettledAccounts = cat.accounts
    BY <1>1, <1>3 DEF SettledAccounts
  <1>4. ASSUME NEW p \in Proc, HalfRemoved(p)
        PROVE  SettledAccounts = cat.accounts \cup {Arg(p)}
    BY <1>1, <1>2, <1>4 DEF SettledAccounts
  <1>5. ASSUME NEW p \in Proc, HalfRegistered(p)
        PROVE  SettledAccounts = cat.accounts \ {Arg(p)}
    BY <1>1, <1>2, <1>5 DEF SettledAccounts
  <1> QED
    BY <1>1, <1>2, <1>3, <1>4, <1>5 DEF SettledShape

\* The initial states map to initial states of the register.
LEMMA RefinesInit == Init => Register!Init
  <1> SUFFICES ASSUME Init PROVE Register!Init
    OBVIOUS
  <1>1. SettledAccounts = cat.accounts
    BY DEF Init, SettledAccounts, HalfRemoved, HalfRegistered, Catalog
  <1> QED
    BY <1>1 DEF Init, Register!Init, Catalog, ActiveState

\* Steps on the way to the gate, or under it, that the register does not see.
LEMMA QuietSteps ==
  ASSUME IInv, NEW p \in Proc,
         \/ \E j \in Job : Start(p, j)
         \/ Lock(p) \/ LockTimeout(p) \/ WriteLease(p) \/ Cleanup(p) \/ CheckIdle(p)
         \/ LoadCatalog(p) \/ Logout(p) \/ MakeDir(p) \/ Probe(p) \/ RunCli(p)
         \/ RemoveDir(p)
  PROVE  UNCHANGED Register!vars
  <1> USE DEF IInv, TypeOK, JobAt, Goto, Exit, Proceed, store, memory
  <1>1. cat' = cat /\ st' = st /\ route' = route
    BY DEF Start, Lock, LockTimeout, WriteLease, Cleanup, CheckIdle, LoadCatalog,
           Logout, MakeDir, Probe, RunCli, RemoveDir
  <1>2. \A q \in Proc : /\ HalfRemoved(q)' <=> HalfRemoved(q)
                        /\ HalfRegistered(q)' <=> HalfRegistered(q)
                        /\ HalfRemoved(q) \/ HalfRegistered(q) => Arg(q)' = Arg(q)
    BY DEF Start, Lock, LockTimeout, WriteLease, Cleanup, CheckIdle,
           LoadCatalog, AfterLoad, Logout, MakeDir, Probe, RunCli, RemoveDir,
           HalfRemoved, HalfRegistered, Op, Arg
  <1>3. SettledAccounts' = SettledAccounts
    BY <1>1, <1>2 DEF SettledAccounts
  <1> QED
    BY <1>1, <1>3 DEF Register!vars

\* A command starts when it captures its route.
LEMMA SnapshotRefines ==
  ASSUME IInv, SettledShape, NEW p \in Proc, Snapshot(p)
  PROVE  [Register!Next]_Register!vars
  <1> USE DEF IInv, TypeOK, JobAt, GateExclusive, GatedSteps, Goto, Exit, store, memory
  <1>1. /\ cat' = cat /\ st' = st
        /\ \A q \in Proc : ~HalfRemoved(q) /\ ~HalfRegistered(q)
        /\ \A q \in Proc : ~HalfRemoved(q)' /\ ~HalfRegistered(q)'
    BY DEF Snapshot, HalfRemoved, HalfRegistered, Op
  <1>2. SettledAccounts = cat.accounts /\ SettledAccounts' = SettledAccounts
    BY <1>1 DEF SettledShape, SettledAccounts
  <1>3. CASE Exit(p) /\ pc[p] = "locked"
    BY <1>1, <1>2, <1>3 DEF Register!vars
  <1>4. CASE ~Exit(p)
    <2>1. /\ Wanted(p) \in SettledAccounts /\ st.cli # None /\ route[p] = None
          /\ route' = [route EXCEPT ![p] =
                          [account |-> Wanted(p), cli |-> st.cli, gen |-> st.gen]]
      BY <1>2, <1>4 DEF Snapshot
    <2>2. SettledAccounts \subseteq Account
      BY <1>2 DEF Catalog
    <2>3. Register!Run(p, Wanted(p))
      BY <1>1, <1>2, <2>1 DEF Register!Run
    <2> QED
      BY <2>1, <2>2, <2>3 DEF Register!Next
  <1> QED
    BY <1>3, <1>4 DEF Snapshot

\* It ends when its process releases the lease.
LEMMA FinishRefines ==
  ASSUME IInv, NEW p \in Proc, Finish(p)
  PROVE  [Register!Next]_Register!vars
  <1> USE DEF IInv, TypeOK, JobAt, Goto, Exit, store, memory
  <1>1. cat' = cat /\ st' = st /\ route' = [route EXCEPT ![p] = None]
    BY DEF Finish
  <1>2. \A q \in Proc : /\ HalfRemoved(q)' <=> HalfRemoved(q)
                        /\ HalfRegistered(q)' <=> HalfRegistered(q)
                        /\ HalfRemoved(q) \/ HalfRegistered(q) => Arg(q)' = Arg(q)
    BY DEF Finish, HalfRemoved, HalfRegistered, Op, Arg
  <1>3. SettledAccounts' = SettledAccounts
    BY <1>1, <1>2 DEF SettledAccounts
  <1>4. route[p] # None
    BY RoutingAssumption DEF Finish
  <1> QED
    BY <1>1, <1>3, <1>4 DEF Register!Stop, Register!Next

\* The catalog is written before the operation counts as done.
LEMMA SaveCatalogRefines ==
  ASSUME IInv, SettledShape, SettledShape', NEW p \in Proc, SaveCatalog(p)
  PROVE  UNCHANGED Register!vars
  <1> USE DEF IInv, TypeOK, JobAt, GateExclusive, GatedSteps, Goto, Exit, Proceed,
              store, memory
  <1>1. /\ st' = st /\ route' = route
        /\ \A q \in Proc : ~HalfRemoved(q) /\ ~HalfRegistered(q)
        /\ HalfRemoved(p)' <=> Op(p) = "remove"
        /\ HalfRegistered(p)' <=> Op(p) = "register"
        /\ \A q \in Proc \ {p} : ~HalfRemoved(q)' /\ ~HalfRegistered(q)'
        /\ Op(p) \in {"remove", "register"} => Arg(p)' = Arg(p)
    BY DEF SaveCatalog, HalfRemoved, HalfRegistered, Op, Arg
  <1>2. /\ Op(p) = "remove" =>
             cat'.accounts = cat.accounts \ {Arg(p)} /\ Arg(p) \in cat.accounts
        /\ Op(p) = "register" =>
             cat'.accounts = cat.accounts \cup {Arg(p)} /\ Arg(p) \notin cat.accounts
        /\ Op(p) \notin {"remove", "register"} => cat'.accounts = cat.accounts
    BY DEF SaveCatalog, Edited, CatalogCopy, HasDuplicate
  <1>3. SettledAccounts = cat.accounts
    BY <1>1 DEF SettledShape
  <1>4. SettledAccounts' = SettledAccounts
    <2>1. CASE Op(p) = "remove"
      <3>1. SettledAccounts' = cat'.accounts \cup {Arg(p)}
        BY <1>1, <2>1 DEF SettledShape
      <3> QED
        BY <1>2, <1>3, <2>1, <3>1
    <2>2. CASE Op(p) = "register"
      <3>1. SettledAccounts' = cat'.accounts \ {Arg(p)}
        BY <1>1, <2>2 DEF SettledShape
      <3> QED
        BY <1>2, <1>3, <2>2, <3>1
    <2>3. CASE Op(p) \notin {"remove", "register"}
      <3>1. SettledAccounts' = cat'.accounts
        BY <1>1, <2>3 DEF SettledShape
      <3> QED
        BY <1>2, <1>3, <2>3, <3>1
    <2> QED
      BY <2>1, <2>2, <2>3
  <1> QED
    BY <1>1, <1>4 DEF Register!vars

\* A removal or a registration that leaves the route alone is over when it has
\* looked at the state.
LEMMA LoadStateRefines ==
  ASSUME IInv, SettledShape, SettledShape', NEW p \in Proc, LoadState(p)
  PROVE  [Register!Next]_Register!vars
  <1> USE DEF IInv, TypeOK, JobAt, GateExclusive, GatedSteps, Goto, Exit, store, memory
  <1>1. /\ cat' = cat /\ st' = st /\ route' = route
        /\ \A q \in Proc \ {p} : ~HalfRemoved(q) /\ ~HalfRegistered(q)
        /\ \A q \in Proc \ {p} : ~HalfRemoved(q)' /\ ~HalfRegistered(q)'
    BY DEF LoadState, HalfRemoved, HalfRegistered, Op
  <1>2. CASE MovesRoute(p, st)
    <2>1. /\ HalfRemoved(p)' <=> HalfRemoved(p)
          /\ HalfRegistered(p)' <=> HalfRegistered(p)
          /\ Arg(p)' = Arg(p)
      BY <1>2 DEF LoadState, HalfRemoved, HalfRegistered, Op, Arg
    <2>2. SettledAccounts' = SettledAccounts
      BY <1>1, <2>1 DEF SettledShape
    <2> QED
      BY <1>1, <2>2 DEF Register!vars
  <1>3. CASE ~MovesRoute(p, st)
    <2>1. /\ HalfRemoved(p) \/ HalfRegistered(p)
          /\ ~(HalfRemoved(p) /\ HalfRegistered(p))
          /\ SettledAccounts' = cat.accounts
      BY <1>1, <1>3
      DEF LoadState, MovesRoute, HalfRemoved, HalfRegistered, Op, SettledShape
    <2>2. CASE HalfRemoved(p)
      <3>1. \A q \in Proc : route[q] # None => route[q].account # Arg(p)
        BY <2>2 DEF TargetIdle, HalfRemoved
      <3>2. Register!Remove(Arg(p)) /\ Arg(p) \in Account
        BY <1>1, <2>1, <2>2, <3>1 DEF SettledShape, Register!Remove
      <3> QED
        BY <3>2 DEF Register!Next
    <2>3. CASE HalfRegistered(p)
      <3>1. Register!Add(Arg(p)) /\ Arg(p) \in Account
        BY <1>1, <2>1, <2>3 DEF SettledShape, Register!Add
      <3> QED
        BY <3>1 DEF Register!Next
    <2> QED
      BY <2>1, <2>2, <2>3
  <1> QED
    BY <1>2, <1>3

\* An operation that moves the route takes effect when the state is written.
LEMMA SaveStateRefines ==
  ASSUME IInv, SettledShape, SettledShape', NEW p \in Proc, SaveState(p)
  PROVE  Register!Next
  <1> USE DEF IInv, TypeOK, JobAt, GateExclusive, GatedSteps, Goto, Exit, store, memory
  <1>1. /\ cat' = cat /\ route' = route /\ was[p] = st
        /\ \A q \in Proc \ {p} : ~HalfRemoved(q) /\ ~HalfRegistered(q)
        /\ \A q \in Proc : ~HalfRemoved(q)' /\ ~HalfRegistered(q)'
        /\ HalfRemoved(p) <=> Op(p) = "remove"
        /\ HalfRegistered(p) <=> Op(p) = "register"
        /\ Op(p) \in {"switch", "register", "remove", "activate"}
    BY DEF SaveState, HalfRemoved, HalfRegistered, Op, StateCopy
  <1>2. SettledAccounts' = cat.accounts
    BY <1>1 DEF SettledShape
  <1>3. st'.gen = (IF st.gen < GenMax THEN st.gen + 1 ELSE GenMax)
    BY <1>1 DEF SaveState, MovedState, NextGen
  <1>4. CASE Op(p) = "switch"
    <2>1. SettledAccounts = cat.accounts /\ Arg(p) \in cat.accounts
      BY <1>1, <1>4 DEF SettledShape, CatalogWritten, SaveState
    <2>2. st'.active = Arg(p) /\ st'.cli = st.cli
      BY <1>1, <1>4 DEF SaveState, MovedState
    <2>3. Register!Switch(Arg(p)) /\ Arg(p) \in Account
      BY <1>1, <1>2, <1>3, <2>1, <2>2 DEF Register!Switch, Register!Bump, Catalog
    <2> QED
      BY <2>3 DEF Register!Next
  <1>5. CASE Op(p) = "activate"
    <2>1. SettledAccounts = cat.accounts /\ Arg(p) \in Cli
      BY <1>1, <1>5, JobFields DEF SettledShape, SaveState, Op, Arg
    <2>2. st'.active = st.active /\ st'.cli = Arg(p)
      BY <1>1, <1>5 DEF SaveState, MovedState
    <2>3. Register!Activate(Arg(p))
      BY <1>1, <1>2, <1>3, <2>1, <2>2 DEF Register!Activate, Register!Bump
    <2> QED
      BY <2>1, <2>3 DEF Register!Next
  <1>6. CASE Op(p) = "register"
    <2>1. /\ SettledAccounts = cat.accounts \ {Arg(p)}
          /\ Arg(p) \in Account /\ Arg(p) \in cat.accounts /\ st.active = None
      BY <1>1, <1>6 DEF SettledShape, StateCopy, SaveState
    <2>2. st'.active = Arg(p) /\ st'.cli = st.cli
      BY <1>1, <1>6 DEF SaveState, MovedState
    <2>3. Register!Add(Arg(p))
      BY <1>1, <1>2, <1>3, <2>1, <2>2 DEF Register!Add, Register!Bump
    <2> QED
      BY <2>1, <2>3 DEF Register!Next
  <1>7. CASE Op(p) = "remove"
    <2>1. /\ SettledAccounts = cat.accounts \cup {Arg(p)}
          /\ Arg(p) \in Account /\ Arg(p) \notin cat.accounts /\ st.active = Arg(p)
      BY <1>1, <1>7 DEF SettledShape, StateCopy, SaveState
    <2>2. /\ st'.active \in IF cat.accounts = {} THEN {None} ELSE cat.accounts
          /\ st'.cli = st.cli
      <3>1. Edited(p).accounts = cat.accounts
        BY <1>1, <1>7 DEF CatalogWritten, SaveState, Edited
      <3> QED
        BY <1>1, <1>7, <3>1 DEF SaveState, MovedState, Heirs
    <2>3. \A q \in Proc : route[q] # None => route[q].account # Arg(p)
      BY <1>7 DEF TargetIdle, SaveState
    <2>4. Register!Remove(Arg(p))
      BY <1>1, <1>2, <1>3, <2>1, <2>2, <2>3 DEF Register!Remove, Register!Bump
    <2> QED
      BY <2>1, <2>4 DEF Register!Next
  <1> QED
    BY <1>1, <1>4, <1>5, <1>6, <1>7

\* A process that dies half-way leaves what it has written of the catalog, and
\* the route as it was; a command that dies is over.
LEMMA CrashRefines ==
  ASSUME IInv, SettledShape, SettledShape', NEW p \in Proc, Crash(p)
  PROVE  [Register!Next]_Register!vars
  <1> USE DEF IInv, TypeOK, JobAt, GateExclusive, GatedSteps, Goto, Exit, store, memory
  <1>1. /\ cat' = cat /\ st' = st /\ route' = [route EXCEPT ![p] = None]
        /\ ~HalfRemoved(p)' /\ ~HalfRegistered(p)'
        /\ \A q \in Proc \ {p} : /\ HalfRemoved(q)' <=> HalfRemoved(q)
                                 /\ HalfRegistered(q)' <=> HalfRegistered(q)
                                 /\ Arg(q)' = Arg(q)
    BY DEF Crash, HalfRemoved, HalfRegistered, Op, Arg
  <1>2. CASE HalfRemoved(p) \/ HalfRegistered(p)
    <2>1. /\ \A q \in Proc \ {p} : ~HalfRemoved(q) /\ ~HalfRegistered(q)
          /\ ~(HalfRemoved(p) /\ HalfRegistered(p))
          /\ route[p] = None
      BY <1>2 DEF HalfRemoved, HalfRegistered, Op
    <2>2. SettledAccounts' = cat.accounts /\ route' = route
      BY <1>1, <2>1 DEF SettledShape
    <2>3. CASE HalfRemoved(p)
      <3>1. \A q \in Proc : route[q] # None => route[q].account # Arg(p)
        BY <2>3 DEF TargetIdle, HalfRemoved
      <3>2. Register!Remove(Arg(p)) /\ Arg(p) \in Account
        BY <1>1, <2>2, <2>3, <3>1 DEF SettledShape, Register!Remove
      <3> QED
        BY <3>2 DEF Register!Next
    <2>4. CASE HalfRegistered(p)
      <3>1. Register!Add(Arg(p)) /\ Arg(p) \in Account
        BY <1>1, <2>2, <2>4 DEF SettledShape, Register!Add
      <3> QED
        BY <3>1 DEF Register!Next
    <2> QED
      BY <1>2, <2>3, <2>4
  <1>3. CASE ~HalfRemoved(p) /\ ~HalfRegistered(p)
    <2>1. SettledAccounts' = SettledAccounts
      BY <1>1, <1>3 DEF SettledAccounts
    <2>2. CASE route[p] = None
      BY <1>1, <2>1, <2>2 DEF Register!vars
    <2>3. CASE route[p] # None
      BY <1>1, <2>1, <2>3 DEF Register!Stop, Register!Next
    <2> QED
      BY <2>2, <2>3
  <1> QED
    BY <1>2, <1>3

\* Every step maps to a step of the register, or to none.
LEMMA RefinesNext ==
  ASSUME IInv, SettledShape, SettledShape', [Next]_vars
  PROVE  [Register!Next]_Register!vars
  <1>1. CASE UNCHANGED vars
    BY <1>1
    DEF vars, Register!vars, SettledAccounts, HalfRemoved, HalfRegistered, Op, Arg
  <1>2. CASE Next
    <2>1. PICK p \in Proc :
             \/ \E j \in Job : Start(p, j)
             \/ Work(p)
             \/ LockTimeout(p)
             \/ Finish(p)
             \/ Crash(p)
      BY <1>2 DEF Next
    <2>2. CASE Work(p)
      BY <2>2, QuietSteps, SnapshotRefines, SaveCatalogRefines, LoadStateRefines,
         SaveStateRefines
      DEF Work
    <2> QED
      BY <2>1, <2>2, QuietSteps, FinishRefines, CrashRefines
  <1> QED
    BY <1>1, <1>2

\* The shared files behave as an atomic register of accounts and route
\* (docs/ARCHITECTURE.md, "Routing linearization").
THEOREM RoutingImplementsRegister == Spec => ImplementsRegister
  <1>1. IInv /\ IInv' /\ [Next]_vars => [Register!Next]_Register!vars
    <2>1. IInv' => SettledShape'
      BY Settled, PTL
    <2> QED
      BY <2>1, Settled, RefinesNext
  <1> QED
    BY Inductive, RefinesInit, <1>1, PTL DEF Spec, ImplementsRegister, Register!Spec

(***************************************************************************)
(* That every job ends is beyond the prover; that none goes round in a     *)
(* circle, or waits with the gate, is not.                                 *)
(***************************************************************************)

\* The steps a process still has before it, at most: a health check of an account is
\* the longest job outside the gate, a removal the longest under it.
Left == [off |-> 0, run |-> 1, savest |-> 1, loadst |-> 2, lease |-> 2, rmdir |-> 3,
         savecat |-> 4, logout |-> 5, mkdir |-> 5, load |-> 6, idle |-> 7,
         locked |-> 8, lock |-> 9, cli |-> 10, probe |-> 11]

\* A process that takes a step has fewer of them left, and nobody else is moved.
Advances(p) ==
  /\ Left[pc'[p]] < Left[pc[p]]
  /\ \A q \in Proc \ {p} : pc'[q] = pc[q]

LEMMA GoesOn ==
  ASSUME TypeOK, NEW p \in Proc, NEW step, Goto(p, step), Left[step] < Left[pc[p]]
  PROVE  Advances(p)
  BY DEF TypeOK, Goto, Advances

LEMMA Ends ==
  ASSUME TypeOK, NEW p \in Proc, Exit(p), Alive(p)
  PROVE  Advances(p)
  <1>1. Goto(p, "off") /\ pc[p] \in Steps \ {"off"}
    BY DEF Exit, Alive, TypeOK
  <1>2. Left["off"] < Left[pc[p]]
    BY <1>1 DEF Steps, GatedSteps, Left
  <1>3. QED
    BY <1>1, <1>2, GoesOn

LEMMA WorkAdvances ==
  ASSUME IInv, NEW p \in Proc, Work(p)
  PROVE  Advances(p)
  <1>0. TypeOK
    BY DEF IInv
  <1>1. Exit(p) /\ Alive(p) => Advances(p)
    BY <1>0, Ends
  <1>2. CASE Lock(p) \/ WriteLease(p) \/ Logout(p) \/ MakeDir(p)
    BY <1>0, <1>2, GoesOn DEF Lock, WriteLease, Logout, MakeDir, Proceed, Left
  <1>3. CASE Snapshot(p) \/ Probe(p) \/ RunCli(p)
    <2>1. \/ Exit(p) /\ Alive(p)
          \/ pc[p] = "locked" /\ Goto(p, "lease")
          \/ pc[p] = "probe" /\ Goto(p, "cli")
          \/ pc[p] = "cli" /\ Goto(p, "lock")
      BY <1>3 DEF Snapshot, Probe, RunCli, Proceed, Alive
    <2> QED
      BY <1>0, <1>1, <2>1, GoesOn DEF Left
  <1>4. CASE Cleanup(p) \/ CheckIdle(p)
    <2>1. \/ Exit(p) /\ Alive(p)
          \/ pc[p] = "locked" /\ (Goto(p, "load") \/ Goto(p, "idle"))
          \/ pc[p] = "idle" /\ Goto(p, "load")
      BY <1>4 DEF Cleanup, CheckIdle, Proceed, Alive
    <2> QED
      BY <1>0, <1>1, <2>1, GoesOn DEF Left
  <1>5. CASE LoadCatalog(p)
    <2>1. pc[p] \in {"load", "locked"} /\ (Exit(p) \/ Goto(p, AfterLoad(p)))
      BY <1>5 DEF LoadCatalog
    <2>2. AfterLoad(p) \in {"loadst", "logout", "savecat", "mkdir"}
      BY DEF AfterLoad
    <2> QED
      BY <1>0, <1>1, <2>1, <2>2, GoesOn DEF Left, Alive
  <1>6. CASE SaveCatalog(p) \/ RemoveDir(p)
    <2>1. \/ Exit(p) /\ Alive(p)
          \/ pc[p] = "savecat" /\ (Goto(p, "rmdir") \/ Goto(p, "loadst"))
          \/ pc[p] = "rmdir" /\ Goto(p, "loadst")
      BY <1>6 DEF SaveCatalog, RemoveDir, Proceed, Alive
    <2> QED
      BY <1>0, <1>1, <2>1, GoesOn DEF Left
  <1>7. CASE LoadState(p) \/ SaveState(p)
    <2>1. \/ Exit(p) /\ Alive(p)
          \/ pc[p] \in {"loadst", "locked"} /\ Goto(p, "savest")
      BY <1>7 DEF LoadState, SaveState, Alive
    <2> QED
      BY <1>0, <1>1, <2>1, GoesOn DEF Left
  <1>8. QED
    BY <1>2, <1>3, <1>4, <1>5, <1>6, <1>7 DEF Work

LEMMA StepAdvances ==
  ASSUME IInv, [Next]_vars, NEW p \in Proc, Alive(p), pc'[p] # pc[p]
  PROVE  Advances(p)
  <1>1. CASE UNCHANGED vars
    BY <1>1 DEF vars
  <1>2. CASE Next
    <2>1. PICK q \in Proc :
             \/ \E j \in Job : Start(q, j)
             \/ Work(q)
             \/ LockTimeout(q)
             \/ Finish(q)
             \/ Crash(q)
      BY <1>2 DEF Next
    <2>2. ASSUME NEW j \in Job, Start(q, j)
          PROVE  FALSE
      BY <2>2 DEF Start, Goto, Alive, IInv, TypeOK
    <2>3. CASE LockTimeout(q) \/ Finish(q) \/ Crash(q)
      <3>1. Exit(q) /\ Alive(q)
        BY <2>3 DEF LockTimeout, Finish, Crash, Alive
      <3> QED
        BY <3>1, Ends DEF IInv, Advances
    <2> QED
      BY <2>1, <2>2, <2>3, WorkAdvances DEF Advances
  <1>3. QED
    BY <1>1, <1>2

\* Whatever a job meets (a busy account, a refusal, the bound on waiting, a crash),
\* each step brings it nearer its end, eleven at most in all, and no other process
\* takes it back.  That it need not wait for ever is GateIsExclusive: the gate is with
\* a process at a step of the critical section, none of which waits for the gate.
THEOREM JobsAdvance ==
  Spec => [][\A p \in Proc : Alive(p) /\ pc'[p] # pc[p] => Advances(p)]_vars
  <1>1. IInv /\ [Next]_vars =>
          [\A p \in Proc : Alive(p) /\ pc'[p] # pc[p] => Advances(p)]_vars
    BY StepAdvances
  <1> QED
    BY <1>1, Inductive, PTL DEF Spec
=============================================================================
