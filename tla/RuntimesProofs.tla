---------------------------- MODULE RuntimesProofs ----------------------------
(***************************************************************************)
(* What the jobs on the CLI binaries do not take from each other, for any  *)
(* processes and versions.                                                 *)
(*                                                                         *)
(* Only the pruning at the end of an installation deletes.  IInv says who  *)
(* may be there at once (LockHeld), what an installation relies on         *)
(* (InPlace), and what can be on disk when a rollback is to undo it        *)
(* (OneUndo).                                                              *)
(***************************************************************************)
EXTENDS Runtimes, TLAPS

\* What a job is.
LEMMA JobFields ==
  ASSUME NEW j \in Job
  PROVE  /\ j # None
         /\ j.op \in AllOps
         /\ j.op = "install" => j.version \in Version
<1>1. j.op \in AllOps /\ (j.op = "install" => j.version \in Version)
  BY DEF Job, AllOps
<1>2. j # None
  BY RuntimesAssumption
<1>3. QED
  BY <1>1, <1>2

\* Nobody is at work on the store at first.
LEMMA InitInvariant == Init => IInv
  BY RuntimesAssumption
  DEF Init, IInv, TypeOK, JobAtStep, LockHeld, InPlace, OneUndo, Installing, Steps

\* A job starts.
LEMMA StartKeeps ==
  ASSUME IInv, NEW p \in Proc, NEW j \in Job, Start(p, j)
  PROVE  IInv'
<1> USE JobFields, RuntimesAssumption DEF IInv, Start, Goto, FirstStep
<1>1. TypeOK'
  BY DEF TypeOK, Steps
<1>2. JobAtStep'
  BY DEF TypeOK, JobAtStep, Installing, Op
<1>3. LockHeld'
  BY DEF TypeOK, LockHeld, Op
<1>4. InPlace' /\ OneUndo'
  BY DEF TypeOK, InPlace, OneUndo, Op
<1>5. QED
  BY <1>1, <1>2, <1>3, <1>4

\* Steps that leave the files and the lock alone, and do not end the job: they
\* only move on, after the facts InPlace asks for have been seen.
LEMMA ProceedKeeps ==
  ASSUME IInv, NEW p \in Proc, NEW step \in Steps, Proceed(p, step),
         pc[p] # "off", step # "off", pc[p] # "lock", step # "lock",
         JobAtStep', InPlace',
         UNCHANGED <<active, versions, binaries, undo, starts>>
  PROVE  IInv'
<1> USE DEF IInv, Proceed, Goto, memory
<1>1. TypeOK'
  BY DEF TypeOK
<1>2. LockHeld'
  BY DEF TypeOK, LockHeld, Op
<1>3. OneUndo'
  BY DEF OneUndo
<1>4. QED
  BY <1>1, <1>2, <1>3

\* A job ends, or its process dies, with the files as they are.
LEMMA ExitKeeps ==
  ASSUME IInv, NEW p \in Proc, Exit(p), pc[p] # "off", TypeOK', OneUndo',
         versions' = versions \/ pc[p] = "prune",
         binaries' = binaries \/ pc[p] = "prune"
  PROVE  IInv'
<1> USE RuntimesAssumption DEF IInv, Exit, Goto
<1>1. JobAtStep'
  BY DEF TypeOK, JobAtStep, Installing, Op
<1>2. LockHeld'
  BY DEF TypeOK, LockHeld, JobAtStep, Op
<1>3. InPlace'
  <2> SUFFICES ASSUME NEW q \in Proc, q # p
               PROVE  /\ pc'[q] = "promote" => target'[q] \in versions'
                      /\ pc'[q] \in {"activate", "prune"} /\ job'[q].op = "install"
                           => target'[q] \in binaries'
    BY DEF TypeOK, InPlace, Op
  <2>1. pc'[q] = pc[q] /\ job'[q] = job[q] /\ target'[q] = target[q]
    BY DEF TypeOK
  <2>2. CASE versions' = versions /\ binaries' = binaries
    BY <2>1, <2>2 DEF InPlace, Op
  <2>3. CASE pc[p] = "prune"
    <3>1. lock = p
      BY <2>3 DEF LockHeld, JobAtStep
    <3>2. ~(pc[q] \notin {"off", "lock"} /\ Op(q) = "install")
      BY <3>1 DEF LockHeld
    <3>3. pc[q] # "promote" /\ ~(pc[q] \in {"activate", "prune"} /\ Op(q) = "install")
      BY <3>2 DEF JobAtStep
    <3>4. QED
      BY <2>1, <3>3 DEF Op
  <2>4. QED
    BY <2>2, <2>3
<1>4. QED
  BY <1>1, <1>2, <1>3

\* A job that ends without having touched the files.
LEMMA PlainExitKeeps ==
  ASSUME IInv, NEW p \in Proc, Exit(p), pc[p] # "off",
         UNCHANGED <<active, versions, binaries, undo, starts>>
  PROVE  IInv'
<1>1. TypeOK'
  BY DEF IInv, TypeOK, Exit, Goto, Steps
<1>2. OneUndo'
  BY DEF IInv, OneUndo
<1>3. QED
  BY <1>1, <1>2, ExitKeeps

\* Taking runtime.lock, which nobody has.
LEMMA LockKeeps ==
  ASSUME IInv, NEW p \in Proc, LockRuntime(p)
  PROVE  IInv'
<1> USE RuntimesAssumption DEF IInv, LockRuntime, Goto, memory
<1>1. TypeOK'
  BY DEF TypeOK, Steps
<1>2. JobAtStep' /\ InPlace' /\ OneUndo'
  BY DEF TypeOK, JobAtStep, InPlace, OneUndo, Installing, Op
<1>3. LockHeld'
  BY DEF TypeOK, LockHeld, JobAtStep, Op
<1>4. QED
  BY <1>1, <1>2, <1>3

\* Reading what to keep for a rollback.
LEMMA ReadKeeps ==
  ASSUME IInv, NEW p \in Proc, ReadRollback(p)
  PROVE  IInv'
<1> USE DEF IInv, ReadRollback, Goto
<1>1. job[p].version \in Version
  BY JobFields DEF TypeOK, JobAtStep, Op
<1>2. TypeOK'
  BY <1>1 DEF TypeOK, Steps
<1>3. JobAtStep' /\ LockHeld' /\ InPlace' /\ OneUndo'
  BY <1>1 DEF TypeOK, JobAtStep, LockHeld, InPlace, OneUndo, Installing, Op
<1>4. QED
  BY <1>2, <1>3

\* The steps of a job that look, download or run, and change nothing.
LEMMA LookKeeps ==
  ASSUME IInv, NEW p \in Proc,
         LookForBinary(p) \/ Fetch(p) \/ CheckFile(p) \/ Execute(p) \/ Crash(p)
  PROVE  IInv'
<1>1. CASE Exit(p)
  BY <1>1, PlainExitKeeps DEF LookForBinary, Fetch, CheckFile, Execute, Crash
<1>2. CASE ~Exit(p)
  <2>1. /\ UNCHANGED <<active, versions, binaries, undo, starts>>
        /\ \/ pc[p] = "look" /\ (Proceed(p, "file") \/ Proceed(p, "fetch"))
           \/ pc[p] = "fetch" /\ Proceed(p, "dir")
           \/ pc[p] = "file" /\ target[p] \in binaries /\ Proceed(p, "activate")
    BY <1>2 DEF LookForBinary, Fetch, CheckFile, Execute, Crash
  <2>2. JobAtStep'
    BY <2>1 DEF IInv, TypeOK, JobAtStep, Installing, Op, Proceed, Goto, memory
  <2>3. InPlace'
    BY <2>1 DEF IInv, TypeOK, InPlace, Op, Proceed, Goto, memory
  <2>4. QED
    BY <2>1, <2>2, <2>3, ProceedKeeps DEF Steps
<1>3. QED
  BY <1>1, <1>2

\* The directory of a version is created.
LEMMA MakeDirKeeps ==
  ASSUME IInv, NEW p \in Proc, MakeDir(p)
  PROVE  IInv'
<1> USE DEF IInv, MakeDir, Proceed, Goto, memory
<1>1. TypeOK'
  BY DEF TypeOK, JobAtStep, Installing, Steps
<1>2. JobAtStep' /\ LockHeld'
  BY DEF TypeOK, JobAtStep, LockHeld, Installing, Op
<1>3. InPlace' /\ OneUndo'
  BY DEF TypeOK, InPlace, OneUndo, Op
<1>4. QED
  BY <1>1, <1>2, <1>3

\* The checked binary gets its name.
LEMMA PromoteKeeps ==
  ASSUME IInv, NEW p \in Proc, Promote(p)
  PROVE  IInv'
<1>1. CASE UNCHANGED <<binaries, undo>> /\ Exit(p)
  BY <1>1, PlainExitKeeps DEF Promote
<1>2. CASE binaries' = binaries \cup {target[p]} /\ undo' = None /\ Proceed(p, "file")
  <2> USE <1>2 DEF IInv, Promote, Proceed, Goto, memory
  <2>1. TypeOK'
    BY DEF TypeOK, InPlace, Steps
  <2>2. JobAtStep' /\ LockHeld'
    BY DEF TypeOK, JobAtStep, LockHeld, Installing, Op
  <2>3. InPlace' /\ OneUndo'
    BY DEF TypeOK, InPlace, OneUndo, Op
  <2>4. QED
    BY <2>1, <2>2, <2>3
<1>3. QED
  BY <1>1, <1>2 DEF Promote

\* What pruning leaves: at least what is kept, and no binary without directory.
LEMMA PruneLeaves ==
  ASSUME IInv, NEW p \in Proc, Prune(p)
  PROVE  /\ versions' \subseteq versions
         /\ binaries' \subseteq binaries \cap versions'
         /\ binaries \cap Kept(p) \subseteq binaries'
  BY DEF IInv, TypeOK, Prune

\* An installation deletes the versions that it does not keep.
LEMMA PruneKeeps ==
  ASSUME IInv, NEW p \in Proc, Prune(p)
  PROVE  IInv'
<1>1. Exit(p) /\ pc[p] = "prune" /\ UNCHANGED <<active, starts>>
  BY DEF Prune
<1>2. undo' \in Version \cup {None}
  BY DEF IInv, TypeOK, Prune
<1>3. TypeOK'
  BY <1>1, <1>2, PruneLeaves DEF IInv, TypeOK, Exit, Goto, Steps
<1>4. OneUndo'
  <2>1. CASE undo' = undo
    BY <1>1, <2>1, PruneLeaves DEF IInv, OneUndo
  <2>2. CASE undo' # undo
    <3>1. /\ active = target[p] /\ previous[p] \in binaries /\ undo' = previous[p]
          /\ binaries' = binaries \ (versions \ Kept(p))
      BY <2>2 DEF Prune
    <3>2. previous[p] # None
      BY <3>1, RuntimesAssumption DEF IInv, TypeOK
    <3>3. binaries' \subseteq Kept(p)
      BY <3>1 DEF IInv, TypeOK
    <3>4. Kept(p) = {target[p], previous[p]}
      BY <3>2 DEF Kept
    <3>5. QED
      BY <1>1, <3>1, <3>3, <3>4 DEF OneUndo
  <2>3. QED
    BY <2>1, <2>2
<1>5. QED
  BY <1>1, <1>3, <1>4, ExitKeeps

\* There is a newest version, and it is one of them.
LEMMA NewestIsThere ==
  ASSUME NEW V \in SUBSET Version, V # {}
  PROVE  Newest(V) \in V
<1>1. \E v \in V : \A w \in V : w <= v
  BY RuntimesAssumption
<1>2. QED
  BY <1>1 DEF Newest

\* A rollback, a repair or a command settles on a binary that is there.
LEMMA PickKeeps ==
  ASSUME IInv, NEW p \in Proc, PickRollback(p) \/ PickRepair(p) \/ Capture(p)
  PROVE  IInv'
<1>1. CASE Exit(p)
  BY <1>1, PlainExitKeeps DEF PickRollback, PickRepair, Capture
<1>2. CASE ~Exit(p)
  <2>1. PICK v \in Version :
          /\ target' = [target EXCEPT ![p] = v]
          /\ pc[p] = "read"
          /\ \/ Op(p) \in {"rollback", "repair"} /\ Goto(p, "file")
             \/ Op(p) = "exec" /\ Goto(p, "exec")
          /\ UNCHANGED <<active, versions, binaries, lock, undo, job, previous, starts>>
    <3>1. CASE PickRollback(p)
      BY <1>2, <3>1 DEF PickRollback, IInv, TypeOK
    <3>2. CASE PickRepair(p)
      BY <1>2, <3>2, NewestIsThere DEF PickRepair, NeedsRepair, IInv, TypeOK
    <3>3. CASE Capture(p)
      BY <1>2, <3>3 DEF Capture, IInv, TypeOK
    <3>4. QED
      BY <3>1, <3>2, <3>3
  <2> USE <2>1 DEF IInv, Goto
  <2>2. TypeOK'
    BY DEF TypeOK, Steps
  <2>3. JobAtStep' /\ LockHeld'
    BY DEF TypeOK, JobAtStep, LockHeld, Installing, Op
  <2>4. InPlace' /\ OneUndo'
    BY DEF TypeOK, InPlace, OneUndo, Op
  <2>5. QED
    BY <2>2, <2>3, <2>4
<1>3. QED
  BY <1>1, <1>2

\* The pointer is moved.
LEMMA ActivateKeeps ==
  ASSUME IInv, NEW p \in Proc, Activate(p)
  PROVE  IInv'
<1>1. target[p] \in Version
  BY DEF IInv, JobAtStep, Installing, Activate
<1>2. OneUndo'
  BY RuntimesAssumption DEF Activate, OneUndo
<1>3. CASE Exit(p)
  <2>1. TypeOK'
    BY <1>1, <1>3 DEF IInv, TypeOK, Activate, Exit, Goto, Steps
  <2>2. QED
    BY <1>2, <1>3, <2>1, ExitKeeps DEF Activate
<1>4. CASE Op(p) = "install" /\ Proceed(p, "prune")
  <2> USE <1>4 DEF IInv, Activate, Proceed, Goto, memory
  <2>1. TypeOK'
    BY <1>1 DEF TypeOK, Steps
  <2>2. JobAtStep' /\ LockHeld' /\ InPlace'
    BY DEF TypeOK, JobAtStep, LockHeld, InPlace, Installing, Op
  <2>3. QED
    BY <1>2, <2>1, <2>2
<1>5. QED
  BY <1>3, <1>4 DEF Activate

\* The inductive invariant of the runtime manager: which job has the lock, what
\* it has put in place, and what a rollback can find.
THEOREM Invariant == Spec => []IInv
<1>1. IInv /\ [Next]_vars => IInv'
  <2> SUFFICES ASSUME IInv, [Next]_vars PROVE IInv'
    OBVIOUS
  <2>1. CASE Next
    BY <2>1, StartKeeps, LockKeeps, ReadKeeps, LookKeeps, MakeDirKeeps, PromoteKeeps,
       PruneKeeps, PickKeeps, ActivateKeeps DEF Next
  <2>2. CASE UNCHANGED vars
    BY <2>2 DEF vars, IInv, TypeOK, JobAtStep, LockHeld, InPlace, OneUndo, Installing, Op
  <2>3. QED
    BY <2>1, <2>2
<1>2. QED
  BY InitInvariant, <1>1, PTL DEF Spec

\* Only pruning takes binaries away.
LEMMA OnlyPruneDeletes ==
  ASSUME IInv, Next, ~(binaries \subseteq binaries')
  PROVE  \E p \in Proc : Prune(p)
<1>1. SUFFICES ASSUME NEW p \in Proc,
                      \/ \E j \in Job : Start(p, j)
                      \/ LockRuntime(p) \/ ReadRollback(p) \/ LookForBinary(p) \/ Fetch(p)
                      \/ MakeDir(p) \/ Promote(p)
                      \/ PickRollback(p) \/ PickRepair(p)
                      \/ CheckFile(p) \/ Activate(p)
                      \/ Capture(p) \/ Execute(p)
                      \/ Crash(p)
               PROVE  binaries \subseteq binaries'
  BY DEF Next
<1>2. QED
  BY <1>1 DEF Start, LockRuntime, ReadRollback, LookForBinary, Fetch, MakeDir, Promote,
     PickRollback, PickRepair, CheckFile, Activate, Capture, Execute, Crash

\* No installation deletes what another one has put in place or found active,
\* nor its own, whatever the processes and versions.
THEOREM VersionsAreNotStolen == Spec => NoVersionStolen
<1> DEFINE Spared ==
      \A p \in Proc :
        pc[p] \in {"look", "file", "activate", "prune"} /\ Op(p) = "install" =>
          {target[p], previous[p]} \cap binaries \subseteq binaries'
<1>1. IInv /\ Next => Spared
  <2> SUFFICES ASSUME IInv, Next, NEW q \in Proc,
                      pc[q] \in {"look", "file", "activate", "prune"}, Op(q) = "install",
                      ~(binaries \subseteq binaries')
               PROVE  {target[q], previous[q]} \cap binaries \subseteq binaries'
    OBVIOUS
  <2>1. PICK p \in Proc : Prune(p)
    BY OnlyPruneDeletes
  <2>2. lock = p /\ lock = q
    BY <2>1 DEF IInv, JobAtStep, LockHeld, Prune
  <2>3. binaries \cap Kept(q) \subseteq binaries'
    BY <2>1, <2>2, PruneLeaves
  <2>4. {target[q], previous[q]} \cap binaries \subseteq Kept(q)
    BY RuntimesAssumption DEF IInv, TypeOK, Kept
  <2>5. QED
    BY <2>3, <2>4
<1>2. UNCHANGED vars => UNCHANGED binaries
  BY DEF vars
<1>3. QED
  BY Invariant, <1>1, <1>2, PTL DEF Spec, NoVersionStolen

\* The active binary stays, and the pointer moves to a binary that is there,
\* unless a rollback or a repair overlaps an installation.
THEOREM ActiveBinaryStays == Spec => ActiveStays
<1> DEFINE Stays == (active \in binaries /\ ~Overtaken) => (active' \in binaries')
<1>1. IInv /\ Next => Stays
  <2> SUFFICES ASSUME IInv, NEW p \in Proc, active \in binaries, ~Overtaken,
                      \/ \E j \in Job : Start(p, j)
                      \/ LockRuntime(p) \/ ReadRollback(p) \/ LookForBinary(p) \/ Fetch(p)
                      \/ MakeDir(p) \/ Promote(p) \/ Prune(p)
                      \/ PickRollback(p) \/ PickRepair(p)
                      \/ CheckFile(p) \/ Activate(p)
                      \/ Capture(p) \/ Execute(p)
                      \/ Crash(p)
               PROVE  active' \in binaries'
    BY DEF Next
  <2>1. CASE Activate(p)
    <3>1. Op(p) = "install"
      BY <2>1 DEF Activate, Overtaken
    <3>2. QED
      BY <2>1, <3>1 DEF IInv, InPlace, Activate
  <2>2. CASE Prune(p)
    <3>1. active = target[p] /\ active' = active
      BY <2>2 DEF Prune, Overtaken
    <3>2. target[p] \in Kept(p)
      BY DEF Kept
    <3>3. QED
      BY <2>2, <3>1, <3>2, PruneLeaves
  <2>3. CASE active' = active /\ binaries \subseteq binaries'
    BY <2>3
  <2>4. ~Activate(p) /\ ~Prune(p) => active' = active /\ binaries \subseteq binaries'
    BY DEF Start, LockRuntime, ReadRollback, LookForBinary, Fetch, MakeDir, Promote,
       PickRollback, PickRepair, CheckFile, Capture, Execute, Crash
  <2>5. QED
    BY <2>1, <2>2, <2>3, <2>4
<1>2. UNCHANGED vars => UNCHANGED <<active, binaries>>
  BY DEF vars
<1>3. QED
  BY Invariant, <1>1, <1>2, PTL DEF Spec, ActiveStays

\* A rollback that settles on a version settles on the one the installation
\* before it replaced.
THEOREM RollbacksUndo == Spec => RollbackUndoes
<1> DEFINE Undoes ==
      \A p \in Proc :
        pc[p] = "read" /\ Op(p) = "rollback" /\ pc'[p] = "file" /\ undo # None =>
          target'[p] = undo
<1>1. IInv /\ Next => Undoes
  <2> SUFFICES ASSUME IInv, NEW q \in Proc, NEW p \in Proc,
                      \/ \E j \in Job : Start(p, j)
                      \/ LockRuntime(p) \/ ReadRollback(p) \/ LookForBinary(p) \/ Fetch(p)
                      \/ MakeDir(p) \/ Promote(p) \/ Prune(p)
                      \/ PickRollback(p) \/ PickRepair(p)
                      \/ CheckFile(p) \/ Activate(p)
                      \/ Capture(p) \/ Execute(p)
                      \/ Crash(p),
                      pc[q] = "read", Op(q) = "rollback", pc'[q] = "file", undo # None
               PROVE  target'[q] = undo
    BY DEF Next
  <2>1. p = q
    BY DEF Start, LockRuntime, ReadRollback, LookForBinary, Fetch, MakeDir, Promote, Prune,
       PickRollback, PickRepair, CheckFile, Activate, Capture, Execute, Crash,
       Exit, Proceed, Goto, IInv, TypeOK
  <2>2. PickRollback(q)
    BY <2>1 DEF Start, LockRuntime, ReadRollback, LookForBinary, Fetch, MakeDir, Promote,
       Prune, PickRepair, CheckFile, Activate, Capture, Execute, Crash,
       Exit, Goto, IInv, TypeOK
  <2>3. Candidates # {} /\ Newest(Candidates) \in binaries /\ target'[q] = Newest(Candidates)
    BY <2>2 DEF PickRollback, Exit, Goto, IInv, TypeOK
  <2>4. Newest(Candidates) # active
    BY <2>3, NewestIsThere DEF Candidates, IInv, TypeOK
  <2>5. QED
    BY <2>3, <2>4 DEF IInv, OneUndo
<1>2. UNCHANGED vars => UNCHANGED pc
  BY DEF vars
<1>3. QED
  BY Invariant, <1>1, <1>2, PTL DEF Spec, RollbackUndoes
=============================================================================
