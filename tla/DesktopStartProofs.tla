------------------------- MODULE DesktopStartProofs -------------------------
(***************************************************************************)
(* That launches never all give way to each other and no click gets lost   *)
(* between them, for any number of launches; and that what FirstStart says *)
(* of the store holds for a desktop that is started, killed and started    *)
(* again beside lpcctl, which changes the route in between.                *)
(*                                                                         *)
(* Who gives way does so to whoever has the lock desktop-instance; what    *)
(* has to be known of that one is that it runs: HolderActive.              *)
(***************************************************************************)
EXTENDS DesktopStart, TLAPS

-----------------------------------------------------------------------------
(* What no start of any release loses.  OnlyCreationLoses and HintRises    *)
(* speak of what a process writes: a copy that it loaded some steps ago.   *)
(* IInv says what that copy still has in common with the file, although a  *)
(* creation may have replaced the file.                                    *)

\* What the creation writes is a catalog, and so is the absence of one.
LEMMA DefaultIsCatalog ==
  /\ Missing \in Catalog
  /\ \A r \in Release : Default(r) \in Catalog /\ Default(r).exists
  BY DEF Missing, Default, Catalog

\* No process has got beyond its start.
LEMMA InitInvariant == Init => IInv
<1> SUFFICES ASSUME Init PROVE IInv
  OBVIOUS
<1> USE DEF Init
<1>1. TypeOK
  <2>1. catalog \in Catalog
    BY DefaultIsCatalog
  <2>2. copy \in [Proc -> Catalog]
    BY DefaultIsCatalog
  <2>3. QED
    BY <2>1, <2>2 DEF TypeOK, Steps
<1>2. GateHeld
  BY FirstStartAssumption DEF GateHeld, Gated
<1>3. CopiesComplete /\ OpenedExists
  BY DEF CopiesComplete, OpenedExists
<1>4. QED
  BY <1>1, <1>2, <1>3 DEF IInv

\* Finding out whether there is a catalog, and creating it.
LEMMA CreationKeeps ==
  ASSUME IInv, NEW p \in Proc, Exists(p) \/ Create(p)
  PROVE  IInv'
<1> USE FirstStartAssumption DEF IInv, Exists, Create, Goto
<1>1. TypeOK'
  <2>1. catalog' \in Catalog
    BY DefaultIsCatalog DEF TypeOK
  <2>2. QED
    BY <2>1 DEF TypeOK, Steps
<1>2. GateHeld'
  BY DEF TypeOK, GateHeld, Gated
<1>3. CopiesComplete'
  BY DEF TypeOK, CopiesComplete, Default
<1>4. OpenedExists'
  BY DEF TypeOK, OpenedExists, Default
<1>5. QED
  BY <1>1, <1>2, <1>3, <1>4

\* Taking the gate, and loading the catalog under it.
LEMMA LoadKeeps ==
  ASSUME IInv, NEW p \in Proc, OpenGate(p) \/ Begin(p) \/ LoadLocked(p) \/ Read(p)
  PROVE  IInv'
<1> USE FirstStartAssumption DEF IInv, OpenGate, Begin, LoadLocked, Read, Take, Load, Goto
<1>1. TypeOK'
  BY DEF TypeOK, Steps
<1>2. GateHeld'
  BY DEF TypeOK, GateHeld, Gated
<1>3. CopiesComplete'
  BY DEF TypeOK, CopiesComplete, OpenedExists
<1>4. OpenedExists'
  BY DEF TypeOK, OpenedExists
<1>5. QED
  BY <1>1, <1>2, <1>3, <1>4

\* Only one process is about to write, the one with the gate.
LEMMA OneWriter ==
  ASSUME IInv, NEW p \in Proc, NEW q \in Proc, pc[p] \in Gated, pc[q] \in Gated
  PROVE  p = q
  BY DEF IInv, GateHeld

\* Writing a copy, migrated or with a new account.
LEMMA WriteKeeps ==
  ASSUME IInv, NEW p \in Proc, Migrate(p) \/ Write(p)
  PROVE  IInv'
<1> USE FirstStartAssumption DEF IInv, Migrate, Write, Migrated, Goto
<1>1. TypeOK'
  <2>1. copy[p] \in Catalog /\ release[p] \in Release
    BY DEF TypeOK
  <2>2. Migrated(p) \in Catalog
    BY <2>1 DEF Catalog
  <2>3. [copy[p] EXCEPT !.accounts = @ \cup {p}] \in Catalog
    BY <2>1 DEF Catalog
  <2>4. catalog' \in Catalog
    BY <2>2, <2>3 DEF TypeOK
  <2>5. QED
    BY <2>4 DEF TypeOK, Steps
<1>2. GateHeld'
  BY DEF TypeOK, GateHeld, Gated
<1>3. CopiesComplete'
  <2> SUFFICES ASSUME NEW q \in Proc, pc'[q] \in {"migrate", "write"}
               PROVE  FALSE
    BY DEF CopiesComplete
  <2>1. q # p /\ pc[q] \in Gated /\ pc[p] \in Gated
    BY DEF TypeOK, Gated
  <2>2. QED
    BY <2>1, OneWriter
<1>4. OpenedExists'
  BY DEF TypeOK, Catalog, CopiesComplete, OpenedExists
<1>5. QED
  BY <1>1, <1>2, <1>3, <1>4

\* A process that dies frees the gate.
LEMMA StopKeeps ==
  ASSUME IInv, NEW p \in Proc, Stop(p)
  PROVE  IInv'
<1> USE FirstStartAssumption DEF IInv, Stop, Goto
<1>1. TypeOK'
  BY DEF TypeOK, Steps
<1>2. GateHeld'
  BY DEF TypeOK, GateHeld, Gated
<1>3. CopiesComplete' /\ OpenedExists'
  BY DEF TypeOK, CopiesComplete, OpenedExists
<1>4. QED
  BY <1>1, <1>2, <1>3

\* The inductive invariant of the start: types, the gate, and what the copies
\* that are about to be written have in common with the file.
THEOREM Invariant == Spec => []IInv
<1>1. IInv /\ [Next]_vars => IInv'
  <2> SUFFICES ASSUME IInv, [Next]_vars PROVE IInv'
    OBVIOUS
  <2>1. CASE Next
    BY <2>1, CreationKeeps, LoadKeeps, WriteKeeps, StopKeeps DEF Next
  <2>2. CASE UNCHANGED vars
    BY <2>2 DEF vars, IInv, TypeOK, GateHeld, CopiesComplete, OpenedExists
  <2>3. QED
    BY <2>1, <2>2
<1>2. QED
  BY InitInvariant, <1>1, PTL DEF Spec

\* Every process that has opened the store finds a catalog, whoever has created
\* it or is about to.
THEOREM CatalogIsThere == Spec => []OpenedExists
<1>1. IInv => OpenedExists
  BY DEF IInv
<1>2. QED
  BY Invariant, <1>1, PTL

\* A step of a process keeps the accounts: what it writes has them all.
LEMMA StepKeepsAccounts ==
  ASSUME IInv, NEW p \in Proc,
         \/ Exists(p) \/ Create(p) \/ OpenGate(p) \/ LoadLocked(p)
         \/ Migrate(p) \/ Begin(p) \/ Read(p) \/ Write(p) \/ Stop(p)
  PROVE  catalog.accounts \subseteq catalog'.accounts \/ Creation
<1> USE DEF IInv, TypeOK, Goto
<1>1. CASE Create(p)
  BY <1>1 DEF Create, Creation
<1>2. CASE Migrate(p)
  BY <1>2 DEF Migrate, Migrated, CopiesComplete, Catalog
<1>3. CASE Write(p)
  BY <1>3 DEF Write, CopiesComplete, Catalog
<1>4. CASE Exists(p) \/ OpenGate(p) \/ LoadLocked(p) \/ Begin(p) \/ Read(p) \/ Stop(p)
  BY <1>4 DEF Exists, OpenGate, LoadLocked, Begin, Read, Stop
<1>5. QED
  BY <1>1, <1>2, <1>3, <1>4

\* The hint of the catalog and the versions that are recommended are numbers.
LEMMA HintIsNatural ==
  ASSUME IInv
  PROVE  catalog.hint \in Nat /\ \A p \in Proc : release[p] \in Nat
<1>1. Release \subseteq Nat
  BY FirstStartAssumption
<1>2. catalog \in [accounts: SUBSET Proc, hint: Nat, exists: BOOLEAN]
  <2>1. {0} \cup Release \subseteq Nat
    BY <1>1
  <2>2. Catalog \subseteq [accounts: SUBSET Proc, hint: Nat, exists: BOOLEAN]
    BY <2>1, Zenon DEF Catalog
  <2>3. QED
    BY <2>2 DEF IInv, TypeOK
<1>3. \A p \in Proc : release[p] \in Release
  BY DEF IInv, TypeOK
<1>4. QED
  BY <1>1, <1>2, <1>3

\* A step of a process keeps the hint, or writes a copy that was overtaken.
LEMMA StepKeepsHint ==
  ASSUME IInv, NEW p \in Proc,
         \/ Exists(p) \/ Create(p) \/ OpenGate(p) \/ LoadLocked(p)
         \/ Migrate(p) \/ Begin(p) \/ Read(p) \/ Write(p) \/ Stop(p)
  PROVE  catalog.hint <= catalog'.hint \/ Creation \/ Overwritten
<1>h. catalog.hint \in Nat /\ release[p] \in Nat
  BY HintIsNatural
<1> USE DEF IInv, TypeOK, Goto
<1>1. CASE Create(p)
  BY <1>1 DEF Create, Creation
<1>2. CASE Migrate(p)
  <2>1. CASE copy[p] = catalog
    BY <1>h, <1>2, <2>1 DEF Migrate, Migrated, Catalog
  <2>2. CASE copy[p] # catalog
    BY <1>2, <2>2 DEF Migrate, Overwritten
  <2>3. QED
    BY <2>1, <2>2
<1>3. CASE Write(p)
  <2>1. CASE copy[p] = catalog
    BY <1>h, <1>3, <2>1 DEF Write, Catalog
  <2>2. CASE copy[p] # catalog
    BY <1>3, <2>2 DEF Write, Overwritten
  <2>3. QED
    BY <2>1, <2>2
<1>4. CASE Exists(p) \/ OpenGate(p) \/ LoadLocked(p) \/ Begin(p) \/ Read(p) \/ Stop(p)
  BY <1>h, <1>4 DEF Exists, OpenGate, LoadLocked, Begin, Read, Stop
<1>5. QED
  BY <1>1, <1>2, <1>3, <1>4

\* Neither a migration nor a registration loses an account, whichever releases
\* start beside it: only the unlocked creation of the catalog can.
THEOREM OnlyCreationLosesAccounts == Spec => OnlyCreationLoses
<1> DEFINE Kept == catalog.accounts \subseteq catalog'.accounts \/ Creation
<1>1. IInv /\ [Next]_vars => Kept \/ UNCHANGED vars
  BY StepKeepsAccounts DEF Next
<1>2. QED
  BY Invariant, <1>1, PTL DEF Spec, OnlyCreationLoses

\* No migration and no job lowers the recommended version, unless a creation has
\* replaced the catalog since it was loaded.
THEOREM HintNeverFalls == Spec => HintRises
<1> DEFINE Rises == catalog.hint <= catalog'.hint \/ Creation \/ Overwritten
<1>1. IInv /\ [Next]_vars => Rises \/ UNCHANGED vars
  BY StepKeepsHint DEF Next
<1>2. QED
  BY Invariant, <1>1, PTL DEF Spec, HintRises

-----------------------------------------------------------------------------
(* The desktop's launches.                                                 *)

LEMMA LaunchInitially == StartInit => LaunchInv
  BY DesktopStartAssumption
  DEF StartInit, LaunchInv, LaunchTypeOK, HolderActive, OneIsLeft, ClickKept,
      Launched, Normal, Host

\* A new launch is itself on the way.
LEMMA LaunchKeeps ==
  ASSUME LaunchInv, NEW n \in Normal, Launch(n)
  PROVE  LaunchInv'
<1> USE DesktopStartAssumption DEF LaunchInv, LaunchTypeOK, Launch, To, Launched
<1>1. LaunchTypeOK'
  BY DEF store, vars, route, fixing
<1>2. HolderActive'
  BY DEF HolderActive
<1>3. OneIsLeft' /\ ClickKept'
  BY DEF OneIsLeft, ClickKept, Shows
<1>4. QED
  BY <1>1, <1>2, <1>3

\* A launch that gives way leaves the holder of the lock, and its request.
LEMMA GiveWayKeeps ==
  ASSUME LaunchInv, NEW l \in Launched, LookBusy(l) \/ LockBusy(l)
  PROVE  LaunchInv'
<1> USE DesktopStartAssumption DEF LaunchInv, LaunchTypeOK, GiveWay, To
<1>0. /\ GiveWay(l) /\ stage[l] \in {"look", "go"} /\ instance # None
      /\ UNCHANGED <<store, instance, route, fixing, bounds, history>>
  BY DEF LookBusy, LockBusy
<1>1. LaunchTypeOK'
  BY <1>0 DEF store, vars, route, fixing, bounds, history
<1>2. HolderActive'
  BY <1>0 DEF HolderActive, store, vars
<1>3. instance \in Launched /\ instance # l /\ stage'[instance] # "off"
  BY <1>0 DEF HolderActive
<1>4. OneIsLeft'
  BY <1>0, <1>3 DEF OneIsLeft
<1>5. ClickKept'
  <2>1. request => request'
    BY <1>0
  <2>2. CASE request'
    BY <1>3, <2>2 DEF ClickKept
  <2>3. CASE ~request'
    <3>1. ~Shows(l)
      BY <1>0, <2>3
    <3>2. QED
      BY <1>0, <2>1, <2>3, <3>1 DEF ClickKept, history
  <2>4. QED
    BY <2>2, <2>3
<1>6. QED
  BY <1>1, <1>2, <1>4, <1>5

\* Whoever takes the lock or drops it is still on the way.
LEMMA LockKeeps ==
  ASSUME LaunchInv, NEW l \in Launched, LookFree(l) \/ Looked(l) \/ Lock(l)
  PROVE  LaunchInv'
<1> USE DesktopStartAssumption
    DEF LaunchInv, LaunchTypeOK, LookFree, Looked, Lock, Dropped, To
<1>1. LaunchTypeOK'
  BY DEF store, vars, route, fixing, bounds, history
<1>2. HolderActive'
  BY DEF HolderActive
<1>3. OneIsLeft' /\ ClickKept'
  BY DEF OneIsLeft, ClickKept, bounds, history, launch
<1>4. QED
  BY <1>1, <1>2, <1>3

\* The task has started a host, or one is there already.
LEMMA TaskKeeps ==
  ASSUME LaunchInv, NEW n \in Normal, RunTask(n)
  PROVE  LaunchInv'
<1> USE DesktopStartAssumption DEF LaunchInv, LaunchTypeOK, RunTask
<1> DEFINE h == IF Shows(n) THEN "visible" ELSE "hidden"
<1>0. h \in Launched /\ h # n /\ n \in Launched /\ (Shows(n) => Shows(h))
  BY DEF Launched, Normal, Host, Shows
<1>1. stage' = [stage EXCEPT ![n] = "off", ![h] = IF @ = "off" THEN "look" ELSE @]
  OBVIOUS
<1> HIDE DEF h
<1>2. LaunchTypeOK'
  BY <1>0, <1>1 DEF store, vars, route, fixing, bounds, history
<1>3. HolderActive'
  BY <1>0, <1>1 DEF HolderActive
<1>4. stage'[h] # "off"
  BY <1>0, <1>1
<1>5. OneIsLeft'
  BY <1>0, <1>4 DEF OneIsLeft
<1>6. ClickKept'
  <2> SUFFICES ASSUME wanted, ~lost
               PROVE  \E m \in Launched : stage'[m] # "off" /\ (Shows(m) \/ request)
    BY DEF ClickKept, history
  <2>1. PICK m \in Launched : stage[m] # "off" /\ (Shows(m) \/ request)
    BY DEF ClickKept
  <2>2. CASE m = n
    BY <1>0, <1>4, <2>1, <2>2
  <2>3. CASE m # n
    BY <1>0, <1>1, <2>1, <2>3
  <2>4. QED
    BY <2>2, <2>3
<1>7. QED
  BY <1>2, <1>3, <1>5, <1>6

\* Whoever clicked has seen the window, or cannot expect to.
LEMMA SeenKeeps ==
  ASSUME LaunchInv, NEW l \in Launched, Up(l) \/ Answer(l)
  PROVE  LaunchInv'
<1> USE DesktopStartAssumption DEF LaunchInv, LaunchTypeOK, Up, Answer, At, To
<1>1. LaunchTypeOK'
  BY DEF store, vars, route, fixing, bounds, history
<1>2. HolderActive'
  BY DEF HolderActive
<1>3. OneIsLeft' /\ ClickKept'
  BY DEF OneIsLeft, ClickKept, bounds, history, launch
<1>4. QED
  BY <1>1, <1>2, <1>3

\* What fails, ends or grows old is remembered, and frees the lock.
LEMMA LostKeeps ==
  ASSUME LaunchInv, (\E l \in Launched : Refuse(l) \/ Fail(l)) \/ Age
  PROVE  LaunchInv'
<1> USE DesktopStartAssumption
    DEF LaunchInv, LaunchTypeOK, Refuse, Fail, Age, Down, Event, To
<1>0. lost' = TRUE
  OBVIOUS
<1>1. LaunchTypeOK'
  BY DEF store, vars, route, fixing, bounds, history
<1>2. HolderActive'
  BY DEF HolderActive
<1>3. QED
  BY <1>0, <1>1, <1>2 DEF OneIsLeft, ClickKept

\* The store and the route are no matter of the launches.
LEMMA ElsewhereKeeps ==
  ASSUME LaunchInv,
         Change \/ Repair \/ DesktopOpens
           \/ (\E p \in Proc : Other(p) \/ PathCommand(p) \/ Fix(p) \/ FixFails(p))
  PROVE  LaunchInv'
<1>0. UNCHANGED <<launch, launches, history>>
  BY DEF Change, Repair, DesktopOpens, Other, PathCommand, Fix, FixFails,
         InstallShim, SetEnabled, SetPath, SetHome, bounds
<1>1. LaunchTypeOK'
  BY DEF LaunchInv, LaunchTypeOK, Change, Repair, DesktopOpens, Other, PathCommand, Fix,
         FixFails, InstallShim, SetEnabled, SetPath, SetHome, bounds, launch, history,
         Event, Fixing, Flag, route, fixing, Prepended
<1>2. QED
  BY <1>0, <1>1 DEF LaunchInv, HolderActive, OneIsLeft, ClickKept, launch, history

\* However many launches meet: the inductive invariant of the lock desktop-instance,
\* of who is left and of the clicks.
THEOREM LaunchInvariant == StartSpec => []LaunchInv
<1>1. LaunchInv /\ [StartNext]_all => LaunchInv'
  <2> SUFFICES ASSUME LaunchInv, [StartNext]_all PROVE LaunchInv'
    OBVIOUS
  <2>1. CASE StartNext
    <3>1. CASE \E n \in Normal : Launch(n)
      BY <3>1, LaunchKeeps
    <3>2. CASE \E l \in Launched : LaunchStep(l)
      <4>1. PICK l \in Launched : LaunchStep(l)
        BY <3>2
      <4>2. CASE RunTask(l)
        BY <4>2, TaskKeeps DEF RunTask
      <4>3. CASE Refuse(l)
        BY <4>3, LostKeeps
      <4>4. CASE (LookBusy(l) \/ LockBusy(l)) \/ (LookFree(l) \/ Looked(l) \/ Lock(l))
        BY <4>4, GiveWayKeeps, LockKeeps
      <4>5. CASE Up(l) \/ Answer(l)
        BY <4>5, SeenKeeps
      <4>6. QED
        BY <4>1, <4>2, <4>3, <4>4, <4>5 DEF LaunchStep
    <3>3. CASE (\E l \in Launched : Fail(l)) \/ Age
      BY <3>3, LostKeeps
    <3>4. CASE \/ Change \/ Repair \/ DesktopOpens
               \/ \E p \in Proc : Other(p) \/ PathCommand(p) \/ Fix(p) \/ FixFails(p)
      BY <3>4, ElsewhereKeeps
    <3>5. QED
      BY <2>1, <3>1, <3>2, <3>3, <3>4 DEF StartNext
  <2>2. CASE UNCHANGED all
    BY <2>2 DEF all, launch, bounds, history, LaunchInv, LaunchTypeOK, HolderActive,
                OneIsLeft, ClickKept
  <2>3. QED
    BY <2>1, <2>2
<1>2. QED
  BY LaunchInitially, <1>1, PTL DEF StartSpec

\* Launches never all give way to each other.
THEOREM SomeoneIsLeft == StartSpec => []OneIsLeft
<1>1. LaunchInv => OneIsLeft
  BY DEF LaunchInv
<1>2. QED
  BY LaunchInvariant, <1>1, PTL

\* No click gets lost between launches and hosts that give way to each other.
THEOREM ClickIsKept == StartSpec => []ClickKept
<1>1. LaunchInv => ClickKept
  BY DEF LaunchInv
<1>2. QED
  BY LaunchInvariant, <1>1, PTL

-----------------------------------------------------------------------------
(* The store. *)

\* A process opens the store or does its job, and lpcctl path is not at work in it.
Works(p) ==
  /\ fix[p] = "idle" \/ p = Desktop
  /\ UNCHANGED fix
  /\ Open(p) \/ Begin(p) \/ Read(p) \/ Write(p) \/ Stop(p)

LEMMA StoreInitially == StartInit => StoreInv
<1> SUFFICES ASSUME StartInit PROVE StoreInv
  OBVIOUS
<1>1. IInv
  BY InitInvariant DEF StartInit
<1>2. QED
  BY <1>1 DEF StartInit, StoreInv, FixTypeOK, PathOpened

\* A process that opens the store, or does its job.
LEMMA OpenerKeeps ==
  ASSUME StoreInv, NEW p \in Proc, Works(p)
  PROVE  StoreInv'
<1> USE DEF Works
<1>1. IInv'
  BY CreationKeeps, LoadKeeps, WriteKeeps, StopKeeps DEF StoreInv, Open
<1>2. \A q \in Proc \ {p} : pc'[q] = pc[q]
  BY DEF StoreInv, IInv, TypeOK, Open, Exists, Create, OpenGate, LoadLocked, Migrate,
         Begin, Read, Write, Stop, Goto
<1>3. QED
  BY <1>1, <1>2 DEF StoreInv, FixTypeOK, PathOpened

\* A desktop that is gone frees the gate; the next one starts from the beginning.
LEMMA FailKeeps ==
  ASSUME StoreInv, NEW l \in Launched, Fail(l)
  PROVE  StoreInv'
<1> USE FirstStartAssumption, DesktopStartAssumption DEF StoreInv, IInv, Fail
<1>1. CASE stage[l] \in {"store", "up"}
  <2>1. TypeOK'
    BY <1>1, DefaultIsCatalog DEF TypeOK, Steps
  <2>2. GateHeld'
    BY <1>1 DEF TypeOK, GateHeld, Gated
  <2>3. CopiesComplete' /\ OpenedExists'
    BY <1>1 DEF TypeOK, CopiesComplete, OpenedExists
  <2>4. FixTypeOK' /\ PathOpened'
    BY <1>1 DEF TypeOK, FixTypeOK, PathOpened
  <2>5. QED
    BY <2>1, <2>2, <2>3, <2>4
<1>2. CASE stage[l] \notin {"store", "up"}
  <2>1. UNCHANGED <<vars, fix>>
    BY <1>2 DEF vars
  <2>2. QED
    BY <2>1 DEF vars, TypeOK, GateHeld, CopiesComplete, OpenedExists, FixTypeOK, PathOpened
<1>3. QED
  BY <1>1, <1>2

\* lpcctl path is through, or fails: it holds no gate.
LEMMA PathEndKeeps ==
  ASSUME StoreInv, NEW p \in Proc, SetHome(p) \/ FixFails(p)
  PROVE  StoreInv'
<1> USE FirstStartAssumption, DesktopStartAssumption
    DEF StoreInv, IInv, SetHome, FixFails, Fixing, Goto
<1>0. /\ fix[p] # "idle" /\ fix' = [fix EXCEPT ![p] = "idle"]
      /\ UNCHANGED <<catalog, gate, copy, release>>
      /\ IF p = Desktop THEN UNCHANGED pc ELSE pc' = [pc EXCEPT ![p] = "off"]
  OBVIOUS
<1>1. p # Desktop => pc[p] = "ready"
  BY <1>0 DEF PathOpened
<1>2. TypeOK' /\ FixTypeOK'
  BY <1>0 DEF TypeOK, Steps, FixTypeOK
<1>3. GateHeld' /\ CopiesComplete' /\ OpenedExists'
  BY <1>0, <1>1 DEF TypeOK, GateHeld, Gated, CopiesComplete, OpenedExists
<1>4. PathOpened'
  BY <1>0 DEF TypeOK, FixTypeOK, PathOpened
<1>5. QED
  BY <1>2, <1>3, <1>4

\* Launches, and what is done to the route, leave the store alone.
LEMMA OutsideKeeps ==
  ASSUME StoreInv, UNCHANGED store,
         \/ UNCHANGED fix \/ Repair
         \/ \E p \in Proc : PathCommand(p) \/ InstallShim(p) \/ SetEnabled(p) \/ SetPath(p)
  PROVE  StoreInv'
<1> USE DesktopStartAssumption DEF StoreInv
<1>1. IInv'
  BY DEF store, vars, IInv, TypeOK, GateHeld, CopiesComplete, OpenedExists
<1>2. FixTypeOK' /\ PathOpened'
  BY DEF FixTypeOK, PathOpened, Repair, PathCommand, InstallShim, SetEnabled, SetPath,
         Fixing, store, vars
<1>3. QED
  BY <1>1, <1>2

\* What a step of the whole does to the store: nothing, or what a process does that
\* opens it, or what the end of one does.
LEMMA StoreStep ==
  ASSUME StartNext
  PROVE  \/ \E p \in Proc : Works(p)
         \/ \E l \in Launched : Fail(l)
         \/ \E p \in Proc : SetHome(p) \/ FixFails(p)
         \/ /\ UNCHANGED store
            /\ \/ UNCHANGED fix \/ Repair
               \/ \E p \in Proc :
                    PathCommand(p) \/ InstallShim(p) \/ SetEnabled(p) \/ SetPath(p)
<1>1. CASE DesktopOpens \/ \E p \in Proc : Other(p)
  BY <1>1, DesktopStartAssumption DEF Works, DesktopOpens, Other, fixing
<1>2. CASE \E n \in Normal : Launch(n)
  BY <1>2 DEF Launch, fixing
<1>3. CASE \E l \in Launched : LaunchStep(l)
  BY <1>3 DEF LaunchStep, LookBusy, LookFree, Looked, RunTask, Refuse, LockBusy, Lock, Up,
              Answer, fixing
<1>4. CASE Age \/ Change \/ Repair
  BY <1>4 DEF Age, Change, Repair, fixing
<1>5. CASE \E p \in Proc : PathCommand(p) \/ InstallShim(p) \/ SetEnabled(p) \/ SetPath(p)
  BY <1>5 DEF PathCommand, InstallShim, SetEnabled, SetPath
<1>6. QED
  BY <1>1, <1>2, <1>3, <1>4, <1>5 DEF StartNext, Fix

\* The inductive invariant of the store, with a desktop that comes and goes.
THEOREM StoreInvariant == StartSpec => []StoreInv
<1>1. StoreInv /\ [StartNext]_all => StoreInv'
  <2> SUFFICES ASSUME StoreInv, [StartNext]_all PROVE StoreInv'
    OBVIOUS
  <2>1. CASE StartNext
    <3>1. CASE \E p \in Proc : Works(p)
      BY <3>1, OpenerKeeps
    <3>2. CASE (\E l \in Launched : Fail(l)) \/ \E p \in Proc : SetHome(p) \/ FixFails(p)
      BY <3>2, FailKeeps, PathEndKeeps
    <3>3. CASE /\ UNCHANGED store
               /\ \/ UNCHANGED fix \/ Repair
                  \/ \E p \in Proc :
                       PathCommand(p) \/ InstallShim(p) \/ SetEnabled(p) \/ SetPath(p)
      BY <3>3, OutsideKeeps
    <3>4. StartNext
      BY <2>1
    <3>5. QED
      BY <3>1, <3>2, <3>3, <3>4, StoreStep
  <2>2. CASE UNCHANGED all
    BY <2>2, OutsideKeeps DEF all, fixing
  <2>3. QED
    BY <2>1, <2>2
<1>2. QED
  BY StoreInitially, <1>1, PTL DEF StartSpec

\* A desktop that is killed and started again, at any step, loses no account either.
THEOREM RestartsLoseNothing == StartSpec => OnlyCreationLoses
<1> DEFINE Kept == catalog.accounts \subseteq catalog'.accounts \/ Creation
<1>1. StoreInv /\ [StartNext]_all => Kept \/ UNCHANGED vars
  <2> SUFFICES ASSUME StoreInv, StartNext PROVE Kept \/ UNCHANGED vars
    BY DEF all, store
  <2>1. CASE UNCHANGED catalog
    BY <2>1
  <2>2. CASE catalog' # catalog
    BY <2>2, StoreStep, StepKeepsAccounts
    DEF StoreInv, Works, Open, Fail, SetHome, FixFails, store, vars
  <2>3. QED
    BY <2>1, <2>2
<1>2. QED
  BY StoreInvariant, <1>1, PTL DEF StartSpec, OnlyCreationLoses

\* Nor does it lower the recommended version.
THEOREM RestartsKeepHint == StartSpec => HintRises
<1> DEFINE Rises == catalog.hint <= catalog'.hint \/ Creation \/ Overwritten
<1>1. StoreInv /\ [StartNext]_all => Rises \/ UNCHANGED vars
  <2> SUFFICES ASSUME StoreInv, StartNext PROVE Rises \/ UNCHANGED vars
    BY DEF all, store
  <2>1. CASE UNCHANGED catalog
    BY <2>1, HintIsNatural DEF StoreInv
  <2>2. CASE catalog' # catalog
    BY <2>2, StoreStep, StepKeepsHint
    DEF StoreInv, Works, Open, Fail, SetHome, FixFails, store, vars
  <2>3. QED
    BY <2>1, <2>2
<1>2. QED
  BY StoreInvariant, <1>1, PTL DEF StartSpec, HintRises
-----------------------------------------------------------------------------
(* What RouteRestored rests on: a repair whose steps others interleave     *)
(* with their own still leaves the route in order, and it stays in order,  *)
(* unless somebody undoes it.  (That the desktop repairs, and comes to the *)
(* end of a repair, is liveness.)                                          *)

\* Nobody undoes what a repair does: no change by others, no lpcctl path remove under
\* way, no creation of a catalog, which has takeover off.
LeftAlone ==
  /\ ~Change /\ ~Creation
  /\ \A p \in Proc : fix[p] # "idle" => ~remove[p]

\* The desktop never removes the route, and what its repair has done is in place.
RepairSoFar ==
  /\ ~remove[Desktop]
  /\ fix[Desktop] \in {"enabled", "path", "home"} => shim
  /\ fix[Desktop] \in {"path", "home"} => enabled
  /\ fix[Desktop] = "home" => path = "first"

\* A repair ends, or the route has been in order before.
Restored == SetHome(Desktop) \/ InOrder => InOrder'

\* Only PathCommand decides on a removal, and it is not for the desktop.
LEMMA DesktopInstalls == StartSpec => [](FixTypeOK /\ remove \in [Proc -> BOOLEAN] /\ ~remove[Desktop])
<1> DEFINE Installs == remove \in [Proc -> BOOLEAN] /\ ~remove[Desktop]
<1>1. StartInit => Installs
  BY DesktopStartAssumption DEF StartInit
<1>2. Installs /\ [StartNext]_all => Installs'
  BY DesktopStartAssumption
  DEF StartNext, LaunchStep, Launch, LookBusy, LookFree, Looked, RunTask, Refuse, LockBusy,
      Lock, Up, Answer, Fail, Age, Change, Repair, DesktopOpens, Other, PathCommand, Fix,
      InstallShim, SetEnabled, SetPath, SetHome, FixFails, fixing, all
<1>3. StoreInv => FixTypeOK
  BY DEF StoreInv
<1>4. QED
  BY <1>1, <1>2, <1>3, StoreInvariant, PTL DEF StartSpec

\* Whatever else goes on, a repair that is left alone keeps what it has done, and
\* what is in order stays so.
LEMMA RepairKeeps ==
  ASSUME FixTypeOK, remove \in [Proc -> BOOLEAN], ~remove'[Desktop],
         RepairSoFar, LeftAlone, StartNext
  PROVE  RepairSoFar' /\ Restored
<1> DEFINE Kept == InOrder => InOrder'
<1> USE DesktopStartAssumption DEF FixTypeOK, RepairSoFar, LeftAlone, InOrder
<1>1. ASSUME UNCHANGED route,
             \/ UNCHANGED fix \/ Repair
             \/ \E l \in Launched : Fail(l)
             \/ \E p \in Proc : PathCommand(p) \/ FixFails(p)
      PROVE  RepairSoFar' /\ Kept
  <2>1. fix'[Desktop] \in {fix[Desktop], "idle", "shim"}
    BY <1>1 DEF Repair, Fixing, Fail, PathCommand, FixFails
  <2>2. QED
    BY <1>1, <2>1 DEF route
<1>2. ASSUME DesktopOpens \/ \E p \in Proc : Other(p)
      PROVE  RepairSoFar' /\ Kept
  <2>1. UNCHANGED <<path, home, shim, fix>> /\ (enabled => enabled')
    BY <1>2 DEF DesktopOpens, Other, Flag, fixing
  <2>2. QED
    BY <2>1
<1>3. ASSUME NEW p \in Proc, InstallShim(p) \/ SetEnabled(p) \/ SetPath(p)
      PROVE  RepairSoFar' /\ Kept
  <2>1. ~remove[p] /\ fix[p] \in {"shim", "enabled", "path"}
    BY <1>3 DEF InstallShim, SetEnabled, SetPath
  <2>2. CASE InstallShim(p)
    BY <2>2 DEF InstallShim, Fixing
  <2>3. CASE SetEnabled(p)
    BY <2>1, <2>3 DEF SetEnabled, Fixing
  <2>4. CASE SetPath(p)
    BY <2>1, <2>4 DEF SetPath, Prepended, Fixing
  <2>5. QED
    BY <1>3, <2>2, <2>3, <2>4
<1>4. ASSUME NEW p \in Proc, SetHome(p)
      PROVE  RepairSoFar' /\ Kept
  <2>1. ~remove[p] /\ home' = "this" /\ UNCHANGED <<path, shim, enabled>>
    BY <1>4 DEF SetHome
  <2>2. fix'[Desktop] = IF p = Desktop THEN "idle" ELSE fix[Desktop]
    BY <1>4 DEF SetHome, Fixing
  <2>3. QED
    BY <1>4, <2>1, <2>2 DEF SetHome
<1>5. SetHome(Desktop) => InOrder'
  BY DEF SetHome
<1>6. RepairSoFar' /\ Kept
  <2> HIDE DEF FixTypeOK, RepairSoFar, LeftAlone, InOrder, Kept
  <2>1. CASE \E l \in Launched : LaunchStep(l)
    BY <1>1, <2>1
    DEF LaunchStep, LookBusy, LookFree, Looked, RunTask, Refuse, LockBusy, Lock, Up, Answer,
        fixing
  <2>2. CASE (\E n \in Normal : Launch(n)) \/ Age \/ Repair
    BY <1>1, <2>2 DEF Launch, Age, Repair, fixing
  <2>3. CASE (\E l \in Launched : Fail(l)) \/ \E p \in Proc : PathCommand(p) \/ FixFails(p)
    BY <1>1, <2>3 DEF Fail, PathCommand, FixFails
  <2>4. ~Change
    BY DEF LeftAlone
  <2>5. QED
    BY <1>2, <1>3, <1>4, <2>1, <2>2, <2>3, <2>4 DEF StartNext, Fix
<1>7. QED
  BY <1>5, <1>6 DEF Restored

\* "A running desktop app restores the secure route" (docs/ARCHITECTURE.md): a repair
\* that is left alone from its start ends with the route in order, and as long as it
\* is left alone the route stays in order, whatever state the repair found, and
\* whichever launches, openings, jobs, installations of the route and failures
\* there are between its four writes.
THEOREM RepairsRestore ==
  StartSpec => [](fix[Desktop] = "shim" /\ [][LeftAlone]_all => [][Restored]_all)
<1> DEFINE Known == FixTypeOK /\ remove \in [Proc -> BOOLEAN] /\ ~remove[Desktop]
<1>1. Known /\ fix[Desktop] = "shim" => RepairSoFar
  BY DEF RepairSoFar
<1>2. Known /\ Known' /\ RepairSoFar /\ [StartNext]_all /\ [LeftAlone]_all
        => RepairSoFar' /\ [Restored]_all
  <2> SUFFICES ASSUME Known, Known', RepairSoFar, [StartNext]_all, [LeftAlone]_all
               PROVE  RepairSoFar' /\ [Restored]_all
    OBVIOUS
  <2>1. CASE UNCHANGED all
    BY <2>1 DEF all, route, fixing, RepairSoFar
  <2>2. CASE StartNext /\ LeftAlone
    BY <2>2, RepairKeeps
  <2>3. QED
    BY <2>1, <2>2
<1>3. StartSpec => []Known
  BY DesktopInstalls
<1> HIDE DEF Known
<1>4. QED
  BY <1>1, <1>2, <1>3, PTL DEF StartSpec
=============================================================================
