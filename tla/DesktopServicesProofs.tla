----------------------- MODULE DesktopServicesProofs -----------------------
(***************************************************************************)
(* That no replacement of the services leaves an App creation behind, for  *)
(* any threads, flows, CLIs and bounds.                                    *)
(*                                                                         *)
(* A thread decides on a replacement from three values that it has read    *)
(* one after the other: the flows, the operations in flight, the creations *)
(* that are being begun.  Only the last two are counters, and none of them *)
(* is read at the instant of the decision.  The invariant says what the    *)
(* counters count (BeginsCounted, OperationsCounted) and what each value   *)
(* still tells at the steps that follow it (CountsLast).                   *)
(***************************************************************************)
EXTENDS DesktopServices, FiniteSetTheorems, TLAPS

-----------------------------------------------------------------------------
(* Counting. *)

\* One more, one less.
LEMMA CountAdded ==
  ASSUME NEW S, NEW T, NEW x, IsFiniteSet(S), x \notin S, T = S \cup {x}
  PROVE  Cardinality(S) \in Nat /\ Cardinality(T) = Cardinality(S) + 1
  BY FS_AddElement, FS_CardinalityType

LEMMA CountRemoved ==
  ASSUME NEW S, NEW T, NEW x, IsFiniteSet(S), x \in S, T = S \ {x}
  PROVE  Cardinality(S) \in Nat /\ Cardinality(T) = Cardinality(S) - 1
  BY FS_RemoveElement, FS_CardinalityType

\* Some of the threads are not more than all of them.
LEMMA SomeThreads ==
  ASSUME NEW S \in SUBSET Thread
  PROVE  /\ IsFiniteSet(S)
         /\ Cardinality(S) \in 0..Cardinality(Thread)
         /\ Cardinality(S) = 0 <=> S = {}
<1>1. IsFiniteSet(S) /\ Cardinality(S) <= Cardinality(Thread)
  BY DesktopAssumption, FS_Subset
<1>2. Cardinality(S) \in Nat /\ Cardinality(Thread) \in Nat
  BY <1>1, DesktopAssumption, FS_CardinalityType
<1>3. Cardinality(S) = 0 <=> S = {}
  BY <1>1, FS_EmptySet
<1>4. QED
  BY <1>1, <1>2, <1>3

\* Nor some of the flows.
LEMMA SomeFlows ==
  ASSUME NEW S \in SUBSET Flow
  PROVE  /\ Cardinality(S) \in 0..Cardinality(Flow)
         /\ Cardinality(S) = 0 <=> S = {}
<1>1. IsFiniteSet(S) /\ Cardinality(S) <= Cardinality(Flow)
  BY DesktopAssumption, FS_Subset
<1>2. Cardinality(S) \in Nat /\ Cardinality(Flow) \in Nat
  BY <1>1, DesktopAssumption, FS_CardinalityType
<1>3. Cardinality(S) = 0 <=> S = {}
  BY <1>1, FS_EmptySet
<1>4. QED
  BY <1>1, <1>2, <1>3

\* When no creation is being begun, no thread is at it; when no operation is in
\* flight on the current bundle, no thread is at one.
LEMMA NobodyBegins ==
  ASSUME IInv, begins = 0, NEW t \in Thread
  PROVE  pc[t] \notin {"begin", "started", "counted"}
<1>1. Beginning = {}
  BY SomeThreads DEF IInv, BeginsCounted, Beginning
<1>2. QED
  BY <1>1 DEF Beginning

LEMMA NobodyOperates ==
  ASSUME IInv, inflight[current] = 0, NEW t \in Thread
  PROVE  pc[t] \notin {"started", "final"}
<1>1. Operating(current) = {}
  BY SomeThreads DEF IInv, TypeOK, OperationsCounted, Operating
<1>2. QED
  BY <1>1 DEF Operating, IInv, OperationsOnCurrent

\* A thread that does not enter or leave what is counted leaves the counts alone.
LEMMA BeginningKept ==
  ASSUME TypeOK, NEW t \in Thread, NEW step, Goto(t, step),
         pc[t] \in {"begin", "started", "counted"} <=> step \in {"begin", "started", "counted"}
  PROVE  Beginning' = Beginning
  BY DEF TypeOK, Goto, Beginning

LEMMA OperatingKept ==
  ASSUME TypeOK, NEW t \in Thread, NEW step, Goto(t, step),
         pc[t] \notin {"started", "final"}, step \notin {"started", "final"},
         \A u \in Thread \ {t} : held'[u] = held[u],
         NEW b
  PROVE  Operating(b)' = Operating(b)
  BY DEF TypeOK, Goto, Operating

\* The counters are what they count.
LEMMA BeginsTyped ==
  ASSUME BeginsCounted'
  PROVE  begins' \in 0..Cardinality(Thread)
  BY SomeThreads DEF BeginsCounted, Beginning

LEMMA InflightTyped ==
  ASSUME OperationsCounted', NEW g, inflight' = [b \in Bundle |-> g[b]]
  PROVE  inflight' \in [Bundle -> 0..Cardinality(Thread)]
<1>1. \A b \in Bundle : Operating(b)' \in SUBSET Thread
  BY DEF Operating
<1>2. \A b \in Bundle : Cardinality(Operating(b)') \in 0..Cardinality(Thread)
  BY <1>1, SomeThreads
<1>3. \A b \in Bundle : inflight'[b] \in 0..Cardinality(Thread)
  BY <1>2 DEF OperationsCounted
<1>4. QED
  BY <1>3

\* What a command carries.
LEMMA CommandFields ==
  ASSUME NEW c \in Command
  PROVE  /\ c.op \in {"login", "create", "check", "account", "watch", "complete",
                      "cancel", "poll", "abort", "install"}
         /\ c.op \in {"complete", "cancel", "poll", "abort"} => c.flow \in Flow
         /\ c.op = "install" => c.cli \in Cli
  BY DEF Command

-----------------------------------------------------------------------------
(* Steps that have nothing to do with a replacement. *)

QuietSteps == {"idle", "read", "follow", "clone", "auth", "work", "look", "account", "request"}

Quiet(t) == pc[t] \in QuietSteps \/ (pc[t] = "operate" /\ Op(t) # "account")

Others(t) ==
  \A u \in Thread \ {t} : /\ call'[u] = call[u]
                          /\ held'[u] = held[u]
                          /\ count'[u] = count[u]

LEMMA QuietKeeps ==
  ASSUME IInv, NEW t \in Thread, NEW step, Goto(t, step), Quiet(t), Quiet(t)', Others(t),
         UNCHANGED <<services, current, changing, begins, apps, inflight>>
  PROVE  /\ ServicesHeld' /\ BeginsCounted' /\ OperationsCounted' /\ OthersEmpty'
         /\ CountsLast' /\ ChangeAlone' /\ ChangeOwned' /\ OperationsOnCurrent'
<1> USE DEF IInv, Others, Quiet, QuietSteps
<1>0. step = pc'[t] /\ pc' \in [Thread -> Steps]
  BY DEF TypeOK, Goto, Steps
<1>1. ServicesHeld'
  BY <1>0, DesktopAssumption DEF TypeOK, ServicesHeld, Holds, Op, Goto
<1>2. BeginsCounted'
  BY <1>0, BeginningKept DEF BeginsCounted
<1>3. OperationsCounted'
  BY <1>0, OperatingKept DEF OperationsCounted
<1>4. OthersEmpty'
  BY DEF OthersEmpty
<1>5. CountsLast'
  BY <1>0 DEF TypeOK, CountsLast, AtRest, Op, Goto
<1>6. ChangeAlone'
  BY <1>0 DEF TypeOK, ChangeAlone, Changing, AtRest, Goto
<1>7. ChangeOwned'
  BY <1>0 DEF TypeOK, ChangeOwned, Goto
<1>8. OperationsOnCurrent'
  BY <1>0 DEF TypeOK, OperationsOnCurrent, Goto
<1>9. QED
  BY <1>1, <1>2, <1>3, <1>4, <1>5, <1>6, <1>7, <1>8

\* A command is called.
LEMMA CallKeeps ==
  ASSUME IInv, NEW t \in Thread, NEW c \in Command, Call(t, c)
  PROVE  IInv'
<1>1. FirstStep(c.op) \in {"read", "request", "account", "clone"}
  BY DEF FirstStep
<1>2. call'[t] = c /\ pc'[t] = FirstStep(c.op)
  BY DEF IInv, TypeOK, Call, Goto
<1>3. TypeOK'
  BY <1>1, DesktopAssumption DEF IInv, TypeOK, Call, Goto, bundles, Steps
<1>4. JobAtStep'
  <2>1. JobAtStep!(t)'
    BY <1>1, <1>2, CommandFields DEF FirstStep, Op
  <2>2. ASSUME NEW u \in Thread, u # t
        PROVE  JobAtStep!(u)'
    BY <2>2 DEF IInv, TypeOK, JobAtStep, Call, Goto, Op
  <2>3. QED
    BY <2>1, <2>2 DEF JobAtStep
<1>5. /\ ServicesHeld' /\ BeginsCounted' /\ OperationsCounted' /\ OthersEmpty'
      /\ CountsLast' /\ ChangeAlone' /\ ChangeOwned' /\ OperationsOnCurrent'
  <2>1. Quiet(t) /\ Quiet(t)'
    BY <1>1, <1>2 DEF Call, Quiet, QuietSteps
  <2>2. Others(t)
    BY DEF IInv, TypeOK, Call, Others
  <2>3. QED
    BY <2>1, <2>2, QuietKeeps DEF Call, bundles
<1>6. AppFlowsKept'
  BY DEF IInv, AppFlowsKept, Call, bundles
<1>7. QED
  BY <1>3, <1>4, <1>5, <1>6 DEF IInv

\* A command returns without having held anything that others wait for, or goes on.
LEMMA ReturnTyped ==
  ASSUME TypeOK, NEW t \in Thread, Return(t)
  PROVE  /\ pc' \in [Thread -> Steps] /\ pc'[t] = "idle"
         /\ call' \in [Thread -> Command \cup {None}]
         /\ held' \in [Thread -> Bundle \cup {0}]
         /\ path' \in [Thread -> Cli \cup {None}]
         /\ count' \in [Thread -> 0..Cardinality(Flow)]
         /\ calls' \in [Thread -> 0..MaxCalls]
         /\ Others(t)
         /\ \A u \in Thread \ {t} : pc'[u] = pc[u]
<1>1. Cardinality(Flow) \in Nat
  BY SomeFlows
<1>2. QED
  BY <1>1 DEF TypeOK, Return, Goto, Steps, Others

LEMMA ReturnKeepsJobs ==
  ASSUME TypeOK, JobAtStep, NEW t \in Thread, Return(t)
  PROVE  JobAtStep'
<1>1. JobAtStep!(t)'
  BY ReturnTyped
<1>2. ASSUME NEW u \in Thread, u # t
      PROVE  JobAtStep!(u)'
  BY <1>2, ReturnTyped DEF JobAtStep, Op, Others
<1>3. QED
  BY <1>1, <1>2 DEF JobAtStep

LEMMA ProceedTyped ==
  ASSUME TypeOK, NEW t \in Thread, NEW step \in Steps, Proceed(t, step)
  PROVE  /\ pc' \in [Thread -> Steps] /\ pc'[t] = step
         /\ UNCHANGED <<call, held, path, count, calls>>
         /\ Others(t) /\ Op(t)' = Op(t)
         /\ \A u \in Thread \ {t} : pc'[u] = pc[u]
  BY DEF TypeOK, Proceed, Goto, mine, Others, Op

\* Where a command may be is known from where it was.
JobFits(o, b, step) ==
  /\ step \in {"read", "follow", "clone"} => o \notin {"account", "install"}
  /\ step \in {"len", "infl", "decide"} => o # "account"
  /\ step = "account" => o = "account"
  /\ step \in {"request", "authcount", "change", "swap", "clear"} => o = "install"
  /\ step = "operate" => o # "install"
  /\ step \in {"auth", "work", "look"} => b \in Bundle

LEMMA ProceedKeepsJobs ==
  ASSUME TypeOK, JobAtStep, NEW t \in Thread, NEW step \in Steps, Proceed(t, step),
         pc[t] # "idle", JobFits(Op(t), held[t], step)
  PROVE  JobAtStep'
<1>1. JobAtStep!(t)'
  BY ProceedTyped DEF JobAtStep, Op, JobFits
<1>2. ASSUME NEW u \in Thread, u # t
      PROVE  JobAtStep!(u)'
  BY <1>2, ProceedTyped DEF JobAtStep, Op
<1>3. QED
  BY <1>1, <1>2 DEF JobAtStep

\* A step that returns, or goes on, and takes no part in a replacement.
LEMMA QuietReturnKeeps ==
  ASSUME IInv, NEW t \in Thread, Return(t), Quiet(t),
         UNCHANGED <<services, current, changing, begins, apps, inflight>>
  PROVE  /\ JobAtStep'
         /\ ServicesHeld' /\ BeginsCounted' /\ OperationsCounted' /\ OthersEmpty'
         /\ CountsLast' /\ ChangeAlone' /\ ChangeOwned' /\ OperationsOnCurrent'
<1>1. Goto(t, "idle") /\ Quiet(t)' /\ Others(t)
  BY ReturnTyped DEF IInv, Return, Quiet, QuietSteps
<1>2. QED
  BY <1>1, QuietKeeps, ReturnKeepsJobs DEF IInv

LEMMA QuietProceedKeeps ==
  ASSUME IInv, NEW t \in Thread, NEW step \in Steps, Proceed(t, step), Quiet(t),
         step \in QuietSteps \/ (step = "operate" /\ Op(t) # "account"),
         pc[t] # "idle", JobFits(Op(t), held[t], step),
         UNCHANGED <<services, current, changing, begins, apps, inflight>>
  PROVE  /\ JobAtStep'
         /\ ServicesHeld' /\ BeginsCounted' /\ OperationsCounted' /\ OthersEmpty'
         /\ CountsLast' /\ ChangeAlone' /\ ChangeOwned' /\ OperationsOnCurrent'
<1>1. Goto(t, step) /\ Quiet(t)' /\ Others(t)
  BY ProceedTyped DEF IInv, Proceed, Quiet
<1>2. QED
  BY <1>1, QuietKeeps, ProceedKeepsJobs DEF IInv

\* The active CLI is read.
LEMMA ReadActiveKeeps ==
  ASSUME IInv, NEW t \in Thread, ReadActive(t)
  PROVE  IInv'
<1>0. PICK step \in {"follow", "clone"} :
        /\ pc[t] = "read" /\ Goto(t, step)
        /\ path' \in {path, [path EXCEPT ![t] = active]}
        /\ UNCHANGED <<active, services, current, changing, begins, bundles, told, call,
                       held, count, calls>>
  BY DEF ReadActive, Proceed, mine
<1>1. TypeOK'
  BY <1>0 DEF IInv, TypeOK, Goto, bundles, Steps
<1>2. JobAtStep'
  BY <1>0 DEF IInv, TypeOK, JobAtStep, JobFits, Goto, Op
<1>3. Quiet(t) /\ Quiet(t)' /\ Others(t)
  BY <1>0 DEF IInv, TypeOK, Goto, Quiet, QuietSteps, Others
<1>4. AppFlowsKept'
  BY <1>0 DEF IInv, AppFlowsKept, bundles
<1>5. QED
  BY <1>0, <1>1, <1>2, <1>3, <1>4, QuietKeeps DEF IInv, bundles

\* The periodic check is skipped.
LEMMA SkipWatchKeeps ==
  ASSUME IInv, NEW t \in Thread, SkipWatch(t)
  PROVE  IInv'
<1>1. TypeOK'
  BY ReturnTyped DEF IInv, TypeOK, SkipWatch, bundles
<1>2. AppFlowsKept'
  BY DEF IInv, AppFlowsKept, SkipWatch, bundles
<1>3. QED
  BY <1>1, <1>2, QuietReturnKeeps DEF IInv, SkipWatch, bundles, Quiet, QuietSteps

\* An OAuth coordinator is locked.
LEMMA LockAuthKeeps ==
  ASSUME IInv, NEW t \in Thread, LockAuth(t)
  PROVE  IInv'
<1>0. "work" \in Steps /\ JobFits(Op(t), held[t], "work")
  BY DEF IInv, JobAtStep, LockAuth, Steps, JobFits
<1>1. TypeOK'
  BY <1>0, ProceedTyped DEF IInv, TypeOK, LockAuth
<1>2. AppFlowsKept'
  BY DEF IInv, AppFlowsKept, LockAuth
<1>3. QED
  BY <1>0, <1>1, <1>2, QuietProceedKeeps DEF IInv, LockAuth, Quiet, QuietSteps

\* A login begins or ends: that is no App-creation flow.
LEMMA LoginKeeps ==
  ASSUME IInv, NEW t \in Thread, BeginLogin(t) \/ EndLogin(t)
  PROVE  IInv'
<1>1. /\ pc[t] = "work" /\ Return(t)
      /\ UNCHANGED <<active, services, current, changing, begins, cliOf, apps, inflight>>
      /\ auth' = [auth EXCEPT ![held[t]] = None]
  BY DEF BeginLogin, EndLogin
<1>2. /\ oauth' \in [Bundle -> SUBSET Flow]
      /\ told' \in [Flow -> Status]
  BY DEF IInv, TypeOK, BeginLogin, EndLogin, Status
<1>3. TypeOK'
  BY <1>1, <1>2, ReturnTyped DEF IInv, TypeOK
<1>4. \A f \in Flow : told'[f] = "app" => told[f] = "app"
  BY DEF IInv, TypeOK, BeginLogin, EndLogin
<1>5. AppFlowsKept'
  BY <1>1, <1>4 DEF IInv, AppFlowsKept
<1>6. QED
  BY <1>1, <1>3, <1>5, QuietReturnKeeps DEF IInv, Quiet, QuietSteps

-----------------------------------------------------------------------------
(* Steps of a thread that takes, holds or drops the services mutex. *)

HolderSteps == {"authcount", "len", "infl", "decide"}

LEMMA HolderKeeps ==
  ASSUME IInv, NEW t \in Thread, NEW step, Goto(t, step), Others(t),
         pc[t] \in QuietSteps \cup HolderSteps \cup {"operate"},
         step \in QuietSteps \cup HolderSteps \cup {"operate"},
         services \in {None, t}, services' = IF Holds(t)' THEN t ELSE None,
         step \in HolderSteps => ~changing,
         CountsLast!(t)',
         UNCHANGED <<current, changing, begins, apps, inflight>>
  PROVE  /\ ServicesHeld' /\ BeginsCounted' /\ OperationsCounted' /\ OthersEmpty'
         /\ CountsLast' /\ ChangeAlone' /\ ChangeOwned' /\ OperationsOnCurrent'
<1> USE DEF IInv, Others, QuietSteps, HolderSteps
<1>0. /\ step = pc'[t] /\ pc' \in [Thread -> Steps]
      /\ \A u \in Thread \ {t} : pc'[u] = pc[u]
  BY DEF TypeOK, Goto, Steps
<1>1. ServicesHeld'
  <2>1. ASSUME NEW u \in Thread, u # t
        PROVE  services' # u /\ ~Holds(u)'
    <3>1. ~Holds(u)
      BY <2>1, DesktopAssumption DEF ServicesHeld
    <3>2. QED
      BY <1>0, <2>1, <3>1, DesktopAssumption DEF Holds, Op
  <2>2. services' = t <=> Holds(t)'
    BY DesktopAssumption
  <2>3. QED
    BY <2>1, <2>2 DEF ServicesHeld
<1>2. BeginsCounted'
  BY <1>0, BeginningKept DEF BeginsCounted
<1>3. OperationsCounted'
  BY <1>0, OperatingKept DEF OperationsCounted
<1>4. OthersEmpty'
  BY DEF OthersEmpty
<1>5. CountsLast'
  <2>1. ASSUME NEW u \in Thread, u # t
        PROVE  CountsLast!(u)'
    BY <1>0, <2>1 DEF CountsLast, AtRest, Op
  <2>2. QED
    BY <2>1 DEF CountsLast
<1>6. ChangeAlone'
  BY <1>0 DEF ChangeAlone, Changing, AtRest
<1>7. ChangeOwned'
  BY <1>0 DEF ChangeOwned
<1>8. OperationsOnCurrent'
  BY <1>0 DEF OperationsOnCurrent
<1>9. QED
  BY <1>1, <1>2, <1>3, <1>4, <1>5, <1>6, <1>7, <1>8

\* The thread that holds the services is the only one, and nobody changes the runtime.
LEMMA HolderAlone ==
  ASSUME IInv, NEW t \in Thread, pc[t] \in HolderSteps
  PROVE  /\ services = t /\ Holds(t) /\ ~changing
         /\ \A u \in Thread : u # t => ~Holds(u)
         /\ \A u \in Thread : ~Changing(u)
  BY DEF IInv, ServicesHeld, Holds, HolderSteps, ChangeAlone, ChangeOwned, Changing

\* When the mutex is free nobody is at such a step.
LEMMA NobodyHolds ==
  ASSUME IInv, services = None, NEW t \in Thread
  PROVE  ~Holds(t) /\ pc[t] \notin HolderSteps
  BY DesktopAssumption DEF IInv, ServicesHeld, Holds, HolderSteps

\* The mutex is taken to follow the active CLI, or the command goes on with what
\* there is.
LEMMA FollowKeeps ==
  ASSUME IInv, NEW t \in Thread, Follow(t)
  PROVE  IInv'
<1>1. CASE MayFollow(t)
  <2>1. /\ "len" \in Steps /\ Proceed(t, "len") /\ services' = t /\ services = None
        /\ pc[t] = "follow" /\ ~changing /\ begins = 0
        /\ UNCHANGED <<active, current, changing, begins, bundles, told>>
    BY <1>1 DEF Follow, MayFollow, Steps
  <2>2. TypeOK' /\ pc'[t] = "len" /\ Op(t)' = Op(t) /\ Others(t) /\ Goto(t, "len")
    BY <2>1, ProceedTyped DEF IInv, TypeOK, bundles, Proceed
  <2>3. JobAtStep'
    BY <2>1, ProceedKeepsJobs DEF IInv, JobAtStep, JobFits
  <2>4. CountsLast!(t)' /\ Holds(t)'
    BY <2>1, <2>2 DEF Holds
  <2>5. AppFlowsKept'
    BY <2>1 DEF IInv, AppFlowsKept, bundles
  <2>6. QED
    BY <2>1, <2>2, <2>3, <2>4, <2>5, HolderKeeps DEF IInv, QuietSteps, HolderSteps, bundles
<1>2. CASE ~MayFollow(t)
  <2>1. /\ "clone" \in Steps /\ Proceed(t, "clone") /\ pc[t] = "follow"
        /\ UNCHANGED <<active, services, current, changing, begins, bundles, told>>
    BY <1>2 DEF Follow, Steps
  <2>2. JobFits(Op(t), held[t], "clone")
    BY <2>1 DEF IInv, JobAtStep, JobFits
  <2>3. TypeOK'
    BY <2>1, ProceedTyped DEF IInv, TypeOK, bundles
  <2>4. AppFlowsKept'
    BY <2>1 DEF IInv, AppFlowsKept, bundles
  <2>5. QED
    BY <2>1, <2>2, <2>3, <2>4, QuietProceedKeeps DEF IInv, Quiet, QuietSteps, bundles
<1>3. QED
  BY <1>1, <1>2

\* The services are given back unchanged.
LEMMA GiveUpKeeps ==
  ASSUME IInv, NEW t \in Thread, pc[t] \in HolderSteps, GiveUp(t),
         UNCHANGED <<active, current, changing, begins, bundles, told>>
  PROVE  IInv'
<1>1. services = t /\ services' = None
  BY HolderAlone DEF GiveUp
<1>2. AppFlowsKept'
  BY DEF IInv, AppFlowsKept, bundles
<1>3. CASE Op(t) = "install"
  <2>1. Return(t)
    BY <1>3 DEF GiveUp
  <2>2. Goto(t, "idle") /\ Others(t) /\ pc'[t] = "idle" /\ TypeOK'
    BY <1>1, <2>1, ReturnTyped DEF IInv, TypeOK, bundles, Return
  <2>3. CountsLast!(t)' /\ ~Holds(t)'
    BY <2>2 DEF Holds
  <2>4. QED
    BY <1>1, <1>2, <2>1, <2>2, <2>3, ReturnKeepsJobs, HolderKeeps
       DEF IInv, QuietSteps, HolderSteps, bundles
<1>4. CASE Op(t) # "install"
  <2>1. Proceed(t, "clone") /\ "clone" \in Steps
    BY <1>4 DEF GiveUp, Steps
  <2>2. Goto(t, "clone") /\ Others(t) /\ pc'[t] = "clone" /\ TypeOK'
    BY <1>1, <2>1, ProceedTyped DEF IInv, TypeOK, bundles, Proceed
  <2>3. CountsLast!(t)' /\ ~Holds(t)'
    BY <2>2 DEF Holds
  <2>4. JobAtStep'
    <3>1. JobFits(Op(t), held[t], "clone") /\ pc[t] # "idle"
      BY <1>4 DEF IInv, JobAtStep, HolderSteps, JobFits
    <3>2. QED
      BY <2>1, <3>1, ProceedKeepsJobs DEF IInv
  <2>5. QED
    BY <1>1, <1>2, <2>2, <2>3, <2>4, HolderKeeps
       DEF IInv, QuietSteps, HolderSteps, bundles
<1>5. QED
  BY <1>3, <1>4

\* The flows are counted: none means that there are none.
LEMMA CountFlowsKeeps ==
  ASSUME IInv, NEW t \in Thread, CountFlows(t)
  PROVE  IInv'
<1>1. /\ apps[current] \in SUBSET Flow
      /\ Cardinality(apps[current]) \in 0..Cardinality(Flow)
      /\ Cardinality(apps[current]) = 0 => apps[current] = {}
  BY SomeFlows DEF IInv, TypeOK
<1>2. /\ pc[t] = "len" /\ Goto(t, "infl") /\ services = t /\ ~changing
      /\ UNCHANGED <<active, services, current, changing, begins, bundles, told, call, held>>
  BY HolderAlone DEF CountFlows, HolderSteps
<1>3. /\ TypeOK' /\ Others(t) /\ pc'[t] = "infl" /\ Op(t)' = Op(t)
      /\ count'[t] = Cardinality(apps[current])
  BY <1>1 DEF IInv, TypeOK, CountFlows, Goto, Steps, bundles, Others, Op
<1>4. JobAtStep'
  BY <1>2 DEF IInv, TypeOK, JobAtStep, Goto, Op
<1>5. CountsLast!(t)' /\ Holds(t)'
  BY <1>1, <1>2, <1>3 DEF IInv, CountsLast, Holds, bundles
<1>6. AppFlowsKept'
  BY <1>2 DEF IInv, AppFlowsKept, bundles
<1>7. QED
  BY <1>2, <1>3, <1>4, <1>5, <1>6, HolderKeeps DEF IInv, QuietSteps, HolderSteps, bundles

\* A holder goes on holding.
LEMMA HolderProceedKeeps ==
  ASSUME IInv, NEW t \in Thread, pc[t] \in HolderSteps,
         NEW step \in HolderSteps, Proceed(t, step),
         JobFits(Op(t), held[t], step), CountsLast!(t)',
         UNCHANGED <<active, services, current, changing, begins, bundles, told>>
  PROVE  IInv'
<1>1. /\ step \in Steps /\ services = t /\ ~changing /\ pc[t] # "idle"
      /\ Goto(t, step)
  BY HolderAlone DEF HolderSteps, Steps, Proceed
<1>2. TypeOK' /\ Others(t) /\ pc'[t] = step
  BY <1>1, ProceedTyped DEF IInv, TypeOK, bundles
<1>3. JobAtStep'
  BY <1>1, ProceedKeepsJobs DEF IInv
<1>4. Holds(t)'
  BY <1>2 DEF Holds, HolderSteps
<1>5. AppFlowsKept'
  BY DEF IInv, AppFlowsKept, bundles
<1>6. QED
  BY <1>1, <1>2, <1>3, <1>4, <1>5, HolderKeeps DEF IInv, bundles

\* The operations are counted: if there are none, the flows are still none.
LEMMA CountOperationsKeeps ==
  ASSUME IInv, NEW t \in Thread, CountOperations(t)
  PROVE  IInv'
<1>1. pc[t] \in HolderSteps /\ pc[t] = "infl"
  BY DEF CountOperations, HolderSteps
<1>2. CASE count[t] + inflight[current] > 0
  BY <1>1, <1>2, GiveUpKeeps DEF CountOperations
<1>3. CASE ~(count[t] + inflight[current] > 0)
  <2>1. count[t] = 0 /\ inflight[current] = 0
    <3>1. Cardinality(Flow) \in Nat /\ Cardinality(Thread) \in Nat
      BY SomeFlows, SomeThreads
    <3>2. count[t] \in Nat /\ inflight[current] \in Nat
      BY <3>1 DEF IInv, TypeOK
    <3>3. QED
      BY <1>3, <3>2
  <2>2. /\ Proceed(t, "decide") /\ "decide" \in HolderSteps /\ "decide" \in Steps
        /\ UNCHANGED <<active, services, current, changing, begins, bundles, told>>
    BY <1>3 DEF CountOperations, HolderSteps, Steps
  <2>3. pc'[t] = "decide" /\ Op(t)' = Op(t)
    BY <2>2, ProceedTyped DEF IInv
  <2>4. CountsLast!(t)'
    BY <1>1, <2>1, <2>2, <2>3 DEF IInv, CountsLast, AtRest, bundles
  <2>5. JobFits(Op(t), held[t], "decide")
    BY <1>1 DEF IInv, JobAtStep, JobFits
  <2>6. QED
    BY <1>1, <2>2, <2>4, <2>5, HolderProceedKeeps
<1>4. QED
  BY <1>2, <1>3

\* The OAuth flows are counted.
LEMMA CountLoginsKeeps ==
  ASSUME IInv, NEW t \in Thread, CountLogins(t)
  PROVE  IInv'
<1>1. pc[t] \in HolderSteps /\ pc[t] = "authcount"
  BY DEF CountLogins, HolderSteps
<1>2. CASE oauth[current] # {}
  BY <1>1, <1>2, GiveUpKeeps DEF CountLogins
<1>3. CASE oauth[current] = {}
  <2>1. /\ Proceed(t, "len") /\ "len" \in HolderSteps /\ "len" \in Steps
        /\ UNCHANGED <<active, services, current, changing, begins, bundles, told>>
    BY <1>3 DEF CountLogins, HolderSteps, Steps
  <2>2. Op(t) = "install" /\ JobFits(Op(t), held[t], "len")
    BY <1>1 DEF IInv, JobAtStep, JobFits
  <2>3. CountsLast!(t)'
    BY <2>1, <2>2, ProceedTyped DEF IInv
  <2>4. QED
    BY <1>1, <2>1, <2>2, <2>3, HolderProceedKeeps
<1>4. QED
  BY <1>2, <1>3

\* A change of the runtime is asked for.
LEMMA RequestChangeKeeps ==
  ASSUME IInv, NEW t \in Thread, RequestChange(t)
  PROVE  IInv'
<1>1. /\ pc[t] = "request" /\ services = None
      /\ UNCHANGED <<active, current, changing, begins, bundles, told>>
  BY DEF RequestChange
<1>2. AppFlowsKept'
  BY <1>1 DEF IInv, AppFlowsKept, bundles
<1>3. CASE changing
  <2>1. UNCHANGED services /\ Return(t)
    BY <1>3 DEF RequestChange
  <2>2. TypeOK'
    BY <1>1, <2>1, ReturnTyped DEF IInv, TypeOK, bundles
  <2>3. QED
    BY <1>1, <1>2, <2>1, <2>2, QuietReturnKeeps DEF IInv, Quiet, QuietSteps, bundles
<1>4. CASE ~changing
  <2>1. services' = t /\ Proceed(t, "authcount") /\ "authcount" \in Steps
    BY <1>4 DEF RequestChange, Steps
  <2>2. /\ TypeOK' /\ pc'[t] = "authcount" /\ Others(t) /\ Goto(t, "authcount")
    BY <1>1, <2>1, ProceedTyped DEF IInv, TypeOK, bundles, Proceed
  <2>3. JobFits(Op(t), held[t], "authcount")
    BY <1>1 DEF IInv, JobAtStep, JobFits
  <2>4. JobAtStep'
    BY <1>1, <2>1, <2>3, ProceedKeepsJobs DEF IInv
  <2>5. CountsLast!(t)' /\ Holds(t)'
    BY <2>2 DEF Holds
  <2>6. QED
    BY <1>1, <1>2, <1>4, <2>1, <2>2, <2>4, <2>5, HolderKeeps
       DEF IInv, QuietSteps, HolderSteps, bundles
<1>5. QED
  BY <1>3, <1>4

\* A command on accounts takes the services, and gives them back at its end.
LEMMA LockServicesKeeps ==
  ASSUME IInv, NEW t \in Thread, LockServices(t)
  PROVE  IInv'
<1>1. /\ pc[t] = "account" /\ services = None /\ services' = t
      /\ Proceed(t, "operate") /\ "operate" \in Steps
      /\ UNCHANGED <<active, current, changing, begins, bundles, told>>
  BY DEF LockServices, Steps
<1>2. TypeOK' /\ pc'[t] = "operate" /\ Op(t)' = Op(t) /\ Others(t) /\ Goto(t, "operate")
  BY <1>1, ProceedTyped DEF IInv, TypeOK, bundles, Proceed
<1>3. Op(t) = "account"
  BY <1>1 DEF IInv, JobAtStep
<1>4. JobFits(Op(t), held[t], "operate")
  BY <1>3 DEF JobFits
<1>5. JobAtStep'
  BY <1>1, <1>4, ProceedKeepsJobs DEF IInv
<1>6. CountsLast!(t)' /\ Holds(t)'
  BY <1>2, <1>3 DEF Holds
<1>7. AppFlowsKept'
  BY <1>1 DEF IInv, AppFlowsKept, bundles
<1>8. QED
  BY <1>1, <1>2, <1>5, <1>6, <1>7, HolderKeeps DEF IInv, QuietSteps, HolderSteps, bundles

LEMMA OperateKeeps ==
  ASSUME IInv, NEW t \in Thread, Operate(t)
  PROVE  IInv'
<1>1. /\ pc[t] = "operate" /\ Return(t) /\ Goto(t, "idle")
      /\ services' = IF services = t THEN None ELSE services
      /\ UNCHANGED <<active, current, changing, begins, bundles, told>>
  BY DEF Operate, Return
<1>2. TypeOK' /\ JobAtStep' /\ pc'[t] = "idle" /\ Others(t)
  BY <1>1, ReturnTyped, ReturnKeepsJobs DEF IInv, TypeOK, bundles
<1>3. AppFlowsKept'
  BY <1>1 DEF IInv, AppFlowsKept, bundles
<1>4. CASE Op(t) = "account"
  <2>1. services = t /\ services' = None
    BY <1>1, <1>4 DEF IInv, ServicesHeld, Holds
  <2>2. CountsLast!(t)' /\ ~Holds(t)'
    BY <1>2 DEF Holds
  <2>3. QED
    BY <1>1, <1>2, <1>3, <2>1, <2>2, HolderKeeps DEF IInv, QuietSteps, HolderSteps, bundles
<1>5. CASE Op(t) # "account"
  <2>1. UNCHANGED services
    BY <1>1, <1>5 DEF IInv, ServicesHeld, Holds
  <2>2. QED
    BY <1>1, <1>2, <1>3, <1>5, <2>1, QuietReturnKeeps DEF IInv, Quiet, bundles
<1>6. QED
  BY <1>4, <1>5

-----------------------------------------------------------------------------
(* Replacing the services. *)

\* When nothing is begun or in flight, nobody has a flow or an operation on the
\* bundle that is replaced.
LEMMA ReplaceKeeps ==
  ASSUME IInv, begins = 0, AtRest, NEW t \in Thread,
         NEW step \in {"idle", "clone"}, Goto(t, step), current' \in Bundle,
         UNCHANGED <<apps, told>>
  PROVE  OthersEmpty' /\ OperationsOnCurrent' /\ AppFlowsKept'
<1>1. \A b \in Bundle : apps[b] = {}
  BY DEF IInv, TypeOK, OthersEmpty, AtRest
<1>2. \A u \in Thread : pc'[u] \notin {"begin", "started", "final"}
  <2>1. \A u \in Thread : pc[u] \notin {"begin", "started", "final"}
    BY NobodyBegins, NobodyOperates DEF AtRest
  <2>2. QED
    BY <2>1 DEF IInv, TypeOK, Goto
<1>3. \A f \in Flow : told[f] # "app"
  BY <1>1 DEF IInv, TypeOK, AppFlowsKept
<1>4. QED
  BY <1>1, <1>2, <1>3 DEF OthersEmpty, OperationsOnCurrent, AppFlowsKept

\* The number of the next bundle.
LEMMA NextBundle ==
  ASSUME TypeOK, current < MaxBundle
  PROVE  current + 1 \in Bundle
  BY DesktopAssumption DEF TypeOK, Bundle

\* The services follow the active CLI.
LEMMA SwapToActiveKeeps ==
  ASSUME IInv, NEW t \in Thread, SwapToActive(t)
  PROVE  IInv'
<1>1. /\ pc[t] = "decide" /\ Op(t) # "install" /\ services' = None
      /\ Proceed(t, "clone") /\ Goto(t, "clone") /\ "clone" \in Steps
      /\ UNCHANGED <<active, changing, begins, auth, oauth, apps, inflight, told>>
  BY DEF SwapToActive, Proceed, Steps
<1>2. /\ services = t /\ Holds(t) /\ ~changing
      /\ \A u \in Thread : u # t => ~Holds(u)
      /\ \A u \in Thread : ~Changing(u)
  BY <1>1, HolderAlone DEF HolderSteps
<1>3. begins = 0 /\ AtRest
  BY <1>1 DEF IInv, CountsLast
<1>4. current' \in Bundle /\ cliOf' \in [Bundle -> Cli \cup {None}]
  BY NextBundle DEF IInv, TypeOK, SwapToActive
<1>5. /\ TypeOK' /\ Others(t) /\ Op(t)' = Op(t) /\ pc'[t] = "clone"
      /\ \A u \in Thread \ {t} : pc'[u] = pc[u]
  BY <1>1, <1>4, ProceedTyped DEF IInv, TypeOK
<1>6. JobAtStep'
  <2>1. JobFits(Op(t), held[t], "clone") /\ pc[t] # "idle"
    BY <1>1 DEF IInv, JobAtStep, JobFits
  <2>2. QED
    BY <1>1, <2>1, ProceedKeepsJobs DEF IInv
<1>7. \A u \in Thread : ~Holds(u)' /\ ~Changing(u)'
  BY <1>2, <1>5 DEF Holds, Changing, Op, Others
<1>8. ServicesHeld'
  BY <1>1, <1>7, DesktopAssumption DEF ServicesHeld
<1>9. BeginsCounted' /\ OperationsCounted'
  BY <1>1, <1>5, BeginningKept, OperatingKept DEF IInv, BeginsCounted, OperationsCounted, Others
<1>10. CountsLast' /\ ChangeAlone' /\ ChangeOwned'
  BY <1>1, <1>2, <1>7 DEF CountsLast, ChangeAlone, ChangeOwned, Holds, Changing
<1>11. OthersEmpty' /\ OperationsOnCurrent' /\ AppFlowsKept'
  BY <1>1, <1>3, <1>4, ReplaceKeeps
<1>12. QED
  BY <1>5, <1>6, <1>8, <1>9, <1>10, <1>11 DEF IInv

\* A change of the runtime begins, unless an App creation does.
LEMMA StartChangeKeeps ==
  ASSUME IInv, NEW t \in Thread, StartChange(t)
  PROVE  IInv'
<1>1. /\ pc[t] = "decide" /\ Op(t) = "install" /\ pc[t] \in HolderSteps
      /\ UNCHANGED <<active, current, begins, bundles, told>>
  BY DEF StartChange, HolderSteps
<1>2. CASE begins > 0
  BY <1>1, <1>2, GiveUpKeeps DEF StartChange
<1>3. CASE ~(begins > 0)
  <2>1. /\ services' = None /\ changing' = TRUE
        /\ Proceed(t, "change") /\ Goto(t, "change") /\ "change" \in Steps
    BY <1>3 DEF StartChange, Proceed, Steps
  <2>2. /\ services = t /\ ~changing
        /\ \A u \in Thread : u # t => ~Holds(u)
        /\ \A u \in Thread : ~Changing(u)
    BY <1>1, HolderAlone
  <2>3. begins = 0
    BY <1>3, SomeThreads DEF IInv, TypeOK, BeginsCounted, Beginning
  <2>4. AtRest /\ AtRest'
    BY <1>1, <2>3 DEF IInv, CountsLast, AtRest, bundles
  <2>5. /\ TypeOK' /\ Others(t) /\ pc'[t] = "change"
        /\ \A u \in Thread \ {t} : pc'[u] = pc[u]
    BY <1>1, <2>1, ProceedTyped DEF IInv, TypeOK, bundles
  <2>6. JobAtStep'
    <3>1. JobFits(Op(t), held[t], "change") /\ pc[t] # "idle"
      BY <1>1 DEF JobFits
    <3>2. QED
      BY <2>1, <3>1, ProceedKeepsJobs DEF IInv
  <2>7. \A u \in Thread : ~Holds(u)' /\ (Changing(u)' <=> u = t)
    BY <2>2, <2>5 DEF Holds, Changing, Op, Others
  <2>8. ServicesHeld'
    BY <2>1, <2>7, DesktopAssumption DEF ServicesHeld
  <2>9. BeginsCounted' /\ OperationsCounted'
    BY <1>1, <2>1, <2>5, BeginningKept, OperatingKept
       DEF IInv, BeginsCounted, OperationsCounted, Others, bundles
  <2>10. CountsLast' /\ ChangeAlone' /\ ChangeOwned'
    BY <1>1, <2>1, <2>3, <2>4, <2>7 DEF CountsLast, ChangeAlone, ChangeOwned, Holds, Changing
  <2>11. OthersEmpty' /\ AppFlowsKept'
    BY <1>1 DEF IInv, OthersEmpty, AppFlowsKept, bundles
  <2>12. OperationsOnCurrent'
    BY <1>1, <2>5 DEF IInv, OperationsOnCurrent, Others
  <2>13. QED
    BY <2>5, <2>6, <2>8, <2>9, <2>10, <2>11, <2>12 DEF IInv
<1>4. QED
  BY <1>2, <1>3

\* What is known while a thread changes the runtime.
LEMMA ChangerAlone ==
  ASSUME IInv, NEW t \in Thread, Changing(t)
  PROVE  /\ changing /\ begins = 0 /\ AtRest
         /\ \A u \in Thread : u # t => ~Changing(u)
         /\ \A u \in Thread : pc[u] \notin HolderSteps
  BY DEF IInv, ChangeAlone, ChangeOwned, Changing, HolderSteps

\* The change is made, or fails.
LEMMA ChangeRuntimeKeeps ==
  ASSUME IInv, NEW t \in Thread, ChangeRuntime(t)
  PROVE  IInv'
<1>1. /\ pc[t] = "change" /\ Changing(t)
      /\ UNCHANGED <<services, current, changing, begins, bundles, told>>
  BY DEF ChangeRuntime, Changing
<1>2. PICK step \in {"swap", "clear"} : Proceed(t, step)
  BY DEF ChangeRuntime
<1>3. step \in Steps /\ Goto(t, step)
  BY <1>2 DEF Steps, Proceed
<1>4. call[t].cli \in Cli /\ Op(t) = "install"
  <2>1. call[t] \in Command /\ Op(t) = "install"
    BY <1>1 DEF IInv, JobAtStep
  <2>2. QED
    BY <2>1, CommandFields DEF Op
<1>5. /\ TypeOK' /\ Others(t) /\ pc'[t] = step /\ Op(t)' = Op(t)
      /\ \A u \in Thread \ {t} : pc'[u] = pc[u]
  <2>1. active' \in Cli
    BY <1>4 DEF IInv, TypeOK, ChangeRuntime
  <2>2. QED
    BY <1>1, <1>2, <1>3, <2>1, ProceedTyped DEF IInv, TypeOK, bundles
<1>6. JobAtStep'
  <2>1. JobFits(Op(t), held[t], step) /\ pc[t] # "idle"
    BY <1>1, <1>4 DEF JobFits
  <2>2. QED
    BY <1>2, <1>3, <2>1, ProceedKeepsJobs DEF IInv
<1>7. /\ \A u \in Thread : Holds(u)' <=> Holds(u)
      /\ \A u \in Thread : Changing(u)' <=> Changing(u)
  BY <1>1, <1>5 DEF Holds, Changing, Op, Others
<1>8. ServicesHeld'
  BY <1>1, <1>7 DEF IInv, ServicesHeld
<1>9. BeginsCounted' /\ OperationsCounted'
  BY <1>1, <1>3, <1>5, BeginningKept, OperatingKept
     DEF IInv, BeginsCounted, OperationsCounted, Others, bundles
<1>10. CountsLast' /\ ChangeAlone' /\ ChangeOwned'
  <2>1. \A u \in Thread : pc'[u] \notin HolderSteps
    BY <1>1, <1>5, ChangerAlone DEF HolderSteps
  <2>2. AtRest' /\ changing' /\ begins' = 0
    BY <1>1, ChangerAlone DEF AtRest, bundles
  <2>3. \A u \in Thread : Changing(u)' <=> u = t
    BY <1>1, <1>7, ChangerAlone
  <2>4. QED
    BY <2>1, <2>2, <2>3 DEF HolderSteps, CountsLast, ChangeAlone, ChangeOwned, Changing
<1>11. OthersEmpty' /\ AppFlowsKept'
  BY <1>1 DEF IInv, OthersEmpty, AppFlowsKept, bundles
<1>12. OperationsOnCurrent'
  BY <1>1, <1>5 DEF IInv, OperationsOnCurrent, Others
<1>13. QED
  BY <1>5, <1>6, <1>8, <1>9, <1>10, <1>11, <1>12 DEF IInv

\* It ends: with new services, or with the old ones.
LEMMA EndChangeKeeps ==
  ASSUME IInv, NEW t \in Thread, SwapServices(t) \/ ClearChange(t)
  PROVE  IInv'
<1>1. /\ Changing(t) /\ services = None /\ services' = None /\ changing' = FALSE
      /\ Return(t) /\ Goto(t, "idle")
      /\ UNCHANGED <<auth, oauth, apps, inflight, told>>
  BY DEF SwapServices, ClearChange, Changing, Return, bundles
<1>2. /\ begins = 0 /\ AtRest
      /\ \A u \in Thread : u # t => ~Changing(u)
      /\ \A u \in Thread : pc[u] \notin HolderSteps
  BY <1>1, ChangerAlone
<1>3. begins' = 0 /\ UNCHANGED begins
  BY <1>2 DEF SwapServices, ClearChange
<1>4. /\ current' \in Bundle /\ cliOf' \in [Bundle -> Cli \cup {None}] /\ active' = active
  <2>1. call[t] \in Command /\ Op(t) = "install"
    BY <1>1 DEF IInv, JobAtStep, Changing
  <2>2. call[t].cli \in Cli
    BY <2>1, CommandFields DEF Op
  <2>3. CASE SwapServices(t)
    BY <2>2, <2>3, NextBundle DEF IInv, TypeOK, SwapServices
  <2>4. CASE ClearChange(t)
    BY <2>4 DEF IInv, TypeOK, ClearChange, bundles
  <2>5. QED
    BY <2>3, <2>4
<1>5. /\ TypeOK' /\ JobAtStep' /\ Others(t) /\ pc'[t] = "idle"
      /\ \A u \in Thread \ {t} : pc'[u] = pc[u]
  BY <1>1, <1>3, <1>4, ReturnTyped, ReturnKeepsJobs DEF IInv, TypeOK
<1>6. \A u \in Thread : ~Holds(u)' /\ ~Changing(u)' /\ pc'[u] \notin HolderSteps
  BY <1>1, <1>2, <1>5, NobodyHolds DEF Holds, Changing, HolderSteps, Op, Others
<1>7. ServicesHeld'
  BY <1>1, <1>6, DesktopAssumption DEF ServicesHeld
<1>8. BeginsCounted' /\ OperationsCounted'
  BY <1>1, <1>3, <1>5, BeginningKept, OperatingKept
     DEF IInv, BeginsCounted, OperationsCounted, Others, Changing
<1>9. CountsLast' /\ ChangeAlone' /\ ChangeOwned'
  BY <1>1, <1>6 DEF CountsLast, ChangeAlone, ChangeOwned, Changing, HolderSteps
<1>10. OthersEmpty' /\ OperationsOnCurrent' /\ AppFlowsKept'
  BY <1>1, <1>2, <1>4, ReplaceKeeps
<1>11. QED
  BY <1>5, <1>7, <1>8, <1>9, <1>10 DEF IInv

-----------------------------------------------------------------------------
(* App creations. *)

\* What a thread needs to know of the others when it begins or ends an operation.
LEMMA CreationFrame ==
  ASSUME IInv, NEW t \in Thread, NEW step, Goto(t, step), Others(t),
         pc[t] \in {"clone", "begin", "started", "counted", "look", "final"},
         step \in {"idle", "begin", "started", "counted", "final"},
         UNCHANGED <<services, current, changing>>
  PROVE  /\ pc'[t] = step /\ \A u \in Thread \ {t} : pc'[u] = pc[u]
         /\ ServicesHeld' /\ ChangeOwned'
         /\ \A u \in Thread : Changing(u)' <=> Changing(u)
         /\ \A u \in Thread : pc'[u] \in HolderSteps <=> pc[u] \in HolderSteps
         /\ \A u \in Thread : pc'[u] \in HolderSteps =>
              /\ pc'[u] = pc[u] /\ Op(u)' = Op(u) /\ count'[u] = count[u]
<1>1. pc'[t] = step /\ \A u \in Thread \ {t} : pc'[u] = pc[u]
  BY DEF IInv, TypeOK, Goto
<1>2. \A u \in Thread \ {t} : Op(u)' = Op(u)
  BY DEF Op, Others
<1>3. \A u \in Thread : Holds(u)' <=> Holds(u)
  BY <1>1, <1>2 DEF Holds
<1>4. \A u \in Thread : Changing(u)' <=> Changing(u)
  BY <1>1 DEF Changing
<1>5. \A u \in Thread : /\ pc'[u] \in HolderSteps <=> pc[u] \in HolderSteps
                        /\ pc'[u] \in HolderSteps => u # t
  BY <1>1 DEF HolderSteps
<1>6. ServicesHeld' /\ ChangeOwned'
  BY <1>3, <1>4 DEF IInv, ServicesHeld, ChangeOwned, Changing
<1>7. QED
  BY <1>1, <1>2, <1>4, <1>5, <1>6 DEF Others

\* A handle is taken; an App creation is counted from this moment.
LEMMA CloneKeeps ==
  ASSUME IInv, NEW t \in Thread, Clone(t)
  PROVE  IInv'
<1>1. /\ pc[t] = "clone" /\ services = None
      /\ UNCHANGED <<active, services, current, changing, bundles, told>>
  BY DEF Clone
<1>2. AppFlowsKept'
  BY <1>1 DEF IInv, AppFlowsKept, bundles
<1>3. CASE Refused(t)
  <2>1. Return(t) /\ UNCHANGED begins
    BY <1>3 DEF Clone
  <2>2. TypeOK'
    BY <1>1, <2>1, ReturnTyped DEF IInv, TypeOK, bundles
  <2>3. QED
    BY <1>1, <1>2, <2>1, <2>2, QuietReturnKeeps DEF IInv, Quiet, QuietSteps, bundles
<1>4. CASE ~Refused(t)
  <2> DEFINE step == AfterClone(Op(t))
  <2>1. /\ held' = [held EXCEPT ![t] = current] /\ Goto(t, step)
        /\ begins' = IF Op(t) = "create" THEN begins + 1 ELSE begins
        /\ UNCHANGED <<call, path, count, calls>>
    BY <1>4 DEF Clone
  <2>2. /\ call[t] \in Command /\ Op(t) \notin {"account", "install"}
        /\ Op(t) \in {"login", "create", "check", "watch", "complete", "cancel", "poll", "abort"}
    <3>1. call[t] \in Command /\ Op(t) \notin {"account", "install"}
      BY <1>1 DEF IInv, JobAtStep
    <3>2. QED
      BY <3>1, CommandFields DEF Op
  <2>3. /\ Op(t) = "create" => step = "begin"
        /\ Op(t) # "create" => step \in {"auth", "look", "operate"}
    BY <2>2 DEF AfterClone
  <2> HIDE DEF step
  <2>4. /\ pc' \in [Thread -> Steps] /\ held' \in [Thread -> Bundle \cup {0}]
        /\ pc'[t] = step /\ held'[t] = current /\ Others(t) /\ Op(t)' = Op(t)
        /\ \A u \in Thread \ {t} : pc'[u] = pc[u]
    BY <2>1, <2>3 DEF IInv, TypeOK, Goto, Steps, Others, Op
  <2>5. JobAtStep'
    <3>1. JobAtStep!(t)'
      BY <2>1, <2>2, <2>3, <2>4 DEF IInv, TypeOK
    <3>2. ASSUME NEW u \in Thread, u # t
          PROVE  JobAtStep!(u)'
      BY <3>2, <2>4 DEF IInv, JobAtStep, Op, Others
    <3>3. QED
      BY <3>1, <3>2 DEF JobAtStep
  <2>6. CASE Op(t) # "create"
    <3>1. TypeOK'
      BY <1>1, <2>1, <2>4, <2>6 DEF IInv, TypeOK, bundles
    <3>2. Quiet(t) /\ Quiet(t)'
      BY <1>1, <2>2, <2>3, <2>4, <2>6 DEF Quiet, QuietSteps
    <3>3. QED
      BY <1>1, <1>2, <2>1, <2>4, <2>5, <2>6, <3>1, <3>2, QuietKeeps DEF IInv, bundles
  <2>7. CASE Op(t) = "create"
    <3>1. step = "begin" /\ begins' = begins + 1 /\ ~changing
      BY <1>4, <2>1, <2>3, <2>7 DEF Refused
    <3>2. BeginsCounted'
      <4>1. Beginning' = Beginning \cup {t} /\ t \notin Beginning /\ IsFiniteSet(Beginning)
        BY <1>1, <2>4, <3>1, SomeThreads DEF Beginning
      <4>2. QED
        BY <3>1, <4>1, CountAdded DEF IInv, BeginsCounted
    <3>3. OperationsCounted'
      BY <1>1, <2>1, <2>4, <3>1, OperatingKept DEF IInv, OperationsCounted, Others, bundles
    <3>4. TypeOK'
      BY <1>1, <2>1, <2>4, <3>2, BeginsTyped DEF IInv, TypeOK, bundles
    <3>5. /\ ServicesHeld' /\ ChangeOwned'
          /\ \A u \in Thread : Changing(u)' <=> Changing(u)
          /\ \A u \in Thread : pc'[u] \notin HolderSteps
      BY <1>1, <2>1, <2>4, <3>1, CreationFrame, NobodyHolds
    <3>6. CountsLast' /\ ChangeAlone'
      BY <1>1, <3>1, <3>5 DEF IInv, CountsLast, ChangeAlone, HolderSteps
    <3>7. OthersEmpty'
      BY <1>1 DEF IInv, OthersEmpty, bundles
    <3>8. OperationsOnCurrent'
      BY <1>1, <2>4 DEF IInv, OperationsOnCurrent, Others
    <3>9. QED
      BY <1>2, <2>5, <3>2, <3>3, <3>4, <3>5, <3>6, <3>7, <3>8 DEF IInv
  <2>8. QED
    BY <2>6, <2>7
<1>5. QED
  BY <1>3, <1>4

\* A thread that begins or ends an operation on the current bundle changes its count by
\* one, and no other.
LEMMA OperationBegins ==
  ASSUME IInv, NEW t \in Thread, NEW b \in Bundle, held[t] = b, held' = held,
         pc[t] \notin {"started", "final"}, pc'[t] \in {"started", "final"},
         \A u \in Thread \ {t} : pc'[u] = pc[u],
         inflight' = [inflight EXCEPT ![b] = @ + 1]
  PROVE  OperationsCounted'
<1>1. Operating(b)' = Operating(b) \cup {t} /\ t \notin Operating(b)
  BY DEF Operating
<1>2. Cardinality(Operating(b)') = Cardinality(Operating(b)) + 1
  <2>1. IsFiniteSet(Operating(b))
    BY SomeThreads DEF Operating
  <2>2. QED
    BY <1>1, <2>1, CountAdded
<1>3. \A d \in Bundle : d # b => Operating(d)' = Operating(d)
  BY DEF Operating
<1>4. QED
  BY <1>2, <1>3 DEF IInv, TypeOK, OperationsCounted

LEMMA OperationEnds ==
  ASSUME IInv, NEW t \in Thread, NEW b \in Bundle, held[t] = b,
         \A u \in Thread \ {t} : held'[u] = held[u],
         pc[t] \in {"started", "final"}, pc'[t] \notin {"started", "final"},
         \A u \in Thread \ {t} : pc'[u] = pc[u],
         inflight' = [inflight EXCEPT ![b] = @ - 1]
  PROVE  OperationsCounted'
<1>1. Operating(b)' = Operating(b) \ {t} /\ t \in Operating(b)
  BY DEF Operating
<1>2. Cardinality(Operating(b)') = Cardinality(Operating(b)) - 1
  <2>1. IsFiniteSet(Operating(b))
    BY SomeThreads DEF Operating
  <2>2. QED
    BY <1>1, <2>1, CountRemoved
<1>3. \A d \in Bundle : d # b => Operating(d)' = Operating(d)
  BY DEF Operating
<1>4. QED
  BY <1>2, <1>3 DEF IInv, TypeOK, OperationsCounted

\* While a creation is being begun, no runtime is changed and nobody who counts is
\* misled by what it does.
LEMMA WhileBeginning ==
  ASSUME IInv, NEW t \in Thread, pc[t] \in {"begin", "started", "counted"}
  PROVE  begins # 0 /\ ~changing
<1>1. begins # 0
  BY NobodyBegins
<1>2. QED
  BY <1>1 DEF IInv, ChangeAlone

\* begin starts: an operation of the current bundle.
LEMMA BeginCreationKeeps ==
  ASSUME IInv, NEW t \in Thread, BeginCreation(t)
  PROVE  IInv'
<1>1. /\ pc[t] = "begin" /\ Proceed(t, "started") /\ Goto(t, "started") /\ "started" \in Steps
      /\ inflight' = [inflight EXCEPT ![held[t]] = @ + 1]
      /\ UNCHANGED <<active, services, current, changing, begins, cliOf, auth, oauth, apps, told>>
  BY DEF BeginCreation, Proceed, Steps
<1>2. held[t] = current /\ current \in Bundle /\ begins # 0 /\ ~changing
  BY <1>1, WhileBeginning DEF IInv, TypeOK, OperationsOnCurrent
<1>3. /\ pc' \in [Thread -> Steps] /\ pc'[t] = "started" /\ held' = held /\ Others(t)
      /\ UNCHANGED <<call, held, path, count, calls>>
      /\ \A u \in Thread \ {t} : pc'[u] = pc[u]
  BY <1>1, ProceedTyped DEF IInv
<1>4. OperationsCounted'
  BY <1>1, <1>2, <1>3, OperationBegins
<1>5. TypeOK'
  <2>1. inflight' = [b \in Bundle |-> inflight'[b]]
    BY <1>1 DEF IInv, TypeOK
  <2>2. inflight' \in [Bundle -> 0..Cardinality(Thread)]
    BY <1>4, <2>1, InflightTyped
  <2>3. QED
    BY <1>1, <1>3, <2>2 DEF IInv, TypeOK
<1>6. JobAtStep'
  <2>1. JobFits(Op(t), held[t], "started") /\ pc[t] # "idle"
    BY <1>1 DEF JobFits
  <2>2. QED
    BY <1>1, <2>1, ProceedKeepsJobs DEF IInv
<1>7. BeginsCounted'
  BY <1>1, BeginningKept DEF IInv, BeginsCounted
<1>8. /\ ServicesHeld' /\ ChangeOwned'
      /\ \A u \in Thread : Changing(u)' <=> Changing(u)
      /\ \A u \in Thread : pc'[u] \in HolderSteps =>
           /\ pc'[u] = pc[u] /\ Op(u)' = Op(u) /\ count'[u] = count[u]
  BY <1>1, <1>3, CreationFrame
<1>9. CountsLast' /\ ChangeAlone'
  BY <1>1, <1>2, <1>8 DEF IInv, CountsLast, ChangeAlone, HolderSteps
<1>10. OthersEmpty' /\ AppFlowsKept'
  BY <1>1 DEF IInv, OthersEmpty, AppFlowsKept
<1>11. OperationsOnCurrent'
  BY <1>1, <1>2, <1>3 DEF IInv, OperationsOnCurrent
<1>12. QED
  BY <1>4, <1>5, <1>6, <1>7, <1>8, <1>9, <1>10, <1>11 DEF IInv

\* begin ends: the flow is there before the operation is over.
LEMMA CreationStartedKeeps ==
  ASSUME IInv, NEW t \in Thread, CreationStarted(t)
  PROVE  IInv'
<1>1. /\ pc[t] = "started" /\ Proceed(t, "counted") /\ Goto(t, "counted") /\ "counted" \in Steps
      /\ inflight' = [inflight EXCEPT ![held[t]] = @ - 1]
      /\ UNCHANGED <<active, services, current, changing, begins, cliOf, auth, oauth>>
  BY DEF CreationStarted, Proceed, Steps
<1>2. held[t] = current /\ current \in Bundle /\ begins # 0 /\ ~changing
  BY <1>1, WhileBeginning DEF IInv, TypeOK, OperationsOnCurrent
<1>3. /\ pc' \in [Thread -> Steps] /\ pc'[t] = "counted" /\ held' = held /\ Others(t)
      /\ UNCHANGED <<call, held, path, count, calls>>
      /\ \A u \in Thread \ {t} : pc'[u] = pc[u]
  BY <1>1, ProceedTyped DEF IInv
<1>4. OperationsCounted'
  BY <1>1, <1>2, <1>3, OperationEnds
<1>5. /\ apps' \in [Bundle -> SUBSET Flow] /\ told' \in [Flow -> Status]
      /\ OthersEmpty' /\ AppFlowsKept'
  <2>1. ASSUME NEW f \in Flow,
               apps' = [apps EXCEPT ![held[t]] = @ \cup {f}],
               told' = [told EXCEPT ![f] = "app"]
        PROVE  /\ apps' \in [Bundle -> SUBSET Flow] /\ told' \in [Flow -> Status]
               /\ OthersEmpty' /\ AppFlowsKept'
    BY <1>1, <1>2, <2>1 DEF IInv, TypeOK, OthersEmpty, AppFlowsKept, Status
  <2>2. CASE UNCHANGED <<apps, told>>
    BY <1>1, <2>2 DEF IInv, TypeOK, OthersEmpty, AppFlowsKept
  <2>3. QED
    BY <2>1, <2>2 DEF CreationStarted
<1>6. TypeOK'
  <2>1. inflight' = [b \in Bundle |-> inflight'[b]]
    BY <1>1 DEF IInv, TypeOK
  <2>2. inflight' \in [Bundle -> 0..Cardinality(Thread)]
    BY <1>4, <2>1, InflightTyped
  <2>3. QED
    BY <1>1, <1>3, <1>5, <2>2 DEF IInv, TypeOK
<1>7. JobAtStep'
  <2>1. JobFits(Op(t), held[t], "counted") /\ pc[t] # "idle"
    BY <1>1 DEF JobFits
  <2>2. QED
    BY <1>1, <2>1, ProceedKeepsJobs DEF IInv
<1>8. BeginsCounted'
  BY <1>1, BeginningKept DEF IInv, BeginsCounted
<1>9. /\ ServicesHeld' /\ ChangeOwned'
      /\ \A u \in Thread : Changing(u)' <=> Changing(u)
      /\ \A u \in Thread : pc'[u] \in HolderSteps =>
           /\ pc'[u] = pc[u] /\ Op(u)' = Op(u) /\ count'[u] = count[u]
  BY <1>1, <1>3, CreationFrame
<1>10. CountsLast' /\ ChangeAlone'
  BY <1>1, <1>2, <1>9 DEF IInv, CountsLast, ChangeAlone, HolderSteps
<1>11. OperationsOnCurrent'
  BY <1>1, <1>2, <1>3 DEF IInv, OperationsOnCurrent
<1>12. QED
  BY <1>4, <1>5, <1>6, <1>7, <1>8, <1>9, <1>10, <1>11 DEF IInv

\* The creation is no longer counted.
LEMMA EndBeginKeeps ==
  ASSUME IInv, NEW t \in Thread, EndBegin(t)
  PROVE  IInv'
<1>1. /\ pc[t] = "counted" /\ services = None /\ Return(t) /\ Goto(t, "idle")
      /\ UNCHANGED <<active, services, current, changing, bundles, told>>
  BY DEF EndBegin, Return
<1>2. begins # 0 /\ ~changing
  BY <1>1, WhileBeginning
<1>3. begins' = begins - 1
  BY <1>2, SomeThreads DEF EndBegin, IInv, TypeOK, BeginsCounted, Beginning
<1>4. Others(t) /\ pc'[t] = "idle" /\ \A u \in Thread \ {t} : pc'[u] = pc[u]
  BY <1>1, ReturnTyped DEF IInv
<1>5. BeginsCounted'
  <2>1. Beginning' = Beginning \ {t} /\ t \in Beginning /\ IsFiniteSet(Beginning)
    BY <1>1, <1>4, SomeThreads DEF Beginning
  <2>2. QED
    BY <1>3, <2>1, CountRemoved DEF IInv, BeginsCounted
<1>6. OperationsCounted'
  BY <1>1, <1>4, OperatingKept DEF IInv, OperationsCounted, Others, bundles
<1>7. TypeOK' /\ JobAtStep'
  BY <1>1, <1>5, BeginsTyped, ReturnTyped, ReturnKeepsJobs DEF IInv, TypeOK, bundles
<1>8. /\ ServicesHeld' /\ ChangeOwned'
      /\ \A u \in Thread : Changing(u)' <=> Changing(u)
      /\ \A u \in Thread : pc'[u] \notin HolderSteps
  BY <1>1, <1>4, CreationFrame, NobodyHolds
<1>9. CountsLast' /\ ChangeAlone'
  BY <1>1, <1>2, <1>8 DEF IInv, CountsLast, ChangeAlone, HolderSteps
<1>10. OthersEmpty' /\ AppFlowsKept'
  BY <1>1 DEF IInv, OthersEmpty, AppFlowsKept, bundles
<1>11. OperationsOnCurrent'
  BY <1>1, <1>4 DEF IInv, OperationsOnCurrent, Others
<1>12. QED
  BY <1>5, <1>6, <1>7, <1>8, <1>9, <1>10, <1>11 DEF IInv

\* A flow that is over leaves the map and becomes an operation: of the current bundle,
\* because no other has flows.
LEMMA LookForFlowKeeps ==
  ASSUME IInv, NEW t \in Thread, LookForFlow(t)
  PROVE  IInv'
<1> DEFINE f == call[t].flow
           b == held[t]
<1>1. /\ pc[t] = "look" /\ b \in Bundle
      /\ UNCHANGED <<active, services, current, changing, begins, cliOf, auth, oauth>>
  BY DEF IInv, JobAtStep, LookForFlow
<1>2. CASE UNCHANGED <<inflight, apps, told>> /\ Return(t)
  <2>1. TypeOK' /\ AppFlowsKept'
    BY <1>1, <1>2, ReturnTyped DEF IInv, TypeOK, AppFlowsKept
  <2>2. QED
    BY <1>1, <1>2, <2>1, QuietReturnKeeps DEF IInv, Quiet, QuietSteps
<1>3. CASE /\ f \in apps[b]
           /\ inflight' = [inflight EXCEPT ![b] = @ + 1]
           /\ apps' = [apps EXCEPT ![b] = @ \ {f}]
           /\ told' = [told EXCEPT ![f] = "over"]
           /\ Proceed(t, "final")
  <2>1. "final" \in Steps /\ Goto(t, "final")
    BY <1>3 DEF Steps, Proceed
  <2>2. b = current /\ f \in Flow /\ f \in apps[current] /\ current \in Bundle
    BY <1>1, <1>3 DEF IInv, TypeOK, OthersEmpty
  <2>3. /\ pc' \in [Thread -> Steps] /\ pc'[t] = "final" /\ held' = held /\ Others(t)
        /\ UNCHANGED <<call, held, path, count, calls>>
        /\ \A u \in Thread \ {t} : pc'[u] = pc[u]
    BY <1>3, <2>1, ProceedTyped DEF IInv
  <2>4. OperationsCounted'
    BY <1>1, <1>3, <2>3, OperationBegins
  <2>5. TypeOK'
    <3>1. inflight' = [d \in Bundle |-> inflight'[d]]
      BY <1>3 DEF IInv, TypeOK
    <3>2. inflight' \in [Bundle -> 0..Cardinality(Thread)]
      BY <2>4, <3>1, InflightTyped
    <3>3. apps' \in [Bundle -> SUBSET Flow] /\ told' \in [Flow -> Status]
      BY <1>3 DEF IInv, TypeOK, Status
    <3>4. QED
      BY <1>1, <2>3, <3>2, <3>3 DEF IInv, TypeOK
  <2>6. JobAtStep'
    <3>1. JobFits(Op(t), held[t], "final") /\ pc[t] # "idle"
      BY <1>1 DEF JobFits
    <3>2. QED
      BY <1>3, <2>1, <3>1, ProceedKeepsJobs DEF IInv
  <2>7. BeginsCounted'
    BY <1>1, <2>1, BeginningKept DEF IInv, BeginsCounted
  <2>8. /\ ServicesHeld' /\ ChangeOwned'
        /\ \A u \in Thread : pc'[u] \in HolderSteps =>
             /\ pc'[u] = pc[u] /\ Op(u)' = Op(u) /\ count'[u] = count[u]
        /\ \A u \in Thread : Changing(u)' <=> Changing(u)
    BY <1>1, <2>1, <2>3, CreationFrame
  <2>9. CountsLast' /\ ChangeAlone'
    BY <1>1, <2>2, <2>8 DEF IInv, CountsLast, ChangeAlone, AtRest, HolderSteps
  <2>10. OthersEmpty' /\ AppFlowsKept'
    BY <1>1, <1>3, <2>2 DEF IInv, TypeOK, OthersEmpty, AppFlowsKept
  <2>11. OperationsOnCurrent'
    BY <1>1, <2>2, <2>3 DEF IInv, OperationsOnCurrent
  <2>12. QED
    BY <2>4, <2>5, <2>6, <2>7, <2>8, <2>9, <2>10, <2>11 DEF IInv
<1>4. QED
  BY <1>2, <1>3 DEF LookForFlow

\* The operation is over: on the current bundle still.
LEMMA FinalizeKeeps ==
  ASSUME IInv, NEW t \in Thread, Finalize(t)
  PROVE  IInv'
<1>1. /\ pc[t] = "final" /\ Return(t) /\ Goto(t, "idle")
      /\ inflight' = [inflight EXCEPT ![held[t]] = @ - 1]
      /\ UNCHANGED <<active, services, current, changing, begins, cliOf, auth, oauth, apps, told>>
  BY DEF Finalize, Return
<1>2. held[t] = current /\ current \in Bundle /\ inflight[current] # 0
  BY <1>1, NobodyOperates DEF IInv, TypeOK, OperationsOnCurrent
<1>3. Others(t) /\ pc'[t] = "idle" /\ \A u \in Thread \ {t} : pc'[u] = pc[u]
  BY <1>1, ReturnTyped DEF IInv
<1>4. OperationsCounted'
  BY <1>1, <1>2, <1>3, OperationEnds DEF Others
<1>5. TypeOK' /\ JobAtStep'
  <2>1. inflight' = [d \in Bundle |-> inflight'[d]]
    BY <1>1 DEF IInv, TypeOK
  <2>2. inflight' \in [Bundle -> 0..Cardinality(Thread)]
    BY <1>4, <2>1, InflightTyped
  <2>3. QED
    BY <1>1, <2>2, ReturnTyped, ReturnKeepsJobs DEF IInv, TypeOK
<1>6. BeginsCounted'
  BY <1>1, BeginningKept DEF IInv, BeginsCounted
<1>7. /\ ServicesHeld' /\ ChangeOwned'
      /\ \A u \in Thread : pc'[u] \in HolderSteps =>
           /\ pc'[u] = pc[u] /\ Op(u)' = Op(u) /\ count'[u] = count[u]
      /\ \A u \in Thread : Changing(u)' <=> Changing(u)
  BY <1>1, <1>3, CreationFrame
<1>8. CountsLast' /\ ChangeAlone'
  BY <1>1, <1>2, <1>7 DEF IInv, CountsLast, ChangeAlone, AtRest, HolderSteps
<1>9. OthersEmpty' /\ AppFlowsKept'
  BY <1>1 DEF IInv, OthersEmpty, AppFlowsKept
<1>10. OperationsOnCurrent'
  BY <1>1, <1>3 DEF IInv, OperationsOnCurrent, Others
<1>11. QED
  BY <1>4, <1>5, <1>6, <1>7, <1>8, <1>9, <1>10 DEF IInv

-----------------------------------------------------------------------------
(* The theorems. *)

\* At first there is one bundle, and it is empty.
LEMMA InitInvariant == Init => IInv
<1> SUFFICES ASSUME Init
             PROVE  IInv
  OBVIOUS
<1>1. Beginning = {} /\ \A b \in Bundle : Operating(b) = {}
  BY DEF Init, Beginning, Operating
<1>2. BeginsCounted /\ OperationsCounted
  BY <1>1, FS_EmptySet DEF Init, BeginsCounted, OperationsCounted
<1>3. TypeOK
  <2>1. Cardinality(Flow) \in Nat /\ Cardinality(Thread) \in Nat
    BY SomeFlows, SomeThreads
  <2>2. 1 \in Bundle
    BY DesktopAssumption DEF Bundle
  <2>3. 0 \in 0..Cardinality(Flow) /\ 0 \in 0..Cardinality(Thread) /\ 0 \in 0..MaxCalls
    BY <2>1, DesktopAssumption
  <2>4. cliOf \in [Bundle -> Cli \cup {None}]
    BY DEF Init
  <2>5. QED
    BY <2>2, <2>3, <2>4 DEF Init, TypeOK, Status, Steps
<1>4. JobAtStep /\ ServicesHeld
  BY DesktopAssumption DEF Init, JobAtStep, ServicesHeld, Holds
<1>5. /\ OthersEmpty /\ CountsLast /\ ChangeAlone /\ ChangeOwned
      /\ OperationsOnCurrent /\ AppFlowsKept
  BY DEF Init, OthersEmpty, CountsLast, ChangeAlone, ChangeOwned, Changing,
         OperationsOnCurrent, AppFlowsKept
<1>6. QED
  BY <1>2, <1>3, <1>4, <1>5 DEF IInv

\* What is not in TypeOK does not depend on the active CLI.
LEMMA UnchangedKeeps ==
  ASSUME IInv, active' \in Cli,
         UNCHANGED <<services, current, changing, begins, bundles, told, pc, mine>>
  PROVE  IInv'
<1> USE DEF bundles, mine
<1>1. TypeOK'
  BY DEF IInv, TypeOK
<1>2. JobAtStep' /\ ServicesHeld'
  BY DEF IInv, JobAtStep, ServicesHeld, Holds, Op
<1>3. BeginsCounted' /\ OperationsCounted'
  BY DEF IInv, BeginsCounted, OperationsCounted, Beginning, Operating
<1>4. CountsLast' /\ ChangeAlone' /\ ChangeOwned'
  BY DEF IInv, CountsLast, ChangeAlone, ChangeOwned, Changing, AtRest, Op
<1>5. OthersEmpty' /\ OperationsOnCurrent' /\ AppFlowsKept'
  BY DEF IInv, OthersEmpty, OperationsOnCurrent, AppFlowsKept
<1>6. QED
  BY <1>1, <1>2, <1>3, <1>4, <1>5 DEF IInv

\* Every step of a thread keeps the invariant.
LEMMA WorkKeeps ==
  ASSUME IInv, NEW t \in Thread, Work(t)
  PROVE  IInv'
<1>1. CASE ReadActive(t) \/ Follow(t) \/ CountFlows(t) \/ CountOperations(t) \/ SwapToActive(t)
  BY <1>1, ReadActiveKeeps, FollowKeeps, CountFlowsKeeps, CountOperationsKeeps, SwapToActiveKeeps
<1>2. CASE \/ Clone(t) \/ SkipWatch(t) \/ LockAuth(t) \/ BeginLogin(t) \/ EndLogin(t)
           \/ LockServices(t) \/ Operate(t)
  BY <1>2, CloneKeeps, SkipWatchKeeps, LockAuthKeeps, LoginKeeps, LockServicesKeeps, OperateKeeps
<1>3. CASE BeginCreation(t) \/ CreationStarted(t) \/ EndBegin(t) \/ LookForFlow(t) \/ Finalize(t)
  BY <1>3, BeginCreationKeeps, CreationStartedKeeps, EndBeginKeeps, LookForFlowKeeps, FinalizeKeeps
<1>4. CASE \/ RequestChange(t) \/ CountLogins(t) \/ StartChange(t)
           \/ ChangeRuntime(t) \/ SwapServices(t) \/ ClearChange(t)
  BY <1>4, RequestChangeKeeps, CountLoginsKeeps, StartChangeKeeps, ChangeRuntimeKeeps, EndChangeKeeps
<1>5. QED
  BY <1>1, <1>2, <1>3, <1>4 DEF Work

LEMMA StepKeeps == IInv /\ [Next]_vars => IInv'
<1> SUFFICES ASSUME IInv, [Next]_vars
             PROVE  IInv'
  OBVIOUS
<1>1. ASSUME NEW t \in Thread, Work(t)
      PROVE  IInv'
  BY <1>1, WorkKeeps
<1>2. ASSUME NEW t \in Thread, NEW c \in Command, Call(t, c)
      PROVE  IInv'
  BY <1>2, CallKeeps
<1>3. ASSUME NEW c \in Cli, Activate(c)
      PROVE  IInv'
  BY <1>3, UnchangedKeeps DEF Activate
<1>4. CASE UNCHANGED vars
  BY <1>4, UnchangedKeeps DEF vars, bundles, mine, IInv, TypeOK
<1>5. QED
  BY <1>1, <1>2, <1>3, <1>4 DEF Next

\* The counters count, what has been counted still holds when it is used, and the
\* mutex has one holder, in every state the commands of the desktop can reach; every
\* variable keeps its type.
THEOREM Invariant == Spec => []IInv
  BY InitInvariant, StepKeeps, PTL DEF Spec

\* However many threads change the runtime, follow it and create Apps, a flow the user
\* was told of is in the coordinator that is current until it is over
\* (follow_active_runtime, begin_runtime_change).
THEOREM AppFlowsAreKept == Spec => []AppFlowsKept
  BY Invariant, PTL DEF IInv

\* No bundle is replaced while an App is being created or imported on it.
THEOREM OperationsAreOnCurrent == Spec => []OperationsOnCurrent
  BY Invariant, PTL DEF IInv

\* runtime_change_active is set if, and only if, a thread is changing the runtime,
\* whatever fails on its way, and that is one thread.
THEOREM ChangeIsOwned ==
  Spec => [](ChangeOwned /\ \A t, u \in Thread : Changing(t) /\ Changing(u) => t = u)
<1>1. IInv => ChangeOwned /\ \A t, u \in Thread : Changing(t) /\ Changing(u) => t = u
  BY DEF IInv, ChangeAlone
<1>2. QED
  BY <1>1, Invariant, PTL

-----------------------------------------------------------------------------
(* The services as one cell. *)

\* A login that begins has a flow nobody knew; one that ends leaves the only
\* coordinator it was in.  The same goes for the creation of an App.
LEMMA FlowStepsTold ==
  ASSUME IInv, FlowsTold, NEW t \in Thread,
         BeginLogin(t) \/ EndLogin(t) \/ CreationStarted(t) \/ LookForFlow(t)
  PROVE  FlowsTold'
<1>1. CASE BeginLogin(t)
  <2>1. /\ pc[t] = "work" /\ held[t] \in Bundle /\ apps' = apps
    BY <1>1 DEF IInv, JobAtStep, BeginLogin
  <2>2. ASSUME NEW f \in Flow, told[f] = "new",
               oauth' = [oauth EXCEPT ![held[t]] = @ \cup {f}],
               told' = [told EXCEPT ![f] = "oauth"]
        PROVE  FlowsTold'
    BY <2>1, <2>2 DEF IInv, TypeOK, FlowsTold
  <2>3. CASE UNCHANGED <<oauth, told>>
    BY <2>1, <2>3 DEF FlowsTold
  <2>4. QED
    BY <1>1, <2>2, <2>3 DEF BeginLogin
<1>2. CASE EndLogin(t)
  <2>1. /\ held[t] \in Bundle /\ apps' = apps
        /\ call[t].flow \in Flow
    <3>1. pc[t] = "work" /\ Op(t) \in {"complete", "cancel"} /\ apps' = apps
      BY <1>2 DEF EndLogin
    <3>2. call[t] \in Command
      BY <3>1 DEF IInv, JobAtStep
    <3>3. QED
      BY <3>1, <3>2, CommandFields DEF IInv, JobAtStep, Op
  <2>2. CASE /\ call[t].flow \in oauth[held[t]]
             /\ oauth' = [oauth EXCEPT ![held[t]] = @ \ {call[t].flow}]
             /\ told' = [told EXCEPT ![call[t].flow] = "over"]
    BY <2>1, <2>2 DEF IInv, TypeOK, FlowsTold
  <2>3. CASE UNCHANGED <<oauth, told>>
    BY <2>1, <2>3 DEF FlowsTold
  <2>4. QED
    BY <1>2, <2>2, <2>3 DEF EndLogin
<1>3. CASE CreationStarted(t)
  <2>1. held[t] \in Bundle /\ oauth' = oauth
    BY <1>3 DEF IInv, TypeOK, OperationsOnCurrent, CreationStarted
  <2>2. ASSUME NEW f \in Flow, told[f] = "new",
               apps' = [apps EXCEPT ![held[t]] = @ \cup {f}],
               told' = [told EXCEPT ![f] = "app"]
        PROVE  FlowsTold'
    BY <2>1, <2>2 DEF IInv, TypeOK, FlowsTold
  <2>3. CASE UNCHANGED <<apps, told>>
    BY <2>1, <2>3 DEF FlowsTold
  <2>4. QED
    BY <1>3, <2>2, <2>3 DEF CreationStarted
<1>4. CASE LookForFlow(t)
  <2>1. held[t] \in Bundle /\ oauth' = oauth
    BY <1>4 DEF IInv, JobAtStep, LookForFlow
  <2>2. CASE /\ call[t].flow \in apps[held[t]]
             /\ apps' = [apps EXCEPT ![held[t]] = @ \ {call[t].flow}]
             /\ told' = [told EXCEPT ![call[t].flow] = "over"]
    <3>1. held[t] = current
      BY <2>1, <2>2 DEF IInv, OthersEmpty
    <3>2. QED
      BY <2>1, <2>2, <3>1 DEF IInv, TypeOK, OthersEmpty, FlowsTold
  <2>3. CASE UNCHANGED <<apps, told>>
    BY <2>1, <2>3 DEF FlowsTold
  <2>4. QED
    BY <1>4, <2>2, <2>3 DEF LookForFlow
<1>5. QED
  BY <1>1, <1>2, <1>3, <1>4

LEMMA StepsTold == IInv /\ FlowsTold /\ [Next]_vars => FlowsTold'
<1> SUFFICES ASSUME IInv, FlowsTold, [Next]_vars
             PROVE  FlowsTold'
  OBVIOUS
<1>1. UNCHANGED <<oauth, apps, told>> => FlowsTold'
  BY DEF FlowsTold
<1>2. ASSUME NEW t \in Thread, Work(t)
      PROVE  FlowsTold'
  <2>1. CASE BeginLogin(t) \/ EndLogin(t) \/ CreationStarted(t) \/ LookForFlow(t)
    BY <2>1, FlowStepsTold
  <2>2. CASE \/ ReadActive(t) \/ Follow(t) \/ CountFlows(t) \/ CountOperations(t)
             \/ SwapToActive(t) \/ Clone(t) \/ SkipWatch(t) \/ LockAuth(t)
    BY <1>1, <2>2 DEF ReadActive, Follow, CountFlows, CountOperations, SwapToActive,
                      Clone, SkipWatch, LockAuth, bundles
  <2>3. CASE \/ BeginCreation(t) \/ EndBegin(t) \/ Finalize(t) \/ LockServices(t) \/ Operate(t)
    BY <1>1, <2>3 DEF BeginCreation, EndBegin, Finalize, LockServices, Operate, bundles
  <2>4. CASE \/ RequestChange(t) \/ CountLogins(t) \/ StartChange(t)
             \/ ChangeRuntime(t) \/ SwapServices(t) \/ ClearChange(t)
    BY <1>1, <2>4 DEF RequestChange, CountLogins, StartChange, ChangeRuntime, SwapServices,
                      ClearChange, bundles
  <2>5. QED
    BY <1>2, <2>1, <2>2, <2>3, <2>4 DEF Work
<1>3. ASSUME NEW t \in Thread, NEW c \in Command, Call(t, c)
      PROVE  FlowsTold'
  BY <1>1, <1>3 DEF Call, bundles
<1>4. ASSUME NEW c \in Cli, Activate(c)
      PROVE  FlowsTold'
  BY <1>1, <1>4 DEF Activate, bundles
<1>5. CASE UNCHANGED vars
  BY <1>1, <1>5 DEF vars, bundles
<1>6. QED
  BY <1>2, <1>3, <1>4, <1>5 DEF Next

\* A flow a coordinator keeps is one the user was told of and that is not over, of the
\* coordinator's own kind; no login is in two coordinators.
THEOREM FlowsAreTold == Spec => []FlowsTold
<1>1. Init => FlowsTold
  BY DEF Init, FlowsTold
<1>2. QED
  BY <1>1, Invariant, StepsTold, PTL DEF Spec

\* Who is at work, when one thread moves and the services stay.
AtWork == {"begin", "started", "final"}

LEMMA WorkingKept ==
  ASSUME IInv, NEW t \in Thread, NEW step, Goto(t, step), current' = current,
         \A u \in Thread \ {t} : held'[u] = held[u],
         pc[t] \notin AtWork, step \notin AtWork
  PROVE  Working' = Working
  BY DEF IInv, TypeOK, Goto, Working, AtWork

\* A step of one thread that does nothing to the cell.
LEMMA NotOfTheCell ==
  ASSUME IInv, NEW t \in Thread, NEW step, Goto(t, step),
         \A u \in Thread \ {t} : held'[u] = held[u],
         pc[t] \notin AtWork, step \notin AtWork, UNCHANGED <<current, told>>
  PROVE  UNCHANGED Cell!vars
  BY WorkingKept DEF Cell!vars, Given

LEMMA Returning ==
  ASSUME IInv, NEW t \in Thread, Return(t), pc[t] \notin AtWork, UNCHANGED <<current, told>>
  PROVE  UNCHANGED Cell!vars
<1>1. Goto(t, "idle") /\ Others(t)
  BY ReturnTyped DEF IInv, Return
<1>2. QED
  BY <1>1, NotOfTheCell DEF Others, AtWork

LEMMA Proceeding ==
  ASSUME IInv, NEW t \in Thread, NEW step, Proceed(t, step),
         pc[t] \notin AtWork, step \notin AtWork, UNCHANGED <<current, told>>
  PROVE  UNCHANGED Cell!vars
  BY NotOfTheCell DEF Proceed, mine

\* While there is neither a flow nor an operation nor a beginning, a new bundle
\* replaces the cell.
LEMMA ReplacesCell ==
  ASSUME IInv, begins = 0, AtRest, NEW t \in Thread,
         NEW step \in {"idle", "clone"}, Goto(t, step), current' = current + 1,
         UNCHANGED told
  PROVE  Cell!Replace
<1>1. \A u \in Thread : pc[u] \notin AtWork
  BY NobodyBegins, NobodyOperates DEF AtRest, AtWork
<1>2. Working = {} /\ Working' = {}
  BY <1>1 DEF Working, AtWork, IInv, TypeOK, Goto
<1>3. Given = {} /\ Given' = {}
  BY DEF Given, IInv, AppFlowsKept, AtRest
<1>4. QED
  BY <1>2, <1>3 DEF Cell!Replace

\* What the threads that create Apps do with it.
LEMMA CloneOfTheCell ==
  ASSUME IInv, NEW t \in Thread, Clone(t)
  PROVE  [Cell!Next]_(Cell!vars)
<1>1. pc[t] = "clone" /\ UNCHANGED <<current, told>>
  BY DEF Clone
<1>2. CASE Refused(t)
  BY <1>1, <1>2, Returning DEF Clone, AtWork
<1>3. CASE ~Refused(t)
  <2>1. /\ Goto(t, AfterClone(Op(t)))
        /\ held' = [held EXCEPT ![t] = current]
    BY <1>3 DEF Clone
  <2>2. CASE Op(t) = "create"
    <3>1. AfterClone(Op(t)) = "begin"
      BY <2>2 DEF AfterClone
    <3>2. Working' = Working \cup {t} /\ t \notin Working
      BY <1>1, <2>1, <3>1 DEF IInv, TypeOK, Goto, Working
    <3>3. Cell!Begin(t)
      BY <1>1, <3>2 DEF Cell!Begin, Given
    <3>4. QED
      BY <3>3 DEF Cell!Next
  <2>3. CASE Op(t) # "create"
    <3>1. AfterClone(Op(t)) \notin AtWork
      BY <2>3 DEF AfterClone, AtWork
    <3>2. QED
      BY <1>1, <2>1, <3>1, NotOfTheCell DEF IInv, TypeOK, AtWork
  <2>4. QED
    BY <2>2, <2>3
<1>4. QED
  BY <1>2, <1>3

LEMMA CreationOfTheCell ==
  ASSUME IInv, NEW t \in Thread, CreationStarted(t)
  PROVE  [Cell!Next]_(Cell!vars)
<1>1. /\ pc[t] = "started" /\ Goto(t, "counted") /\ UNCHANGED <<held, current>>
  BY DEF CreationStarted, Proceed, mine
<1>2. t \in Working /\ Working' = Working \ {t}
  BY <1>1 DEF IInv, TypeOK, OperationsOnCurrent, Goto, Working
<1>3. Given' = Given \/ \E f \in Flow \ Given : Given' = Given \cup {f}
  <2>1. ASSUME NEW f \in Flow, told[f] = "new", told' = [told EXCEPT ![f] = "app"]
        PROVE  f \notin Given /\ Given' = Given \cup {f}
    BY <2>1 DEF IInv, TypeOK, Given
  <2>2. CASE UNCHANGED told
    BY <2>2 DEF Given
  <2>3. QED
    BY <2>1, <2>2 DEF CreationStarted
<1>4. Cell!End(t)
  BY <1>1, <1>2, <1>3 DEF Cell!End
<1>5. QED
  BY <1>4 DEF Cell!Next

LEMMA LookOfTheCell ==
  ASSUME IInv, FlowsTold, NEW t \in Thread, LookForFlow(t)
  PROVE  [Cell!Next]_(Cell!vars)
<1>1. pc[t] = "look" /\ held[t] \in Bundle /\ UNCHANGED current
  BY DEF IInv, JobAtStep, LookForFlow
<1>2. CASE UNCHANGED told /\ Return(t)
  BY <1>1, <1>2, Returning DEF AtWork
<1>3. CASE /\ call[t].flow \in apps[held[t]]
           /\ told' = [told EXCEPT ![call[t].flow] = "over"]
           /\ Proceed(t, "final")
  <2>1. held[t] = current /\ call[t].flow \in Flow
    BY <1>1, <1>3 DEF IInv, TypeOK, OthersEmpty
  <2>2. call[t].flow \in Given /\ Given' = Given \ {call[t].flow}
    BY <1>1, <1>3, <2>1 DEF IInv, TypeOK, FlowsTold, Given
  <2>3. t \notin Working /\ Working' = Working \cup {t}
    BY <1>1, <1>3, <2>1 DEF IInv, TypeOK, Proceed, mine, Goto, Working
  <2>4. Cell!Take(t, call[t].flow)
    BY <1>1, <2>2, <2>3 DEF Cell!Take
  <2>5. QED
    BY <2>1, <2>4 DEF Cell!Next
<1>4. QED
  BY <1>2, <1>3 DEF LookForFlow

LEMMA OperationsOfTheCell ==
  ASSUME IInv, NEW t \in Thread, BeginCreation(t) \/ Finalize(t)
  PROVE  [Cell!Next]_(Cell!vars)
<1>1. CASE BeginCreation(t)
  <2>1. /\ pc[t] = "begin" /\ Goto(t, "started") /\ UNCHANGED <<held, current, told>>
    BY <1>1 DEF BeginCreation, Proceed, mine
  <2>2. Working' = Working
    BY <2>1 DEF IInv, TypeOK, Goto, Working
  <2>3. QED
    BY <2>1, <2>2 DEF Cell!vars, Given
<1>2. CASE Finalize(t)
  <2>1. /\ pc[t] = "final" /\ Goto(t, "idle") /\ UNCHANGED <<current, told>> /\ Others(t)
    BY <1>2, ReturnTyped DEF Finalize, Return, IInv
  <2>2. t \in Working /\ Working' = Working \ {t}
    BY <2>1 DEF IInv, TypeOK, OperationsOnCurrent, Goto, Working, Others
  <2>3. Cell!End(t)
    BY <2>1, <2>2 DEF Cell!End, Given
  <2>4. QED
    BY <2>3 DEF Cell!Next
<1>3. QED
  BY <1>1, <1>2

\* A login is not the cell's.
LEMMA LoginOfTheCell ==
  ASSUME IInv, FlowsTold, NEW t \in Thread, BeginLogin(t) \/ EndLogin(t)
  PROVE  UNCHANGED Cell!vars
<1>1. pc[t] = "work" /\ Return(t) /\ UNCHANGED current /\ held[t] \in Bundle
  BY DEF BeginLogin, EndLogin, IInv, JobAtStep
<1>2. Given' = Given
  BY <1>1 DEF BeginLogin, EndLogin, IInv, TypeOK, FlowsTold, Given
<1>3. Working' = Working
  <2>1. Goto(t, "idle") /\ Others(t)
    BY <1>1, ReturnTyped DEF IInv, Return
  <2>2. QED
    BY <1>1, <2>1, WorkingKept DEF Others, AtWork
<1>4. QED
  BY <1>1, <1>2, <1>3 DEF Cell!vars

\* The replacements.
LEMMA SwapsOfTheCell ==
  ASSUME IInv, NEW t \in Thread, SwapToActive(t) \/ SwapServices(t)
  PROVE  [Cell!Next]_(Cell!vars)
<1>1. CASE SwapToActive(t)
  <2>1. /\ pc[t] = "decide" /\ Op(t) # "install" /\ UNCHANGED told
        /\ Proceed(t, "clone") /\ Goto(t, "clone")
    BY <1>1 DEF SwapToActive, Proceed
  <2>2. begins = 0 /\ AtRest
    BY <2>1 DEF IInv, CountsLast
  <2>3. CASE current' = current + 1
    BY <2>1, <2>2, <2>3, ReplacesCell DEF Cell!Next
  <2>4. CASE current' = current
    BY <2>1, <2>4, Proceeding DEF AtWork
  <2>5. QED
    BY <1>1, <2>3, <2>4 DEF SwapToActive
<1>2. CASE SwapServices(t)
  <2>1. Goto(t, "idle") /\ UNCHANGED told /\ current' = current + 1
    BY <1>2 DEF SwapServices, Return
  <2>2. begins = 0 /\ AtRest
    BY <1>2, ChangerAlone DEF SwapServices, Changing
  <2>3. QED
    BY <2>1, <2>2, ReplacesCell DEF Cell!Next
<1>3. QED
  BY <1>1, <1>2

\* Everything else a thread does leaves the cell alone.
LEMMA GivingUp ==
  ASSUME IInv, NEW t \in Thread, GiveUp(t), pc[t] \notin AtWork, UNCHANGED <<current, told>>
  PROVE  UNCHANGED Cell!vars
<1>1. CASE Return(t)
  BY <1>1, Returning
<1>2. CASE Proceed(t, "clone")
  BY <1>2, Proceeding DEF AtWork
<1>3. QED
  BY <1>1, <1>2 DEF GiveUp

LEMMA OthersOfTheCell ==
  ASSUME IInv, NEW t \in Thread,
         \/ ReadActive(t) \/ Follow(t) \/ CountFlows(t) \/ CountOperations(t)
         \/ SkipWatch(t) \/ LockAuth(t) \/ EndBegin(t) \/ LockServices(t) \/ Operate(t)
         \/ RequestChange(t) \/ CountLogins(t) \/ StartChange(t)
         \/ ChangeRuntime(t) \/ ClearChange(t)
  PROVE  UNCHANGED Cell!vars
<1>1. CASE ReadActive(t)
  <2>1. /\ pc[t] = "read" /\ UNCHANGED <<current, told, held>>
        /\ Goto(t, "follow") \/ Goto(t, "clone")
    BY <1>1 DEF ReadActive, Proceed, mine
  <2>2. QED
    BY <2>1, NotOfTheCell DEF AtWork
<1>2. CASE CountFlows(t)
  BY <1>2, NotOfTheCell DEF CountFlows, AtWork
<1>3. CASE Follow(t)
  <2>1. pc[t] = "follow" /\ UNCHANGED <<current, told>>
        /\ (Proceed(t, "len") \/ Proceed(t, "clone"))
    BY <1>3 DEF Follow
  <2>2. QED
    BY <2>1, Proceeding DEF AtWork
<1>4. CASE CountOperations(t)
  <2>1. pc[t] = "infl" /\ UNCHANGED <<current, told>>
        /\ (GiveUp(t) \/ Proceed(t, "decide"))
    BY <1>4 DEF CountOperations
  <2>2. QED
    BY <2>1, GivingUp, Proceeding DEF AtWork
<1>5. CASE CountLogins(t)
  <2>1. pc[t] = "authcount" /\ UNCHANGED <<current, told>>
        /\ (GiveUp(t) \/ Proceed(t, "len"))
    BY <1>5 DEF CountLogins
  <2>2. QED
    BY <2>1, GivingUp, Proceeding DEF AtWork
<1>6. CASE StartChange(t)
  <2>1. pc[t] = "decide" /\ UNCHANGED <<current, told>>
        /\ (GiveUp(t) \/ Proceed(t, "change"))
    BY <1>6 DEF StartChange
  <2>2. QED
    BY <2>1, GivingUp, Proceeding DEF AtWork
<1>7. CASE SkipWatch(t) \/ EndBegin(t) \/ Operate(t) \/ ClearChange(t)
  BY <1>7, Returning DEF SkipWatch, EndBegin, Operate, ClearChange, AtWork
<1>8. CASE LockAuth(t) \/ LockServices(t)
  BY <1>8, Proceeding DEF LockAuth, LockServices, AtWork
<1>9. CASE RequestChange(t)
  <2>1. pc[t] = "request" /\ UNCHANGED <<current, told>>
        /\ (Return(t) \/ Proceed(t, "authcount"))
    BY <1>9 DEF RequestChange
  <2>2. QED
    BY <2>1, Returning, Proceeding DEF AtWork
<1>10. CASE ChangeRuntime(t)
  <2>1. pc[t] = "change" /\ UNCHANGED <<current, told>>
        /\ (Proceed(t, "swap") \/ Proceed(t, "clear"))
    BY <1>10 DEF ChangeRuntime
  <2>2. QED
    BY <2>1, Proceeding DEF AtWork
<1>11. QED
  BY <1>1, <1>2, <1>3, <1>4, <1>5, <1>6, <1>7, <1>8, <1>9, <1>10

LEMMA StepOfTheCell == IInv /\ FlowsTold /\ [Next]_vars => [Cell!Next]_(Cell!vars)
<1> SUFFICES ASSUME IInv, FlowsTold, [Next]_vars
             PROVE  [Cell!Next]_(Cell!vars)
  OBVIOUS
<1>1. ASSUME NEW t \in Thread, Work(t)
      PROVE  [Cell!Next]_(Cell!vars)
  <2>1. CASE Clone(t) \/ CreationStarted(t) \/ LookForFlow(t)
    BY <2>1, CloneOfTheCell, CreationOfTheCell, LookOfTheCell
  <2>2. CASE BeginCreation(t) \/ Finalize(t) \/ SwapToActive(t) \/ SwapServices(t)
    BY <2>2, OperationsOfTheCell, SwapsOfTheCell
  <2>3. CASE BeginLogin(t) \/ EndLogin(t)
    BY <2>3, LoginOfTheCell
  <2>4. QED
    BY <1>1, <2>1, <2>2, <2>3, OthersOfTheCell DEF Work
<1>2. ASSUME NEW t \in Thread, NEW c \in Command, Call(t, c)
      PROVE  UNCHANGED Cell!vars
  <2>1. FirstStep(c.op) \notin AtWork
    BY DEF FirstStep, AtWork
  <2>2. QED
    BY <1>2, <2>1, NotOfTheCell DEF Call, AtWork
<1>3. ASSUME NEW c \in Cli, Activate(c)
      PROVE  UNCHANGED Cell!vars
  BY <1>3 DEF Activate, mine, Cell!vars, Given, Working
<1>4. CASE UNCHANGED vars
  BY <1>4 DEF vars, bundles, mine, Cell!vars, Given, Working
<1>5. QED
  BY <1>1, <1>2, <1>3, <1>4 DEF Next

\* For those who create Apps, a replacement that reads three values one after the other
\* and gives the mutex back in between is a replacement in an instant, of services that
\* nobody has any use for: no beginning, no flow, no import is ever cut off by it, and
\* none sees it happen half-way (follow_active_runtime, begin_runtime_change).
THEOREM DesktopImplementsCell == Spec => ImplementsCell
<1>1. Init => Cell!Init
  BY DEF Init, Cell!Init, Given, Working
<1>2. QED
  BY <1>1, Invariant, FlowsAreTold, StepOfTheCell, PTL DEF Spec, ImplementsCell, Cell!Spec

-----------------------------------------------------------------------------
(* That every command returns is beyond the prover.  What that rests on is not: a    *)
(* command never goes back, and of those that wait somebody can always be waited for. *)

\* The steps a command still has before it, at most.
Left == [idle |-> 0,
         operate |-> 1, work |-> 1, final |-> 1, counted |-> 1, swap |-> 1, clear |-> 1,
         look |-> 2, auth |-> 2, started |-> 2, change |-> 2, account |-> 2,
         begin |-> 3, clone |-> 4, decide |-> 5, infl |-> 6, len |-> 7,
         authcount |-> 8, follow |-> 8, request |-> 9, read |-> 9]

\* A thread that takes a step has fewer of them left, and nobody else is moved.
Advances(t) ==
  /\ Left[pc'[t]] < Left[pc[t]]
  /\ \A u \in Thread \ {t} : pc'[u] = pc[u]

LEMMA GoesOn ==
  ASSUME TypeOK, NEW t \in Thread, NEW step, Goto(t, step), Left[step] < Left[pc[t]]
  PROVE  Advances(t)
  BY DEF TypeOK, Goto, Advances

LEMMA GivesUp ==
  ASSUME TypeOK, NEW t \in Thread, GiveUp(t), pc[t] \in HolderSteps
  PROVE  Advances(t)
<1>1. Goto(t, "idle") \/ Goto(t, "clone")
  BY DEF GiveUp, Return, Proceed
<1>2. QED
  BY <1>1, GoesOn DEF HolderSteps, Left

LEMMA WorkAdvances ==
  ASSUME IInv, NEW t \in Thread, Work(t)
  PROVE  Advances(t)
<1>0. TypeOK
  BY DEF IInv
<1>1. CASE ReadActive(t) \/ CountFlows(t)
  <2>1. \/ pc[t] = "read" /\ (Goto(t, "follow") \/ Goto(t, "clone"))
        \/ pc[t] = "len" /\ Goto(t, "infl")
    BY <1>1 DEF ReadActive, CountFlows, Proceed
  <2>2. QED
    BY <1>0, <2>1, GoesOn DEF Left
<1>2. CASE Follow(t)
  <2>1. pc[t] = "follow" /\ (Goto(t, "len") \/ Goto(t, "clone"))
    BY <1>2 DEF Follow, Proceed
  <2>2. QED
    BY <1>0, <2>1, GoesOn DEF Left
<1>3. CASE CountOperations(t)
  <2>1. pc[t] = "infl" /\ (GiveUp(t) \/ Goto(t, "decide"))
    BY <1>3 DEF CountOperations, Proceed
  <2>2. QED
    BY <1>0, <2>1, GoesOn, GivesUp DEF Left, HolderSteps
<1>4. CASE CountLogins(t)
  <2>1. pc[t] = "authcount" /\ (GiveUp(t) \/ Goto(t, "len"))
    BY <1>4 DEF CountLogins, Proceed
  <2>2. QED
    BY <1>0, <2>1, GoesOn, GivesUp DEF Left, HolderSteps
<1>5. CASE StartChange(t)
  <2>1. pc[t] = "decide" /\ (GiveUp(t) \/ Goto(t, "change"))
    BY <1>5 DEF StartChange, Proceed
  <2>2. QED
    BY <1>0, <2>1, GoesOn, GivesUp DEF Left, HolderSteps
<1>6. CASE SwapToActive(t)
  BY <1>0, <1>6, GoesOn DEF SwapToActive, Proceed, Left
<1>7. CASE Clone(t)
  <2>1. pc[t] = "clone" /\ (Goto(t, "idle") \/ Goto(t, AfterClone(Op(t))))
    BY <1>7 DEF Clone, Return
  <2>2. AfterClone(Op(t)) \in {"auth", "begin", "look", "operate"}
    BY DEF AfterClone
  <2>3. QED
    BY <1>0, <2>1, <2>2, GoesOn DEF Left
<1>8. CASE SkipWatch(t) \/ BeginLogin(t) \/ EndLogin(t) \/ EndBegin(t)
  <2>1. pc[t] \in {"clone", "work", "counted"} /\ Goto(t, "idle")
    BY <1>8 DEF SkipWatch, BeginLogin, EndLogin, EndBegin, Return
  <2>2. QED
    BY <1>0, <2>1, GoesOn DEF Left
<1>9. CASE Finalize(t) \/ Operate(t) \/ SwapServices(t) \/ ClearChange(t)
  <2>1. pc[t] \in {"final", "operate", "swap", "clear"} /\ Goto(t, "idle")
    BY <1>9 DEF Finalize, Operate, SwapServices, ClearChange, Return
  <2>2. QED
    BY <1>0, <2>1, GoesOn DEF Left
<1>10. CASE LockAuth(t) \/ BeginCreation(t) \/ CreationStarted(t) \/ LockServices(t)
  BY <1>0, <1>10, GoesOn DEF LockAuth, BeginCreation, CreationStarted, LockServices, Proceed, Left
<1>11. CASE LookForFlow(t) \/ RequestChange(t)
  <2>1. \/ pc[t] = "look" /\ (Goto(t, "final") \/ Goto(t, "idle"))
        \/ pc[t] = "request" /\ (Goto(t, "authcount") \/ Goto(t, "idle"))
    BY <1>11 DEF LookForFlow, RequestChange, Return, Proceed
  <2>2. QED
    BY <1>0, <2>1, GoesOn DEF Left
<1>12. CASE ChangeRuntime(t)
  <2>1. pc[t] = "change" /\ (Goto(t, "swap") \/ Goto(t, "clear"))
    BY <1>12 DEF ChangeRuntime, Proceed
  <2>2. QED
    BY <1>0, <2>1, GoesOn DEF Left
<1>13. QED
  BY <1>1, <1>2, <1>3, <1>4, <1>5, <1>6, <1>7, <1>8, <1>9, <1>10, <1>11, <1>12 DEF Work

LEMMA StepAdvances ==
  ASSUME IInv, [Next]_vars, NEW t \in Thread, pc[t] # "idle", pc'[t] # pc[t]
  PROVE  Advances(t)
<1>1. ASSUME NEW u \in Thread, Work(u)
      PROVE  Advances(t)
  BY <1>1, WorkAdvances DEF Advances
<1>2. ASSUME NEW u \in Thread, NEW c \in Command, Call(u, c)
      PROVE  FALSE
  BY <1>2 DEF IInv, TypeOK, Call, Goto
<1>3. ASSUME NEW c \in Cli, Activate(c)
      PROVE  FALSE
  BY <1>3 DEF Activate
<1>4. CASE UNCHANGED vars
  BY <1>4 DEF vars
<1>5. QED
  BY <1>1, <1>2, <1>3, <1>4 DEF Next

\* Whatever a command does, it comes closer to its return, and no other thread takes it
\* back: a command takes nine steps at most, however often it gives up or fails.
THEOREM CommandsAdvance ==
  Spec => [][\A t \in Thread : pc[t] # "idle" /\ pc'[t] # pc[t] => Advances(t)]_vars
<1>1. IInv /\ [Next]_vars =>
        [\A t \in Thread : pc[t] # "idle" /\ pc'[t] # pc[t] => Advances(t)]_vars
  BY StepAdvances
<1>2. QED
  BY <1>1, Invariant, PTL DEF Spec

\* The OAuth coordinators are locked by those who work with them.
AuthHeld ==
  \A b \in Bundle, t \in Thread : auth[b] = t <=> pc[t] = "work" /\ held[t] = b

LEMMA AuthTouched ==
  ASSUME IInv, AuthHeld, NEW t \in Thread, LockAuth(t) \/ BeginLogin(t) \/ EndLogin(t)
  PROVE  AuthHeld'
<1>1. held[t] \in Bundle
  BY DEF IInv, JobAtStep, LockAuth, BeginLogin, EndLogin
<1>2. CASE LockAuth(t)
  BY <1>1, <1>2, DesktopAssumption
     DEF IInv, TypeOK, AuthHeld, LockAuth, Proceed, Goto, mine
<1>3. CASE BeginLogin(t) \/ EndLogin(t)
  <2>1. /\ pc[t] = "work" /\ auth' = [auth EXCEPT ![held[t]] = None]
        /\ Return(t)
    BY <1>3 DEF BeginLogin, EndLogin
  <2>2. /\ pc'[t] = "idle"
        /\ \A u \in Thread \ {t} : pc'[u] = pc[u] /\ held'[u] = held[u]
    BY <2>1, ReturnTyped DEF IInv, Others
  <2>3. QED
    BY <1>1, <2>1, <2>2, DesktopAssumption DEF IInv, TypeOK, AuthHeld
<1>4. QED
  BY <1>2, <1>3

\* All others are at no such step, before or after.
LEMMA AuthLeft ==
  ASSUME IInv, AuthHeld, NEW t \in Thread, NEW step, Goto(t, step), UNCHANGED auth,
         \A u \in Thread \ {t} : held'[u] = held[u],
         pc[t] # "work", step # "work"
  PROVE  AuthHeld'
  BY DEF IInv, TypeOK, AuthHeld, Goto

LEMMA AuthReturned ==
  ASSUME IInv, AuthHeld, NEW t \in Thread, Return(t), UNCHANGED auth, pc[t] # "work"
  PROVE  AuthHeld'
<1>1. Goto(t, "idle") /\ Others(t)
  BY ReturnTyped DEF IInv, Return
<1>2. QED
  BY <1>1, AuthLeft DEF Others

LEMMA AuthPassed ==
  ASSUME IInv, AuthHeld, NEW t \in Thread, NEW step, Proceed(t, step), UNCHANGED auth,
         pc[t] # "work", step # "work"
  PROVE  AuthHeld'
  BY AuthLeft DEF Proceed, mine

LEMMA AuthKept ==
  ASSUME IInv, AuthHeld, NEW t \in Thread, Work(t)
  PROVE  AuthHeld'
<1> USE DEF bundles
<1>1. CASE LockAuth(t) \/ BeginLogin(t) \/ EndLogin(t)
  BY <1>1, AuthTouched
<1>2. CASE ReadActive(t) \/ CountFlows(t)
  <2>1. /\ pc[t] \in {"read", "len"} /\ UNCHANGED <<auth, held>>
        /\ Goto(t, "follow") \/ Goto(t, "clone") \/ Goto(t, "infl")
    BY <1>2 DEF ReadActive, CountFlows, Proceed, mine
  <2>2. QED
    BY <2>1, AuthLeft
<1>3. CASE Follow(t) \/ SwapToActive(t) \/ ChangeRuntime(t)
  <2>1. /\ pc[t] \in {"follow", "decide", "change"} /\ UNCHANGED auth
        /\ \/ Proceed(t, "len") \/ Proceed(t, "clone")
           \/ Proceed(t, "swap") \/ Proceed(t, "clear")
    BY <1>3 DEF Follow, SwapToActive, ChangeRuntime
  <2>2. QED
    BY <2>1, AuthPassed
<1>4. CASE CountOperations(t) \/ CountLogins(t) \/ StartChange(t)
  <2>1. /\ pc[t] \in {"infl", "authcount", "decide"} /\ UNCHANGED auth
        /\ \/ Proceed(t, "decide") \/ Proceed(t, "len") \/ Proceed(t, "change")
           \/ Proceed(t, "clone") \/ Return(t)
    BY <1>4 DEF CountOperations, CountLogins, StartChange, GiveUp
  <2>2. QED
    BY <2>1, AuthPassed, AuthReturned
<1>5. CASE Clone(t)
  <2>1. pc[t] = "clone" /\ UNCHANGED auth
    BY <1>5 DEF Clone
  <2>2. CASE Refused(t)
    BY <1>5, <2>1, <2>2, AuthReturned DEF Clone
  <2>3. CASE ~Refused(t)
    <3>1. Goto(t, AfterClone(Op(t))) /\ held' = [held EXCEPT ![t] = current]
      BY <1>5, <2>3 DEF Clone
    <3>2. AfterClone(Op(t)) # "work"
      BY DEF AfterClone
    <3>3. QED
      BY <2>1, <3>1, <3>2, AuthLeft DEF IInv, TypeOK
  <2>4. QED
    BY <2>2, <2>3
<1>6. CASE SkipWatch(t) \/ EndBegin(t) \/ Finalize(t)
  BY <1>6, AuthReturned DEF SkipWatch, EndBegin, Finalize
<1>7. CASE Operate(t) \/ SwapServices(t) \/ ClearChange(t)
  BY <1>7, AuthReturned DEF Operate, SwapServices, ClearChange
<1>8. CASE BeginCreation(t) \/ CreationStarted(t) \/ LockServices(t)
  BY <1>8, AuthPassed DEF BeginCreation, CreationStarted, LockServices
<1>9. CASE LookForFlow(t) \/ RequestChange(t)
  <2>1. /\ pc[t] \in {"look", "request"} /\ UNCHANGED auth
        /\ Proceed(t, "final") \/ Proceed(t, "authcount") \/ Return(t)
    BY <1>9 DEF LookForFlow, RequestChange
  <2>2. QED
    BY <2>1, AuthPassed, AuthReturned
<1>10. QED
  BY <1>1, <1>2, <1>3, <1>4, <1>5, <1>6, <1>7, <1>8, <1>9 DEF Work

LEMMA StepKeepsAuth == IInv /\ AuthHeld /\ [Next]_vars => AuthHeld'
<1> SUFFICES ASSUME IInv, AuthHeld, [Next]_vars
             PROVE  AuthHeld'
  OBVIOUS
<1>1. ASSUME NEW t \in Thread, NEW c \in Command, Call(t, c)
      PROVE  AuthHeld'
  <2>1. FirstStep(c.op) # "work"
    BY DEF FirstStep
  <2>2. QED
    BY <1>1, <2>1, AuthLeft DEF Call, bundles
<1>2. ASSUME NEW c \in Cli, Activate(c)
      PROVE  AuthHeld'
  BY <1>2 DEF Activate, AuthHeld, bundles, mine
<1>3. CASE UNCHANGED vars
  BY <1>3 DEF vars, AuthHeld, bundles, mine
<1>4. QED
  BY <1>1, <1>2, <1>3, AuthKept DEF Next

\* A thread waits for the services mutex, or for the mutex of an OAuth coordinator;
\* only one that counts the logins waits for the second while it holds the first.
AwaitsServices(t) ==
  /\ pc[t] \in {"follow", "clone", "counted", "account", "request", "swap", "clear"}
  /\ services # None
AwaitsAuth(t) ==
  \/ pc[t] = "auth" /\ auth[held[t]] # None
  \/ pc[t] = "authcount" /\ auth[current] # None

\* While a command runs, one of those that run waits for nobody.
SomeoneCanMove ==
  (\E t \in Thread : pc[t] # "idle") =>
     \E t \in Thread : pc[t] # "idle" /\ ~AwaitsServices(t) /\ ~AwaitsAuth(t)

\* Who holds a mutex, and what that thread may wait for.
LEMMA HolderOfAuth ==
  ASSUME IInv, AuthHeld, NEW b \in Bundle, auth[b] # None
  PROVE  \E u \in Thread : pc[u] = "work"
<1>1. auth[b] \in Thread
  BY DEF IInv, TypeOK
<1>2. QED
  BY <1>1 DEF AuthHeld

LEMMA HolderOfServices ==
  ASSUME IInv, services # None
  PROVE  \E u \in Thread : pc[u] \in {"authcount", "len", "infl", "decide", "operate"}
<1>1. services \in Thread
  BY DEF IInv, TypeOK
<1>2. Holds(services)
  BY <1>1 DEF IInv, ServicesHeld
<1>3. QED
  BY <1>1, <1>2 DEF Holds

LEMMA NoCircle ==
  ASSUME IInv, AuthHeld
  PROVE  SomeoneCanMove
<1>1. ASSUME NEW u \in Thread, pc[u] = "work"
      PROVE  SomeoneCanMove
  BY <1>1 DEF SomeoneCanMove, AwaitsServices, AwaitsAuth
<1>2. ASSUME NEW u \in Thread, AwaitsAuth(u)
      PROVE  SomeoneCanMove
  <2>1. \E b \in Bundle : auth[b] # None
    BY <1>2 DEF AwaitsAuth, IInv, TypeOK, JobAtStep
  <2>2. QED
    BY <1>1, <2>1, HolderOfAuth
<1>3. ASSUME NEW u \in Thread, AwaitsServices(u)
      PROVE  SomeoneCanMove
  <2>1. PICK v \in Thread : pc[v] \in {"authcount", "len", "infl", "decide", "operate"}
    BY <1>3, HolderOfServices DEF AwaitsServices
  <2>2. pc[v] # "idle" /\ ~AwaitsServices(v)
    BY <2>1 DEF AwaitsServices
  <2>3. QED
    BY <1>2, <2>2 DEF SomeoneCanMove
<1>4. QED
  BY <1>2, <1>3 DEF SomeoneCanMove

\* Never does every command wait for another: whoever holds a coordinator waits for
\* nobody, and whoever holds the services at most for one who holds a coordinator
\* (install_runtime counts the logins with the services locked).
THEOREM NobodyWaitsInACircle == Spec => []SomeoneCanMove
<1>1. Init => AuthHeld
  BY DesktopAssumption DEF Init, AuthHeld
<1>2. IInv /\ AuthHeld => SomeoneCanMove
  BY NoCircle
<1>3. QED
  BY <1>1, <1>2, Invariant, StepKeepsAuth, PTL DEF Spec
=============================================================================
