---------------------------- MODULE CallProofs ----------------------------
(***************************************************************************)
(* What a call of the official CLI keeps on its way: across the host       *)
(* bridge, for any number of calls, hops and attempts, and under the       *)
(* keychain lock, for any tasks.                                           *)
(*                                                                         *)
(* SentOnce and InputKept speak of what the desktop has started; that it   *)
(* cannot start the wrong thing depends on where the caller is.  The       *)
(* invariant says what a caller has built and sent at each step, as long   *)
(* as its shim has not had the desktop started (Plain).                    *)
(*                                                                         *)
(* ExclusiveAlone is not inductive: it follows from what is held, so       *)
(* LockInv relates each step of a task to the lock it has (LockFirst), and *)
(* says which locks go together (Compatible).                              *)
(***************************************************************************)
EXTENDS HostBridge, KeychainLock, WellFoundedInduction, TLAPS

-----------------------------------------------------------------------------
(* Across the bridge. *)

LEMMA CallType == Call \subseteq Nat /\ None \notin Call
  BY BridgeAssumption DEF Call

\* At first no call has been made.
LEMMA InitInvariant == Init => IInv
  BY BridgeAssumption, CallType
     DEF Init, IInv, TypeOK, Unborn, PlainStarts, PlainReads, Lineage, Plain, Input,
         Steps

\* The next call that starts has not started yet, and has no children.
LEMMA NextIsOff ==
  ASSUME NEW c \in Call, IsNext(c)
  PROVE  pc[c] = "off"
  BY CallType DEF IsNext

\* A call is made: its children are yet to come.
LEMMA InvokeKeeps ==
  ASSUME IInv, NEW c \in Call, NEW k \in {"cli", "control"},
         NEW input \in {"none", "data"}, Invoke(c, k, input)
  PROVE  IInv'
<1> USE DEF IInv, Invoke, Goto
<1>0. pc[c] = "off"
  BY NextIsOff
<1>1. TypeOK'
  BY DEF TypeOK, Input, Steps
<1>2. Unborn'
  BY <1>0 DEF TypeOK, Unborn
<1>3. PlainStarts'
  BY <1>0 DEF TypeOK, Unborn, PlainStarts, Plain
<1>4. PlainReads'
  BY <1>0 DEF TypeOK, PlainReads, Plain
<1>5. Lineage'
  BY <1>0, CallType DEF TypeOK, Unborn, Lineage, Plain
<1>6. QED
  BY <1>1, <1>2, <1>3, <1>4, <1>5

\* The steps of a caller that leave its attempts alone.
LEMMA CallerKeeps ==
  ASSUME IInv, NEW c \in Call,
         Decide(c) \/ Finish(c) \/ BuildRequest(c) \/ Connect(c) \/ Kill(c)
  PROVE  IInv'
<1> USE DEF IInv, Decide, Finish, BuildRequest, Connect, Kill, Goto, born
<1>1. TypeOK'
  BY DEF TypeOK, Input, Steps, Read, Refusal
<1>2. Unborn'
  BY DEF TypeOK, Unborn, Refusal
<1>3. PlainStarts'
  BY DEF TypeOK, Unborn, PlainStarts, Plain, Refusal
<1>4. PlainReads'
  BY DEF TypeOK, Unborn, PlainReads, Plain, Read, Refusal
<1>5. Lineage'
  BY DEF TypeOK, Lineage, Plain, Refusal
<1>6. QED
  BY <1>1, <1>2, <1>3, <1>4, <1>5

\* Another attempt, or none.
LEMMA AttemptKeeps ==
  ASSUME IInv, NEW c \in Call, Unavailable(c) \/ Broken(c)
  PROVE  IInv'
<1> USE DEF IInv, Unavailable, Broken, TryAgain, RetriesBroken, Again, Goto, born
<1>1. TypeOK'
  BY BridgeAssumption DEF TypeOK, Steps
<1>2. Unborn'
  BY DEF TypeOK, Unborn
<1>3. PlainStarts'
  BY DEF TypeOK, PlainStarts, Plain
<1>4. PlainReads'
  BY DEF TypeOK, PlainReads, Plain
<1>5. Lineage'
  BY DEF TypeOK, Lineage, Plain
<1>6. QED
  BY <1>1, <1>2, <1>3, <1>4, <1>5

\* The desktop starts a child: the first one of a plain call, with its input.
LEMMA ServeKeeps ==
  ASSUME IInv, NEW c \in Call, NEW d \in Call, Serve(c, d)
  PROVE  IInv'
<1> USE DEF IInv, Serve, Goto
<1>0. pc[d] = "off" /\ c # d
  BY NextIsOff
<1>1. TypeOK'
  BY BridgeAssumption DEF TypeOK, NextHops, Input, Steps
<1>2. Unborn'
  BY <1>0 DEF TypeOK, Unborn
<1>3. PlainStarts'
  BY <1>0, CallType DEF TypeOK, Unborn, PlainStarts, Plain
<1>4. PlainReads'
  BY <1>0 DEF TypeOK, PlainReads, Plain
<1>5. Lineage'
  BY <1>0, CallType DEF TypeOK, Unborn, PlainReads, Lineage, Plain, NextHops
<1>6. QED
  BY <1>1, <1>2, <1>3, <1>4, <1>5

\* A request ends: with an answer, without one, or with the desktop.
LEMMA AnswerKeeps ==
  ASSUME IInv,
         \/ \E c \in Call : Refuse(c) \/ Answer(c)
         \/ HostStart \/ HostCrash
  PROVE  IInv'
<1> USE DEF IInv, Refuse, Answer, HostStart, HostCrash, Goto, born
<1>1. TypeOK'
  BY DEF TypeOK, Steps
<1>2. Unborn'
  BY DEF TypeOK, Unborn
<1>3. PlainStarts'
  BY DEF TypeOK, PlainStarts, Plain
<1>4. PlainReads'
  BY DEF TypeOK, PlainReads, Plain
<1>5. Lineage'
  BY DEF TypeOK, Lineage, Plain
<1>6. QED
  BY <1>1, <1>2, <1>3, <1>4, <1>5

\* Every step keeps the invariant.
LEMMA StepKeeps == IInv /\ [Next]_vars => IInv'
<1> SUFFICES ASSUME IInv, [Next]_vars
             PROVE  IInv'
  OBVIOUS
<1>1. CASE UNCHANGED vars
  BY <1>1 DEF vars, IInv, TypeOK, Unborn, PlainStarts, PlainReads, Lineage, Plain
<1>2. CASE Next
  BY <1>2, InvokeKeeps, CallerKeeps, AttemptKeeps, ServeKeeps, AnswerKeeps
     DEF Next, Caller, Host
<1>3. QED
  BY <1>1, <1>2

\* What a caller has built, sent and started fits the step it is at, for any number
\* of calls, hops and attempts; every variable keeps its type.
THEOREM Invariant == Spec => []IInv
  BY InitInvariant, StepKeeps, PTL DEF Spec

\* An lpcctl command is started at most once, and so is a lark-cli command whose
\* shim has not had the desktop started.
THEOREM CommandsAreSentOnce == Spec => []SentOnce
<1>1. IInv => SentOnce
  BY DEF IInv, TypeOK, PlainStarts, Plain, SentOnce
<1>2. QED
  BY <1>1, Invariant, PTL

\* What the desktop starts for them reads what their callers were given.
THEOREM InputIsKept == Spec => []InputKept
<1>1. IInv => InputKept
  BY DEF IInv, TypeOK, Lineage, Plain, InputKept
<1>2. QED
  BY <1>1, Invariant, PTL

\* What follows is what CallsEnd rests on, the liveness itself being beyond the prover:
\* no call goes round for ever, and of those that wait somebody can be waited for.

\* The steps a call still has before it, at most, for the attempts it has left.
CallLeft == [off |-> 6, start |-> 5, send |-> 4, connect |-> 3, sent |-> 2,
             unavailable |-> 1, broken |-> 1, run |-> 1, done |-> 0]
Ahead(c) == 4 * (MaxTries - tries[c]) + CallLeft[pc[c]]

LEMMA MovesOn ==
  ASSUME TypeOK, NEW c \in Call, NEW step, Goto(c, step), UNCHANGED tries,
         CallLeft[step] < CallLeft[pc[c]], step \in Steps,
         NEW d \in Call, pc'[d] # pc[d]
  PROVE  Ahead(d)' < Ahead(d)
<1>1. d = c /\ pc'[d] = step
  BY DEF TypeOK, Goto
<1>2. CallLeft[step] \in Nat /\ CallLeft[pc[c]] \in Nat
  BY DEF TypeOK, Steps, CallLeft
<1>3. tries[c] \in Nat /\ MaxTries \in Nat
  BY BridgeAssumption DEF TypeOK
<1>4. QED
  BY <1>1, <1>2, <1>3 DEF Ahead

\* Another attempt costs one of those that are left.
LEMMA TriesAgain ==
  ASSUME TypeOK, NEW c \in Call, TryAgain(c), pc[c] \in {"unavailable", "broken"},
         NEW d \in Call, pc'[d] # pc[d]
  PROVE  Ahead(d)' < Ahead(d)
<1>1. CASE tries[c] < MaxTries
  <2>1. d = c /\ pc'[d] \in {"connect", "send"} /\ tries'[d] = tries[c] + 1
    BY <1>1 DEF TypeOK, TryAgain, Again, Goto
  <2>2. CallLeft[pc'[d]] \in {3, 4} /\ CallLeft[pc[c]] = 1
    BY <2>1 DEF CallLeft
  <2>3. tries[c] \in Nat /\ MaxTries \in Nat
    BY BridgeAssumption DEF TypeOK
  <2>4. QED
    BY <2>1, <2>2, <2>3 DEF Ahead
<1>2. CASE ~(tries[c] < MaxTries)
  <2>1. UNCHANGED tries /\ Goto(c, "done") /\ "done" \in Steps
    BY <1>2 DEF TryAgain, Steps
  <2>2. CallLeft["done"] < CallLeft[pc[c]]
    BY DEF CallLeft
  <2>3. QED
    BY <2>1, <2>2, MovesOn
<1>3. QED
  BY <1>1, <1>2

LEMMA CallerAdvances ==
  ASSUME IInv, NEW c \in Call, Caller(c) \/ Kill(c), NEW d \in Call, pc'[d] # pc[d]
  PROVE  Ahead(d)' < Ahead(d)
<1>0. TypeOK /\ pc[c] \in Steps
  BY DEF IInv, TypeOK
<1>1. CASE Decide(c) \/ Finish(c) \/ Connect(c)
  BY <1>0, <1>1, MovesOn DEF Decide, Finish, Connect, CallLeft, Steps
<1>2. CASE BuildRequest(c)
  <2>1. /\ pc[c] = "send" /\ UNCHANGED tries
        /\ Goto(c, "unavailable") \/ Goto(c, "done") \/ Goto(c, "connect")
    BY <1>2 DEF BuildRequest, Refusal
  <2>2. QED
    BY <1>0, <2>1, MovesOn DEF CallLeft, Steps
<1>3. CASE Unavailable(c) \/ Broken(c)
  <2>1. /\ pc[c] \in {"unavailable", "broken"}
        /\ TryAgain(c) \/ (Goto(c, "done") /\ UNCHANGED tries)
    BY <1>3 DEF Unavailable, Broken
  <2>2. QED
    BY <1>0, <2>1, MovesOn, TriesAgain DEF CallLeft, Steps
<1>4. CASE Kill(c)
  <2>1. /\ pc[c] \in Steps \ {"off", "done"} /\ UNCHANGED tries /\ Goto(c, "done")
    BY <1>0, <1>4 DEF Kill
  <2>2. CallLeft["done"] < CallLeft[pc[c]] /\ "done" \in Steps
    BY <2>1 DEF CallLeft, Steps
  <2>3. QED
    BY <1>0, <2>1, <2>2, MovesOn
<1>5. QED
  BY <1>1, <1>2, <1>3, <1>4 DEF Caller

LEMMA StepAdvances ==
  ASSUME IInv, [Next]_vars, NEW d \in Call, pc[d] # "off", pc'[d] # pc[d]
  PROVE  Ahead(d)' < Ahead(d)
<1>0. TypeOK
  BY DEF IInv
<1>1. ASSUME NEW c \in Call, NEW k \in {"cli", "control"}, NEW input \in {"none", "data"},
             Invoke(c, k, input)
      PROVE  FALSE
  BY <1>1, NextIsOff DEF Invoke, Goto, IInv, TypeOK
<1>2. ASSUME NEW c \in Call, NEW e \in Call, Serve(c, e)
      PROVE  FALSE
  BY <1>2, NextIsOff DEF Serve, Goto, IInv, TypeOK
<1>3. ASSUME NEW c \in Call, Refuse(c) \/ Answer(c)
      PROVE  Ahead(d)' < Ahead(d)
  <2>1. /\ pc[c] = "sent" /\ UNCHANGED tries
        /\ Goto(c, "done") \/ Goto(c, "broken")
    BY <1>3 DEF Refuse, Answer
  <2>2. QED
    BY <1>0, <2>1, MovesOn DEF CallLeft, Steps
<1>4. CASE HostCrash
  <2>1. pc[d] = "sent" /\ pc'[d] = "broken" /\ tries'[d] = tries[d]
    BY <1>4 DEF HostCrash
  <2>2. tries[d] \in Nat /\ MaxTries \in Nat
    BY BridgeAssumption DEF IInv, TypeOK
  <2>3. QED
    BY <2>1, <2>2 DEF Ahead, CallLeft
<1>5. CASE HostStart \/ UNCHANGED vars
  BY <1>5 DEF HostStart, vars
<1>6. QED
  BY <1>1, <1>2, <1>3, <1>4, <1>5, CallerAdvances DEF Next, Host

\* Wherever the desktop dies and however often it comes back, each step of a call brings
\* it nearer its end; a call takes at most five steps, and four for every attempt.
THEOREM CallsAdvance ==
  Spec => [][\A c \in Call : pc[c] # "off" /\ pc'[c] # pc[c] => Ahead(c)' < Ahead(c)]_vars
<1>1. IInv /\ [Next]_vars =>
        [\A c \in Call : pc[c] # "off" /\ pc'[c] # pc[c] => Ahead(c)' < Ahead(c)]_vars
  BY StepAdvances
<1>2. QED
  BY <1>1, Invariant, PTL DEF Spec

\* A call that is served waits for one that started later, and nobody waits for a
\* desktop that is not there.
ServedByLater ==
  \A c \in Call :
    /\ child[c] # None => child[c] > c /\ pc[child[c]] # "off"
    /\ pc[c] = "sent" => host

LEMMA ServedInit == Init => ServedByLater
  BY DEF Init, ServedByLater

LEMMA ServedKept ==
  ASSUME IInv, ServedByLater, UNCHANGED child,
         \A c \in Call : pc[c] # "off" => pc'[c] # "off",
         \A c \in Call : pc'[c] = "sent" => host'
  PROVE  ServedByLater'
  BY DEF IInv, TypeOK, ServedByLater

LEMMA ServedStep == IInv /\ ServedByLater /\ [Next]_vars => ServedByLater'
<1> SUFFICES ASSUME IInv, ServedByLater, [Next]_vars
             PROVE  ServedByLater'
  OBVIOUS
<1>0. /\ pc \in [Call -> Steps]
      /\ \A c \in Call : pc[c] = "sent" => host
  BY DEF IInv, TypeOK, ServedByLater
<1>1. ASSUME NEW c \in Call, NEW k \in {"cli", "control"}, NEW input \in {"none", "data"},
             Invoke(c, k, input)
      PROVE  ServedByLater'
  BY <1>0, <1>1, ServedKept DEF Invoke, Goto
<1>2. ASSUME NEW c \in Call,
             \/ Decide(c) \/ Finish(c) \/ BuildRequest(c) \/ Connect(c)
             \/ Unavailable(c) \/ Broken(c) \/ Kill(c)
      PROVE  ServedByLater'
  <2>1. /\ UNCHANGED <<host, child>>
        /\ \E step \in {"run", "send", "done", "unavailable", "connect"} : Goto(c, step)
           \/ (host /\ Goto(c, "sent"))
    BY <1>2 DEF Decide, Finish, BuildRequest, Refusal, Connect, Unavailable, Broken,
                TryAgain, Again, Kill
  <2>2. QED
    BY <1>0, <2>1, ServedKept DEF Goto
<1>3. ASSUME NEW c \in Call, NEW d \in Call, Serve(c, d)
      PROVE  ServedByLater'
  <2>1. d > c /\ pc[d] = "off" /\ host
    BY <1>3, CallType DEF Serve, IsNext
  <2>2. /\ pc' = [pc EXCEPT ![d] = "start"] /\ child' = [child EXCEPT ![c] = d]
        /\ UNCHANGED host
    BY <1>3 DEF Serve, Goto
  <2>3. child'[c] = d /\ pc'[d] = "start" /\ child' \in [Call -> Call \cup {None}]
    BY <1>0, <2>2 DEF IInv, TypeOK
  <2>4. ASSUME NEW e \in Call, e # c, child'[e] # None
        PROVE  child'[e] > e /\ pc'[child'[e]] # "off"
    <3>1. child'[e] = child[e] /\ child[e] \in Call
      BY <2>2, <2>3, <2>4 DEF IInv, TypeOK
    <3>2. child[e] > e /\ pc[child[e]] # "off"
      BY <2>4, <3>1 DEF ServedByLater
    <3>3. QED
      BY <1>0, <2>2, <3>1, <3>2
  <2>5. QED
    BY <2>1, <2>2, <2>3, <2>4 DEF ServedByLater
<1>4. ASSUME NEW c \in Call, Refuse(c) \/ Answer(c)
      PROVE  ServedByLater'
  <2>1. /\ UNCHANGED host /\ pc[c] = "sent"
        /\ Goto(c, "done") \/ Goto(c, "broken")
        /\ child' \in {child, [child EXCEPT ![c] = None]}
    BY <1>4 DEF Refuse, Answer
  <2>2. \A e \in Call : child'[e] \in {child[e], None}
    BY <2>1 DEF IInv, TypeOK
  <2>3. \A e \in Call : child'[e] # None =>
           child'[e] > e /\ child'[e] \in Call /\ pc[child'[e]] # "off"
    BY <2>2 DEF IInv, TypeOK, ServedByLater
  <2>4. \A e \in Call : (pc[e] # "off" => pc'[e] # "off") /\ (pc'[e] = "sent" => host')
    BY <1>0, <2>1 DEF Goto
  <2>5. QED
    BY <2>3, <2>4 DEF ServedByLater
<1>5. CASE HostStart
  BY <1>0, <1>5, ServedKept DEF HostStart
<1>6. CASE HostCrash
  BY <1>6 DEF HostCrash, ServedByLater
<1>7. CASE UNCHANGED vars
  BY <1>7, ServedKept DEF vars, ServedByLater
<1>8. QED
  BY <1>1, <1>2, <1>3, <1>4, <1>5, <1>6, <1>7 DEF Next, Caller, Host

\* Of the calls that run, one waits for no other: neither for a desktop that is gone
\* nor for a call the desktop has started for it.
UnderWay == {c \in Call : pc[c] \notin {"off", "done"}}
SomeCallGoesOn ==
  UnderWay # {} =>
    \E c \in UnderWay :
      pc[c] = "sent" => host /\ (child[c] = None \/ pc[child[c]] = "done")

\* Numbers up to a bound have a greatest among them.
LEMMA Youngest ==
  ASSUME NEW S \in SUBSET Call, S # {}
  PROVE  \E c \in S : \A d \in S : d <= c
<1> DEFINE Back == {n \in Nat : \E c \in S : n = MaxCalls - c}
<1>0. MaxCalls \in Nat /\ \A c \in S : c \in 1..MaxCalls
  BY BridgeAssumption DEF Call
<1>1. \A c \in S : MaxCalls - c \in Back
  BY <1>0
<1>2. Back \subseteq Nat /\ Back # {}
  BY <1>1
<1>3. PICK x \in Back : \A y \in Back : ~(<<y, x>> \in OpToRel(<, Nat))
  <2> HIDE DEF Back
  <2>1. QED
    BY <1>2, NatLessThanWellFounded, WFMin
<1>4. ASSUME NEW y \in Back
      PROVE  x <= y
  <2>1. ~(<<y, x>> \in {r \in Nat \X Nat : r[1] < r[2]})
    BY <1>3 DEF OpToRel
  <2>2. QED
    BY <2>1, <1>2
<1>5. PICK c \in S : x = MaxCalls - c
  OBVIOUS
<1>6. ASSUME NEW d \in S
      PROVE  d <= c
  <2>1. x <= MaxCalls - d
    BY <1>1, <1>4
  <2>2. QED
    BY <1>0, <1>5, <2>1
<1>7. QED
  BY <1>6

\* The youngest call is such a one: however often calls are forwarded in turn (the
\* children of children, up to MAX_BRIDGE_HOPS), they do not wait in a circle.
THEOREM NoCallWaitsInACircle == Spec => []SomeCallGoesOn
<1>1. IInv /\ ServedByLater => SomeCallGoesOn
  <2> SUFFICES ASSUME IInv, ServedByLater, UnderWay # {}
               PROVE  \E c \in UnderWay :
                        pc[c] = "sent" => host /\ (child[c] = None \/ pc[child[c]] = "done")
    BY DEF SomeCallGoesOn
  <2>1. PICK c \in UnderWay : \A d \in UnderWay : d <= c
    BY Youngest DEF UnderWay
  <2>2. ASSUME pc[c] = "sent", child[c] # None
        PROVE  pc[child[c]] = "done"
    <3>1. child[c] \in Call /\ child[c] > c /\ pc[child[c]] # "off"
      BY <2>2 DEF UnderWay, IInv, TypeOK, ServedByLater
    <3>2. child[c] \notin UnderWay
      <4>1. c \in Nat
        BY CallType DEF UnderWay
      <4>2. child[c] \in Nat
        BY <3>1, CallType
      <4>3. ~(child[c] <= c)
        BY <3>1, <4>1, <4>2
      <4>4. QED
        BY <2>1, <4>3
    <3>3. QED
      BY <3>1, <3>2 DEF UnderWay
  <2>3. pc[c] = "sent" => host
    BY DEF UnderWay, ServedByLater
  <2>4. QED
    BY <2>2, <2>3
<1>2. QED
  BY <1>1, Invariant, ServedInit, ServedStep, PTL DEF Spec

-----------------------------------------------------------------------------
(* Under the keychain lock. *)

\* No task holds a lock at first.
LEMMA LocksInit == LockInit => LockInv
  BY DEF LockInit, LockInv, LockTypeOK, Compatible, LockFirst,
         NestedUnder, Mode

\* Giving up the lock, as every task does at its end, harms nobody.
LEMMA EndKeeps ==
  ASSUME LockInv, NEW t \in Task, End(t), nested[t] # "under"
  PROVE  LockInv'
<1> USE DEF LockInv, End, Go, Release
<1>1. LockTypeOK'
  BY DEF LockTypeOK
<1>2. Compatible'
  BY DEF LockTypeOK, Compatible
<1>3. LockFirst'
  BY DEF LockTypeOK, LockFirst, Mode
<1>4. NestedUnder'
  BY DEF LockTypeOK, NestedUnder, Running
<1>5. QED
  BY <1>1, <1>2, <1>3, <1>4

\* A task whose CLI a nested call runs under cannot be over.
LEMMA NotOver ==
  ASSUME LockInv, NEW t \in Task,
         at[t] # "run" \/ cli[t] # "running" \/ kind[t] # "shim"
  PROVE  nested[t] # "under"
  BY DEF LockInv, NestedUnder, Running

\* A lock that is free for a task goes together with those that are held.
LEMMA AcquireKeeps ==
  ASSUME LockInv, NEW t \in Task, Acquire(t)
  PROVE  LockInv'
<1> USE DEF LockInv, Acquire, Go
<1>1. LockTypeOK'
  BY DEF LockTypeOK, Mode
<1>2. Compatible'
  <2> SUFFICES ASSUME NEW u \in Task, NEW v \in Task, u # v, held'[u] = "exclusive"
               PROVE  held'[v] = "no"
    BY DEF Compatible
  <2>1. CASE u = t
    <3>1. Mode(t) = "exclusive"
      BY <2>1 DEF LockTypeOK
    <3>2. QED
      BY <2>1, <3>1 DEF LockTypeOK, Free
  <2>2. CASE v = t
    <3>1. held[u] = "exclusive"
      BY <2>2 DEF LockTypeOK
    <3>2. QED
      BY <2>2, <3>1 DEF Free
  <2>3. CASE u # t /\ v # t
    BY <2>3 DEF LockTypeOK, Compatible
  <2>4. QED
    BY <2>1, <2>2, <2>3
<1>3. LockFirst'
  BY DEF LockTypeOK, LockFirst, Mode
<1>4. NestedUnder'
  BY DEF LockTypeOK, NestedUnder, Running
<1>5. QED
  BY <1>1, <1>2, <1>3, <1>4

\* Steps that leave the locks alone or give one up keep them compatible.
LEMMA ReleaseKeepsCompatible ==
  ASSUME LockTypeOK, Compatible, NEW t \in Task, Release(t) \/ UNCHANGED held
  PROVE  Compatible'
  BY DEF LockTypeOK, Compatible, Release

\* Every at of a task keeps the invariant.
LEMMA LocksStep == LockInv /\ [LockNext]_lockVars => LockInv'
<1> SUFFICES ASSUME LockInv, [LockNext]_lockVars
             PROVE  LockInv'
  OBVIOUS
<1> USE DEF LockInv
<1>1. ASSUME NEW t \in Task, NEW k \in Kinds, Begin(t, k)
      PROVE  LockInv'
  <2>1. Compatible'
    BY <1>1, ReleaseKeepsCompatible DEF Begin
  <2>2. LockTypeOK' /\ LockFirst'
    BY <1>1 DEF Begin, Go, LockTypeOK, LockFirst, Mode
  <2>3. NestedUnder'
    BY <1>1 DEF Begin, Go, LockTypeOK, NestedUnder, Running
  <2>4. QED
    BY <2>1, <2>2, <2>3
<1>2. ASSUME NEW t \in Task, Acquire(t)
      PROVE  LockInv'
  BY <1>2, AcquireKeeps
<1>3. ASSUME NEW t \in Task,
             Busy(t) \/ Reap(t) \/ KillAndReap(t) \/ WatchCreation(t)
      PROVE  LockInv'
  <2>1. End(t) /\ nested[t] # "under"
    BY <1>3, NotOver DEF Busy, Reap, KillAndReap, WatchCreation
  <2>2. QED
    BY <2>1, EndKeeps
<1>4. ASSUME NEW t \in Task, Spawn(t)
      PROVE  LockInv'
  <2>1. CASE End(t)
    BY <1>4, <2>1, EndKeeps, NotOver DEF Spawn
  <2>2. CASE ~End(t)
    <3>1. Compatible'
      BY <1>4, <2>2, ReleaseKeepsCompatible DEF Spawn
    <3>2. LockTypeOK' /\ LockFirst'
      BY <1>4, <2>2 DEF Spawn, Go, LockTypeOK, LockFirst, Mode
    <3>3. NestedUnder'
      BY <1>4, <2>2 DEF Spawn, Go, LockTypeOK, NestedUnder,
                        Running
    <3>4. QED
      BY <3>1, <3>2, <3>3
  <2>3. QED
    BY <2>1, <2>2
<1>5. ASSUME NEW t \in Task, Exit(t) \/ ReapCreation(t)
      PROVE  LockInv'
  <2>1. Compatible'
    BY <1>5, ReleaseKeepsCompatible DEF Exit, ReapCreation
  <2>2. LockTypeOK' /\ LockFirst'
    BY <1>5 DEF Exit, ReapCreation, Go, Loosen, LockTypeOK,
                LockFirst, Mode
  <2>3. NestedUnder'
    BY <1>5 DEF Exit, ReapCreation, Go, Loosen, LockTypeOK,
                NestedUnder, Running
  <2>4. QED
    BY <2>1, <2>2, <2>3
<1>6. ASSUME NEW t \in Task, SecretNotWritten(t) \/ Crash(t)
      PROVE  LockInv'
  <2>1. Compatible'
    BY <1>6, ReleaseKeepsCompatible DEF SecretNotWritten, Crash
  <2>2. LockTypeOK' /\ LockFirst'
    BY <1>6 DEF SecretNotWritten, Crash, Go, Release,
                Loosen, LockTypeOK, LockFirst, Mode
  <2>3. NestedUnder'
    BY <1>6 DEF SecretNotWritten, Crash, Go, Release,
                Loosen, LockTypeOK, NestedUnder, Running
  <2>4. QED
    BY <2>1, <2>2, <2>3
<1>7. ASSUME NEW t \in Task, Nest(t) \/ NestedExit(t)
      PROVE  LockInv'
  <2>1. Compatible'
    BY <1>7, ReleaseKeepsCompatible DEF Nest, NestedExit
  <2>2. LockTypeOK' /\ LockFirst'
    BY <1>7 DEF Nest, NestedExit, LockTypeOK, LockFirst, Mode
  <2>3. NestedUnder'
    BY <1>7 DEF Nest, NestedExit, LockTypeOK, NestedUnder, Running
  <2>4. QED
    BY <2>1, <2>2, <2>3
<1>8. CASE UNCHANGED lockVars
  BY <1>8 DEF lockVars, LockTypeOK, Compatible, LockFirst,
              NestedUnder, Mode, Running
<1>9. QED
  BY <1>1, <1>2, <1>3, <1>4, <1>5, <1>6, <1>7, <1>8 DEF LockNext

\* Every variable keeps its type and every CLI is started under a lock, in every
\* state that the tasks can reach.
THEOREM LocksInvariant == LockSpec => []LockInv
  BY LocksInit, LocksStep, PTL DEF LockSpec

\* "All managed lark-cli child processes hold it for their lifetime" (locking.rs),
\* as long as what has started them lives and has not let go of them, and with them
\* what a nested call runs ("the outer shim holds the keychain lock until those
\* children exit", nested_shim.rs), while both are there.
THEOREM LockIsHeldForLifetime == LockSpec => []HeldForLifetime
<1>1. LockInv => HeldForLifetime
  BY DEF LockInv, LockFirst, NestedUnder, HeldForLifetime,
         Running, Mode
<1>2. QED
  BY <1>1, LocksInvariant, PTL

\* No official CLI, nested or not, runs beside the verification of an identity, for any
\* number of tasks (run_capture_internal, with_exclusive_keychain).
THEOREM VerificationRunsAlone == LockSpec => []ExclusiveAlone
<1>1. LockInv => ExclusiveAlone
  <2> SUFFICES ASSUME LockInv, NEW t \in Task, NEW u \in Task,
                      t # u, kind[t] = "verify", Running(t),
                      Running(u) \/ nested[u] = "under"
               PROVE  FALSE
    BY DEF ExclusiveAlone
  <2>1. held[t] = "exclusive"
    BY DEF LockInv, LockFirst, Mode, Running
  <2>2. held[u] = "no"
    BY <2>1 DEF LockInv, Compatible
  <2>3. held[u] = Mode(u)
    BY DEF LockInv, LockFirst, NestedUnder, Running
  <2>4. QED
    BY <2>2, <2>3 DEF Mode
<1>2. QED
  BY <1>1, LocksInvariant, PTL
=============================================================================
