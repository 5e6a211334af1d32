--------------------------- MODULE DesktopServices ---------------------------
(***************************************************************************)
(* The services of the desktop application (apps/desktop/src-tauri/src/    *)
(* main.rs) and the commands its window runs on them: the synchronous ones *)
(* one after the other in the main thread, the asynchronous ones and the   *)
(* periodic health check in threads of their own.                          *)
(*                                                                         *)
(* The services are a bundle behind one mutex: the account service with    *)
(* the official CLI it runs, an OAuth coordinator behind a second mutex,   *)
(* and an App-creation coordinator.  The coordinators keep the flows the   *)
(* user has begun, in memory only.  A new CLI means a new bundle, with     *)
(* empty coordinators: the old ones go with the flows they keep as soon as *)
(* no thread has a handle on them.                                         *)
(*                                                                         *)
(* Bundles are numbered; cliOf, oauth, apps, inflight and auth describe    *)
(* each bundle, current is the one behind the mutex.                       *)
(***************************************************************************)
EXTENDS Naturals, FiniteSets

CONSTANTS
  Thread,    \* the threads that run commands
  Main,      \* the main thread among them
  Flow,      \* the ids of OAuth and App-creation flows (fresh UUIDs)
  Cli,       \* the official CLI binaries that can be active
  Ops,       \* the commands that are called
  MaxBundle, \* bound: how many bundles there are
  MaxCalls,  \* bound: how many commands a thread runs in turn
  None

\* cancel, check, account and install stand for the synchronous commands; abort
\* is cancel_official_app_creation, watch a round of the periodic health check.
SyncOps == {"cancel", "check", "account", "install"}
AsyncOps == {"login", "complete", "create", "poll", "abort", "watch"}

ASSUME DesktopAssumption ==
  /\ Main \in Thread
  /\ Ops \subseteq SyncOps \cup AsyncOps
  /\ MaxBundle \in Nat \ {0}
  /\ MaxCalls \in Nat
  /\ None \notin Thread \cup Flow \cup Cli
  /\ IsFiniteSet(Thread) /\ IsFiniteSet(Flow)

VARIABLES
  active,   \* managed_cli_path in active-state.json
  services, \* the thread that holds the services mutex, or None
  current,  \* the bundle behind it
  changing, \* runtime_change_active
  begins,   \* app_creation_begins
  cliOf,    \* per bundle: the CLI of its services
  auth,     \* per bundle: the thread that holds the OAuth coordinator, or None
  oauth,    \* per bundle: the flows of the OAuth coordinator
  apps,     \* per bundle: the flows of the App-creation coordinator
  inflight, \* per bundle: in_flight_operations of that coordinator
  told,     \* what the user was told of a flow
  pc,       \* where a thread is in its command
  call,     \* the command it runs, or None
  held,     \* the bundle whose coordinator it has a handle on, or 0
  path,     \* the CLI it has read from active-state.json, or None
  count,    \* the number of flows it has counted
  calls     \* how many commands it has run

bundles == <<cliOf, auth, oauth, apps, inflight>>
mine == <<call, held, path, count, calls>>
vars == <<active, services, current, changing, begins, cliOf, auth, oauth, apps,
          inflight, told, pc, call, held, path, count, calls>>

Bundle == 1..MaxBundle
Command == [op: {"login", "create", "check", "account", "watch"}]
           \cup [op: {"complete", "cancel", "poll", "abort"}, flow: Flow]
           \cup [op: {"install"}, cli: Cli]
Status == {"new", "oauth", "app", "over"}
Steps == {"idle", "read", "follow", "clone", "auth", "work", "begin", "started",
          "counted", "look", "final", "account", "operate", "request", "authcount",
          "len", "infl", "decide", "change", "swap", "clear"}

TypeOK ==
  /\ active \in Cli
  /\ services \in Thread \cup {None}
  /\ current \in Bundle
  /\ changing \in BOOLEAN
  /\ begins \in 0..Cardinality(Thread)
  /\ cliOf \in [Bundle -> Cli \cup {None}]
  /\ auth \in [Bundle -> Thread \cup {None}]
  /\ oauth \in [Bundle -> SUBSET Flow]
  /\ apps \in [Bundle -> SUBSET Flow]
  /\ inflight \in [Bundle -> 0..Cardinality(Thread)]
  /\ told \in [Flow -> Status]
  /\ pc \in [Thread -> Steps]
  /\ call \in [Thread -> Command \cup {None}]
  /\ held \in [Thread -> Bundle \cup {0}]
  /\ path \in [Thread -> Cli \cup {None}]
  /\ count \in [Thread -> 0..Cardinality(Flow)]
  /\ calls \in [Thread -> 0..MaxCalls]

-----------------------------------------------------------------------------
Op(t) == call[t].op
Goto(t, step) == pc' = [pc EXCEPT ![t] = step]

\* The command returns: its handles are dropped.
Return(t) ==
  /\ Goto(t, "idle")
  /\ call' = [call EXCEPT ![t] = None]
  /\ held' = [held EXCEPT ![t] = 0]
  /\ path' = [path EXCEPT ![t] = None]
  /\ count' = [count EXCEPT ![t] = 0]
  /\ UNCHANGED calls

Proceed(t, step) == Goto(t, step) /\ UNCHANGED mine

FirstStep(o) ==
  CASE o \in {"login", "check", "watch"} -> "read"
    [] o = "install" -> "request"
    [] o = "account" -> "account"
    [] OTHER -> "clone"

Init ==
  /\ active \in Cli
  /\ services = None
  /\ current = 1
  /\ changing = FALSE
  /\ begins = 0
  /\ cliOf = [b \in Bundle |-> IF b = 1 THEN active ELSE None]
  /\ auth = [b \in Bundle |-> None]
  /\ oauth = [b \in Bundle |-> {}]
  /\ apps = [b \in Bundle |-> {}]
  /\ inflight = [b \in Bundle |-> 0]
  /\ told = [f \in Flow |-> "new"]
  /\ pc = [t \in Thread |-> "idle"]
  /\ call = [t \in Thread |-> None]
  /\ held = [t \in Thread |-> 0]
  /\ path = [t \in Thread |-> None]
  /\ count = [t \in Thread |-> 0]
  /\ calls = [t \in Thread |-> 0]

\* The window calls a command.  It can only name a flow it was told of.
Call(t, c) ==
  /\ pc[t] = "idle" /\ calls[t] < MaxCalls
  /\ c.op \in Ops \cap (IF t = Main THEN SyncOps ELSE AsyncOps)
  /\ c.op \in {"complete", "cancel"} => told[c.flow] = "oauth"
  /\ c.op \in {"poll", "abort"} => told[c.flow] = "app"
  /\ call' = [call EXCEPT ![t] = c]
  /\ calls' = [calls EXCEPT ![t] = @ + 1]
  /\ Goto(t, FirstStep(c.op))
  /\ UNCHANGED <<active, services, current, changing, begins, bundles, told, held,
                 path, count>>

\* Another process (lpcctl, a deploy) activates a CLI.
Activate(c) ==
  /\ active' = c
  /\ UNCHANGED <<services, current, changing, begins, bundles, told, pc, mine>>

-----------------------------------------------------------------------------
(* follow_active_runtime: the services take up the active CLI. *)

\* The state is read before the mutex is taken; without it nothing is taken up.
ReadActive(t) ==
  /\ pc[t] = "read"
  /\ \/ /\ path' = [path EXCEPT ![t] = active]
        /\ Goto(t, "follow")
        /\ UNCHANGED <<call, held, count, calls>>
     \/ Proceed(t, "clone")
  /\ UNCHANGED <<active, services, current, changing, begins, bundles, told>>

\* Mutant of MayFollow: creations that are being begun are not looked at.
MayFollowDuringBegin(t) == cliOf[current] # path[t] /\ ~changing

MayFollow(t) == cliOf[current] # path[t] /\ ~changing /\ begins = 0

Follow(t) ==
  /\ pc[t] = "follow" /\ services = None
  /\ IF MayFollow(t)
       THEN services' = t /\ Proceed(t, "len")
       ELSE UNCHANGED services /\ Proceed(t, "clone")
  /\ UNCHANGED <<active, current, changing, begins, bundles, told>>

\* active_flow_count of the App-creation coordinator: the flows, then the
\* operations in flight, each read at an instant of its own.
CountFlows(t) ==
  /\ pc[t] = "len"
  /\ count' = [count EXCEPT ![t] = Cardinality(apps[current])]
  /\ Goto(t, "infl")
  /\ UNCHANGED <<active, services, current, changing, begins, bundles, told, call,
                 held, path, calls>>

\* Mutant of GiveUp: the early return keeps the mutex.
GiveUpLocked(t) ==
  /\ UNCHANGED services
  /\ IF Op(t) = "install" THEN Return(t) ELSE Proceed(t, "clone")

\* What a thread that holds the services does when it may not change them.
GiveUp(t) ==
  /\ services' = None
  /\ IF Op(t) = "install" THEN Return(t) ELSE Proceed(t, "clone")

\* Mutant of CountOperations: only the flows are counted.
CountOperationsNot(t) ==
  /\ pc[t] = "infl"
  /\ IF count[t] > 0
       THEN GiveUp(t)
       ELSE UNCHANGED services /\ Proceed(t, "decide")
  /\ UNCHANGED <<active, current, changing, begins, bundles, told>>

CountOperations(t) ==
  /\ pc[t] = "infl"
  /\ IF count[t] + inflight[current] > 0
       THEN GiveUp(t)
       ELSE UNCHANGED services /\ Proceed(t, "decide")
  /\ UNCHANGED <<active, current, changing, begins, bundles, told>>

\* The OAuth coordinator must be free at this instant, and without flows; to make
\* another one may also fail.
SwapToActive(t) ==
  /\ pc[t] = "decide" /\ Op(t) # "install"
  /\ \/ /\ auth[current] = None /\ oauth[current] = {}
        /\ current < MaxBundle
        /\ current' = current + 1
        /\ cliOf' = [cliOf EXCEPT ![current + 1] = path[t]]
     \/ UNCHANGED <<current, cliOf>>
  /\ services' = None
  /\ Proceed(t, "clone")
  /\ UNCHANGED <<active, changing, begins, auth, oauth, apps, inflight, told>>

-----------------------------------------------------------------------------
(* Taking a handle on what is behind the mutex. *)

\* The commands that must not start while the runtime is being changed.
Refused(t) == changing /\ Op(t) \in {"login", "create"}

AfterClone(o) ==
  CASE o \in {"login", "complete", "cancel"} -> "auth"
    [] o = "create" -> "begin"
    [] o \in {"poll", "abort"} -> "look"
    [] OTHER -> "operate"

Clone(t) ==
  /\ pc[t] = "clone" /\ services = None
  /\ IF Refused(t)
       THEN Return(t) /\ UNCHANGED begins
       ELSE /\ held' = [held EXCEPT ![t] = current]
            /\ begins' = IF Op(t) = "create" THEN begins + 1 ELSE begins
            /\ Goto(t, AfterClone(Op(t)))
            /\ UNCHANGED <<call, path, count, calls>>
  /\ UNCHANGED <<active, services, current, changing, bundles, told>>

\* The periodic check does not wait: it is skipped when the services are busy.
SkipWatch(t) ==
  /\ pc[t] = "clone" /\ services # None /\ Op(t) = "watch"
  /\ Return(t)
  /\ UNCHANGED <<active, services, current, changing, begins, bundles, told>>

-----------------------------------------------------------------------------
(* OAuth flows: the coordinator is locked for all of the CLI's work. *)

LockAuth(t) ==
  /\ pc[t] = "auth" /\ auth[held[t]] = None
  /\ auth' = [auth EXCEPT ![held[t]] = t]
  /\ Proceed(t, "work")
  /\ UNCHANGED <<active, services, current, changing, begins, cliOf, oauth, apps,
                 inflight, told>>

\* The CLI has asked for a device code, or failed.
BeginLogin(t) ==
  /\ pc[t] = "work" /\ Op(t) = "login"
  /\ \/ \E f \in Flow :
          /\ told[f] = "new"
          /\ oauth' = [oauth EXCEPT ![held[t]] = @ \cup {f}]
          /\ told' = [told EXCEPT ![f] = "oauth"]
     \/ UNCHANGED <<oauth, told>>
  /\ auth' = [auth EXCEPT ![held[t]] = None]
  /\ Return(t)
  /\ UNCHANGED <<active, services, current, changing, begins, cliOf, apps, inflight>>

\* The login is polled: pending, or over (registered, failed or expired).  A
\* cancel ends it.  A flow the coordinator does not know is an error.
EndLogin(t) ==
  LET f == call[t].flow
      b == held[t]
  IN /\ pc[t] = "work" /\ Op(t) \in {"complete", "cancel"}
     /\ \/ f \in oauth[b]
           /\ oauth' = [oauth EXCEPT ![b] = @ \ {f}]
           /\ told' = [told EXCEPT ![f] = "over"]
        \/ (f \in oauth[b] => Op(t) = "complete") /\ UNCHANGED <<oauth, told>>
     /\ auth' = [auth EXCEPT ![b] = None]
     /\ Return(t)
     /\ UNCHANGED <<active, services, current, changing, begins, cliOf, apps, inflight>>

-----------------------------------------------------------------------------
(* App-creation flows. *)

\* begin counts as an operation until it returns.
BeginCreation(t) ==
  /\ pc[t] = "begin"
  /\ inflight' = [inflight EXCEPT ![held[t]] = @ + 1]
  /\ Proceed(t, "started")
  /\ UNCHANGED <<active, services, current, changing, begins, cliOf, auth, oauth,
                 apps, told>>

\* The CLI has printed its verification URL, or failed.  The flow is inserted
\* before the operation is over.
CreationStarted(t) ==
  /\ pc[t] = "started"
  /\ \/ \E f \in Flow :
          /\ told[f] = "new"
          /\ apps' = [apps EXCEPT ![held[t]] = @ \cup {f}]
          /\ told' = [told EXCEPT ![f] = "app"]
     \/ UNCHANGED <<apps, told>>
  /\ inflight' = [inflight EXCEPT ![held[t]] = @ - 1]
  /\ Proceed(t, "counted")
  /\ UNCHANGED <<active, services, current, changing, begins, cliOf, auth, oauth>>

\* Back in the command: the beginning is no longer counted (saturating_sub).
EndBegin(t) ==
  /\ pc[t] = "counted" /\ services = None
  /\ begins' = IF begins > 0 THEN begins - 1 ELSE 0
  /\ Return(t)
  /\ UNCHANGED <<active, services, current, changing, bundles, told>>

\* poll and cancel, under the coordinator's own lock: the CLI is not done yet,
\* or the flow leaves the map and is an operation instead.
LookForFlow(t) ==
  LET f == call[t].flow
      b == held[t]
  IN /\ pc[t] = "look"
     /\ \/ /\ f \in apps[b]
           /\ inflight' = [inflight EXCEPT ![b] = @ + 1]
           /\ apps' = [apps EXCEPT ![b] = @ \ {f}]
           /\ told' = [told EXCEPT ![f] = "over"]
           /\ Proceed(t, "final")
        \/ /\ f \in apps[b] => Op(t) = "poll"
           /\ UNCHANGED <<inflight, apps, told>>
           /\ Return(t)
     /\ UNCHANGED <<active, services, current, changing, begins, cliOf, auth, oauth>>

\* The App is imported, or the CLI is stopped.
Finalize(t) ==
  /\ pc[t] = "final"
  /\ inflight' = [inflight EXCEPT ![held[t]] = @ - 1]
  /\ Return(t)
  /\ UNCHANGED <<active, services, current, changing, begins, cliOf, auth, oauth,
                 apps, told>>

-----------------------------------------------------------------------------
(* Commands on accounts. *)

\* Most of them run with the services mutex held (switch, alias, remove).
LockServices(t) ==
  /\ pc[t] = "account" /\ services = None
  /\ services' = t
  /\ Proceed(t, "operate")
  /\ UNCHANGED <<active, current, changing, begins, bundles, told>>

\* A health check only has a handle.
Operate(t) ==
  /\ pc[t] = "operate"
  /\ services' = IF services = t THEN None ELSE services
  /\ Return(t)
  /\ UNCHANGED <<active, current, changing, begins, bundles, told>>

-----------------------------------------------------------------------------
(* install_runtime and rollback_runtime. *)

RequestChange(t) ==
  /\ pc[t] = "request" /\ services = None
  /\ IF changing
       THEN UNCHANGED services /\ Return(t)
       ELSE services' = t /\ Proceed(t, "authcount")
  /\ UNCHANGED <<active, current, changing, begins, bundles, told>>

\* The OAuth flows are counted under the coordinator's mutex: the services
\* mutex stays held while that one is waited for.
CountLogins(t) ==
  /\ pc[t] = "authcount" /\ auth[current] = None
  /\ IF oauth[current] # {}
       THEN GiveUp(t)
       ELSE UNCHANGED services /\ Proceed(t, "len")
  /\ UNCHANGED <<active, current, changing, begins, bundles, told>>

StartChange(t) ==
  /\ pc[t] = "decide" /\ Op(t) = "install"
  /\ IF begins > 0
       THEN GiveUp(t) /\ UNCHANGED changing
       ELSE services' = None /\ changing' = TRUE /\ Proceed(t, "change")
  /\ UNCHANGED <<active, current, begins, bundles, told>>

\* Mutant of ChangeRuntime: a failure returns at once.
ChangeRuntimeEarlyReturn(t) ==
  /\ pc[t] = "change"
  /\ \/ active' = call[t].cli /\ Proceed(t, "swap")
     \/ active' \in {active, call[t].cli} /\ Return(t)
  /\ UNCHANGED <<services, current, changing, begins, bundles, told>>

\* The new CLI is activated; or the change fails, before the activation or after
\* it (old versions cannot be pruned).
ChangeRuntime(t) ==
  /\ pc[t] = "change"
  /\ \/ active' = call[t].cli /\ Proceed(t, "swap")
     \/ active' \in {active, call[t].cli} /\ Proceed(t, "clear")
  /\ UNCHANGED <<services, current, changing, begins, bundles, told>>

\* A whole new bundle, with its counter and its flag.
SwapServices(t) ==
  /\ pc[t] = "swap" /\ services = None /\ current < MaxBundle
  /\ current' = current + 1
  /\ cliOf' = [cliOf EXCEPT ![current + 1] = call[t].cli]
  /\ begins' = 0
  /\ changing' = FALSE
  /\ Return(t)
  /\ UNCHANGED <<active, services, auth, oauth, apps, inflight, told>>

ClearChange(t) ==
  /\ pc[t] = "clear" /\ services = None
  /\ changing' = FALSE
  /\ Return(t)
  /\ UNCHANGED <<active, services, current, begins, bundles, told>>

-----------------------------------------------------------------------------
Work(t) ==
  \/ ReadActive(t) \/ Follow(t) \/ CountFlows(t) \/ CountOperations(t)
  \/ SwapToActive(t) \/ Clone(t) \/ SkipWatch(t)
  \/ LockAuth(t) \/ BeginLogin(t) \/ EndLogin(t)
  \/ BeginCreation(t) \/ CreationStarted(t) \/ EndBegin(t)
  \/ LookForFlow(t) \/ Finalize(t)
  \/ LockServices(t) \/ Operate(t)
  \/ RequestChange(t) \/ CountLogins(t) \/ StartChange(t)
  \/ ChangeRuntime(t) \/ SwapServices(t) \/ ClearChange(t)

Next ==
  \/ \E t \in Thread : Work(t) \/ \E c \in Command : Call(t, c)
  \/ \E c \in Cli : Activate(c)

Spec == Init /\ [][Next]_vars

\* Every thread is scheduled, every CLI run a command waits for is bounded by a
\* timeout.  What the user calls, and when, is not assumed.
FairSpec == Spec /\ \A t \in Thread : WF_vars(Work(t))

-----------------------------------------------------------------------------
(* Properties. *)

\* An App-creation flow the user was told of stays within reach until it is
\* over, whatever runtime change or switch happens meanwhile: the coordinator
\* that has it is the current one (follow_active_runtime, begin_runtime_change).
AppFlowsKept == \A f \in Flow : told[f] = "app" => f \in apps[current]

\* What is imported at the end of a flow goes through the services that are
\* current: no bundle is replaced while an operation is in flight on it.
OperationsOnCurrent ==
  \A t \in Thread : pc[t] \in {"begin", "started", "final"} => held[t] = current

\* While the runtime is being changed, one thread is changing it.
ChangeOwned ==
  changing <=> \E t \in Thread : pc[t] \in {"change", "swap", "clear"}

\* For those who create Apps the services are a cell that is replaced in an instant,
\* while nothing in it is in use: although a replacement reads the flows, the operations
\* and the beginnings one after the other, and an installation gives the mutex back
\* before it replaces anything (follow_active_runtime, begin_runtime_change).
Given == {f \in Flow : told[f] = "app"}
Working == {t \in Thread : held[t] = current /\ pc[t] \in {"begin", "started", "final"}}

Cell == INSTANCE ServicesCell WITH
  generation <- current, given <- Given, working <- Working

ImplementsCell == Cell!Spec

\* Every command returns: the two mutexes are taken in one order, and every
\* early return drops them.
CallsReturn == \A t \in Thread : pc[t] # "idle" ~> pc[t] = "idle"

\* "An active OAuth or App creation flow keeps its CLI" (main.rs): an OAuth flow
\* the user was told of is in the current coordinator until it is over.
LoginsKept == \A f \in Flow : told[f] = "oauth" => f \in oauth[current]
-----------------------------------------------------------------------------
(* The inductive invariant. *)

\* A command is at a step of its own, with what it needs there.
JobAtStep ==
  \A t \in Thread :
    /\ pc[t] # "idle" => call[t] \in Command
    /\ pc[t] \in {"read", "follow", "clone"} => Op(t) \notin {"account", "install"}
    /\ pc[t] \in {"len", "infl", "decide"} => Op(t) # "account"
    /\ pc[t] = "account" => Op(t) = "account"
    /\ pc[t] \in {"request", "authcount", "change", "swap", "clear"} => Op(t) = "install"
    /\ pc[t] = "operate" => Op(t) # "install"
    /\ pc[t] \in {"auth", "work", "look"} => held[t] \in Bundle

\* Whoever is between taking the services mutex and dropping it holds it.
Holds(t) ==
  \/ pc[t] \in {"authcount", "len", "infl", "decide"}
  \/ pc[t] = "operate" /\ Op(t) = "account"

ServicesHeld == \A t \in Thread : services = t <=> Holds(t)

\* The two counters count the creations that are being begun, and the operations
\* of each bundle.
Beginning == {t \in Thread : pc[t] \in {"begin", "started", "counted"}}
Operating(b) == {t \in Thread : held[t] = b /\ pc[t] \in {"started", "final"}}

BeginsCounted == begins = Cardinality(Beginning)
OperationsCounted == \A b \in Bundle : inflight[b] = Cardinality(Operating(b))

\* Bundles that are not current, replaced ones and those to come, keep no App flow.
OthersEmpty == \A b \in Bundle : b # current => apps[b] = {}

\* The App-creation coordinator that is current keeps nothing and does nothing.
AtRest == apps[current] = {} /\ inflight[current] = 0

\* What a thread that holds the services has counted is still so when it decides,
\* unless a creation is being begun: only an installation lets that pass so far,
\* because it looks in the end.
CountsLast ==
  \A t \in Thread :
    /\ pc[t] \in {"len", "infl", "decide"} /\ Op(t) # "install" => begins = 0
    /\ pc[t] = "infl" /\ begins = 0 /\ count[t] = 0 => apps[current] = {}
    /\ pc[t] = "decide" /\ begins = 0 => AtRest

\* One thread at a time changes the runtime; meanwhile nothing begins, and nobody
\* else is about to replace the services.
Changing(t) == pc[t] \in {"change", "swap", "clear"}

ChangeAlone ==
  /\ \A t, u \in Thread : Changing(t) /\ Changing(u) => t = u
  /\ changing => /\ begins = 0 /\ AtRest
                 /\ \A t \in Thread : pc[t] \notin {"authcount", "len", "infl", "decide"}

IInv ==
  /\ TypeOK /\ JobAtStep /\ ServicesHeld /\ BeginsCounted /\ OperationsCounted
  /\ OthersEmpty /\ CountsLast /\ ChangeAlone /\ ChangeOwned
  /\ OperationsOnCurrent /\ AppFlowsKept

\* A flow is in the coordinator of its kind as long as it is not over, and in one only:
\* the step from IInv to the cell needs that the end of a login is no end of a creation.
FlowsTold ==
  \A b \in Bundle, f \in Flow :
    /\ f \in apps[b] => told[f] = "app"
    /\ f \in oauth[b] => told[f] = "oauth" /\ \A d \in Bundle : f \in oauth[d] => d = b
=============================================================================
