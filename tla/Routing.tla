------------------------------- MODULE Routing -------------------------------
(***************************************************************************)
(* The shared data root of larkswitch and the processes that work on it.   *)
(*                                                                         *)
(* Every `lark-cli' call (the shim), every `lpcctl' command and the desktop*)
(* application run as independent OS processes over the same files:        *)
(*   catalog.json       - the accounts and the apps          (cat)         *)
(*   active-state.json  - the route every new command takes  (st)          *)
(*   accounts/, apps/   - one configuration directory each   (dirs)        *)
(*   locks/executions/  - one lease file per running command (leases)      *)
(* An OS advisory lock on locks/routing.lock (the routing gate) serialises *)
(* what they do, except for the steps the code runs outside of it: a lease *)
(* is released without the gate, and a health check reads the catalog and  *)
(* runs the official CLI before it takes the gate.                         *)
(*                                                                         *)
(* A process performs one job and exits.  A process may crash at any step: *)
(* the OS then frees the gate, and the files stay as the last completed    *)
(* write left them (every catalog and state write is an atomic rename).    *)
(* A process identifier may be used again by a later process.              *)
(***************************************************************************)
EXTENDS Naturals, FiniteSets

CONSTANTS
  Proc,      \* the process identifiers
  Account,   \* the account ids (fresh UUIDs: an id is issued once)
  App,       \* the app ids
  Cli,       \* the paths of the official CLI binaries that can be activated
  AppOf,     \* the app an account belongs to
  UserOf,    \* the open_id an account stands for
  Managed,   \* the accounts with managed credentials (logged out on removal)
  Ops,       \* the kinds of job that processes start
  GenMax,    \* the value at which the route generation saturates (u64::MAX)
  MaxStarts, \* bound: how many processes one identifier stands for in turn
  None

AllOps == {"exec", "switch", "activate", "remove", "register", "addApp",
           "removeApp", "edit", "health", "count"}

VARIABLES
  gate,    \* the process that holds the routing gate, or None
  cat,     \* catalog.json
  st,      \* active-state.json
  dirs,    \* the configuration directories on disk, by account or app id
  leases,  \* the lease files
  issued,  \* the account ids handed out so far
  cut,     \* the accounts whose removal died between its two files
  pc,      \* where each process is in its job
  job,     \* what it was started for, or None
  copy,    \* its copy of catalog.json, once loaded, or None
  was,     \* its copy of active-state.json, once loaded, or None
  route,   \* the route its command captured, or None
  started, \* the start time it recorded for itself: 0 when it could not tell
  inc      \* how many processes the identifier has stood for

store == <<cat, st, dirs, leases>>
memory == <<job, copy, was, route, started>>
vars == <<gate, cat, st, dirs, leases, issued, cut, pc, job, copy, was, route,
          started, inc>>

Catalog == [accounts: SUBSET Account, apps: SUBSET App]
ActiveState == [active: Account \cup {None}, cli: Cli \cup {None}, gen: 0..GenMax]
Lease == [pid: Proc, inc: 1..MaxStarts, started: 0..MaxStarts, account: Account]
Route == [account: Account, cli: Cli, gen: 0..GenMax]

ASSUME RoutingAssumption ==
  /\ AppOf \in [Account -> App]
  /\ Managed \subseteq Account
  /\ Ops \subseteq AllOps
  /\ GenMax \in Nat
  /\ MaxStarts \in Nat
  /\ None \notin Proc \cup Account \cup App \cup Cli \cup Route
  /\ Account \cap App = {}

\* What a process is started for.  A command's argument is its account override.
Job == [op: {"exec"}, arg: Account \cup {None}]
       \cup [op: {"switch", "remove", "register", "health"}, arg: Account]
       \cup [op: {"addApp", "removeApp"}, arg: App]
       \cup [op: {"activate"}, arg: Cli]
       \cup [op: {"edit", "count"}, arg: {None}]

\* The steps a process takes while it holds the gate.
GatedSteps == {"locked", "lease", "idle", "load", "logout", "mkdir", "savecat",
               "rmdir", "loadst", "savest"}
Steps == GatedSteps \cup {"off", "probe", "cli", "lock", "run"}

TypeOK ==
  /\ gate \in Proc \cup {None}
  /\ cat \in Catalog
  /\ st \in ActiveState
  /\ dirs \subseteq Account \cup App
  /\ leases \subseteq Lease
  /\ issued \subseteq Account
  /\ cut \subseteq Account
  /\ pc \in [Proc -> Steps]
  /\ job \in [Proc -> Job \cup {None}]
  /\ copy \in [Proc -> Catalog \cup {None}]
  /\ was \in [Proc -> ActiveState \cup {None}]
  /\ route \in [Proc -> Route \cup {None}]
  /\ started \in [Proc -> 0..MaxStarts]
  /\ inc \in [Proc -> 0..MaxStarts]

-----------------------------------------------------------------------------
Op(p) == job[p].op
Arg(p) == job[p].arg
Alive(p) == pc[p] # "off"

\* saturating_add(1) on the route generation.
NextGen(g) == IF g < GenMax THEN g + 1 ELSE GenMax

Goto(p, step) == pc' = [pc EXCEPT ![p] = step]

\* The process is over: its memory is gone and its open files are closed, the
\* gate's among them.
Exit(p) ==
  /\ Goto(p, "off")
  /\ job' = [job EXCEPT ![p] = None]
  /\ copy' = [copy EXCEPT ![p] = None]
  /\ was' = [was EXCEPT ![p] = None]
  /\ route' = [route EXCEPT ![p] = None]
  /\ started' = [started EXCEPT ![p] = 0]
  /\ gate' = IF gate = p THEN None ELSE gate

\* The job goes on to its next step, with what it remembers.
Proceed(p, step) == Goto(p, step) /\ UNCHANGED <<gate, memory>>

\* Mutant of Orphan: an unknown start time counts as another one.
OrphanIfUnknown(l) == ~Alive(l.pid) \/ l.started # inc[l.pid]

\* What a lease says of its process when another one looks: it is an orphan
\* when no process has its pid, or when the process that has it started at
\* another time.  A lease without a start time is kept as long as the pid lives.
\* (A lease file that cannot be read is an orphan too: it is taken for one that a
\* crash has left, as leases are written and read under the gate.  Here every one
\* can be read.)
Orphan(l) ==
  \/ ~Alive(l.pid)
  \/ l.started # 0 /\ l.started # inc[l.pid]

OwnLease(p) ==
  [pid |-> p, inc |-> inc[p], started |-> started[p], account |-> route[p].account]

\* Mutant of HasDuplicate: the ids are compared, not the users.
HasSameId(c, a) == a \in c.accounts

HasDuplicate(c, a) ==
  \E b \in c.accounts : AppOf[b] = AppOf[a] /\ UserOf[b] = UserOf[a]

\* The route a new command would take: the account its override names, else
\* the active one.
Wanted(p) == IF Arg(p) # None THEN Arg(p) ELSE st.active

-----------------------------------------------------------------------------
\* A store that earlier processes left behind, nobody running.
Init ==
  /\ gate = None
  /\ cat \in {c \in Catalog : /\ \A a \in c.accounts : AppOf[a] \in c.apps
                              /\ \A a, b \in c.accounts :
                                   AppOf[a] = AppOf[b] /\ UserOf[a] = UserOf[b] => a = b}
  /\ st \in {s \in ActiveState : s.active \in cat.accounts \cup {None}}
  /\ dirs = cat.accounts \cup cat.apps
  /\ leases = {}
  /\ issued = cat.accounts
  /\ cut = {}
  /\ pc = [p \in Proc |-> "off"]
  /\ job = [p \in Proc |-> None]
  /\ copy = [p \in Proc |-> None]
  /\ was = [p \in Proc |-> None]
  /\ route = [p \in Proc |-> None]
  /\ started = [p \in Proc |-> 0]
  /\ inc = [p \in Proc |-> 0]

\* A process starts.  A command reads its own start time here, before it waits
\* for the gate; the reading may fail (0).  A registration has already run the
\* official CLI (whoami, status) against its staging directory.
Start(p, j) ==
  /\ pc[p] = "off" /\ inc[p] < MaxStarts
  /\ j.op \in Ops
  /\ j.op = "register" => j.arg \notin issued
  /\ issued' = IF j.op = "register" THEN issued \cup {j.arg} ELSE issued
  /\ inc' = [inc EXCEPT ![p] = @ + 1]
  /\ job' = [job EXCEPT ![p] = j]
  /\ \E time \in IF j.op = "exec" THEN {0, inc[p] + 1} ELSE {0} :
       started' = [started EXCEPT ![p] = time]
  /\ Goto(p, IF j.op = "health" THEN "probe" ELSE "lock")
  /\ UNCHANGED <<gate, store, cut, copy, was, route>>

\* Mutant of Lock: a shared lock.
LockShared(p) ==
  /\ pc[p] = "lock"
  /\ gate' = p
  /\ Goto(p, "locked")
  /\ UNCHANGED <<store, issued, cut, memory, inc>>

Lock(p) ==
  /\ pc[p] = "lock" /\ gate = None
  /\ gate' = p
  /\ Goto(p, "locked")
  /\ UNCHANGED <<store, issued, cut, memory, inc>>

\* The 30 s bound on waiting for the gate.  Local file writes take milliseconds,
\* so only a holder that waits for another process can outlast it: the official
\* CLI's logout is allowed 5 s for the keychain lock and 60 s to run.
SlowSteps == {"logout"}
LockTimeout(p) ==
  /\ pc[p] = "lock" /\ gate # None /\ pc[gate] \in SlowSteps
  /\ Exit(p)
  /\ UNCHANGED <<store, issued, cut, inc>>

-----------------------------------------------------------------------------
(* A command of the shim. *)

\* Both files are read under the gate; a command with no usable route fails.
\* The binary may be missing on disk (RuntimeMissing).
Snapshot(p) ==
  /\ pc[p] = "locked" /\ Op(p) = "exec"
  /\ \/ /\ Wanted(p) \in cat.accounts /\ AppOf[Wanted(p)] \in cat.apps
        /\ st.cli # None
        /\ route' = [route EXCEPT ![p] =
                       [account |-> Wanted(p), cli |-> st.cli, gen |-> st.gen]]
        /\ Goto(p, "lease")
        /\ UNCHANGED <<gate, job, copy, was, started>>
     \/ Exit(p)
  /\ UNCHANGED <<store, issued, cut, inc>>

\* The lease is written before the gate is dropped.
WriteLease(p) ==
  /\ pc[p] = "lease"
  /\ leases' = leases \cup {OwnLease(p)}
  /\ Goto(p, "run")
  /\ gate' = None
  /\ UNCHANGED <<cat, st, dirs, issued, cut, memory, inc>>

\* The command is over (or never got the keychain lock): its lease goes,
\* without the gate.
Finish(p) ==
  /\ pc[p] = "run"
  /\ leases' = leases \ {OwnLease(p)}
  /\ Exit(p)
  /\ UNCHANGED <<cat, st, dirs, issued, cut, inc>>

-----------------------------------------------------------------------------
(* The control plane. *)

\* The steps that follow the cleanup of orphaned leases.
Cleanup(p) ==
  /\ pc[p] = "locked" /\ Op(p) \in {"switch", "remove", "count"}
  /\ leases' = {l \in leases : ~Orphan(l)}
  /\ CASE Op(p) = "switch" -> Proceed(p, "load")
       [] Op(p) = "remove" -> Proceed(p, "idle")
       [] OTHER -> Exit(p)
  /\ UNCHANGED <<cat, st, dirs, issued, cut, inc>>

\* Mutant of CheckIdle: the early return forgets the gate.
CheckIdleKeepingGate(p) ==
  /\ pc[p] = "idle"
  /\ IF \E l \in leases : l.account = Arg(p)
       THEN Goto(p, "off") /\ UNCHANGED <<gate, memory>>
       ELSE Proceed(p, "load")
  /\ UNCHANGED <<store, issued, cut, inc>>

\* An account with a lease is busy: the gate is dropped, nothing is removed.
CheckIdle(p) ==
  /\ pc[p] = "idle"
  /\ IF \E l \in leases : l.account = Arg(p)
       THEN Exit(p)
       ELSE Proceed(p, "load")
  /\ UNCHANGED <<store, issued, cut, inc>>

\* Mutant of Admissible: an app is removed whatever accounts it has.
AdmissibleUnchecked(p, c) ==
  CASE Op(p) \in {"switch", "remove", "health"} -> Arg(p) \in c.accounts
    [] Op(p) = "register" -> AppOf[Arg(p)] \in c.apps /\ ~HasDuplicate(c, Arg(p))
    [] Op(p) = "removeApp" -> Arg(p) \in c.apps
    [] OTHER -> TRUE

\* May the job go on, given the catalog it has just loaded?
Admissible(p, c) ==
  CASE Op(p) \in {"switch", "remove", "health"} -> Arg(p) \in c.accounts
    [] Op(p) = "register" -> AppOf[Arg(p)] \in c.apps /\ ~HasDuplicate(c, Arg(p))
    [] Op(p) = "removeApp" -> /\ Arg(p) \in c.apps
                              /\ \A a \in c.accounts : AppOf[a] # Arg(p)
    [] OTHER -> TRUE

\* Mutant of AfterLoad: a registration writes the catalog first.
AfterLoadCatalogFirst(p) ==
  CASE Op(p) = "switch" -> "loadst"
    [] Op(p) = "remove" /\ Arg(p) \in Managed -> "logout"
    [] Op(p) = "addApp" -> "mkdir"
    [] OTHER -> "savecat"

AfterLoad(p) ==
  CASE Op(p) = "switch" -> "loadst"
    [] Op(p) = "remove" -> IF Arg(p) \in Managed THEN "logout" ELSE "savecat"
    [] Op(p) \in {"register", "addApp"} -> "mkdir"
    [] OTHER -> "savecat"

LoadCatalog(p) ==
  /\ \/ pc[p] = "load"
     \/ pc[p] = "locked" /\ Op(p) \in {"register", "addApp", "removeApp", "edit", "health"}
  /\ IF Admissible(p, cat)
       THEN /\ copy' = [copy EXCEPT ![p] = cat]
            /\ Goto(p, AfterLoad(p))
            /\ UNCHANGED <<gate, job, was, route, started>>
       ELSE Exit(p)
  /\ UNCHANGED <<store, issued, cut, inc>>

\* The official CLI logs the account out, whatever its outcome, while the
\* remover keeps the gate.  Running the CLI creates the directory if need be.
Logout(p) ==
  /\ pc[p] = "logout"
  /\ dirs' = dirs \cup {Arg(p)}
  /\ Proceed(p, "savecat")
  /\ UNCHANGED <<cat, st, leases, issued, cut, inc>>

\* The configuration of a new account or app is on disk before the catalog
\* names it.
MakeDir(p) ==
  /\ pc[p] = "mkdir"
  /\ dirs' = dirs \cup {Arg(p)}
  /\ Proceed(p, "savecat")
  /\ UNCHANGED <<cat, st, leases, issued, cut, inc>>

\* The catalog a job writes: the copy it loaded, with its own change.
Edited(p) ==
  LET c == copy[p]
  IN [accounts |-> CASE Op(p) = "remove" -> c.accounts \ {Arg(p)}
                     [] Op(p) = "register" -> c.accounts \cup {Arg(p)}
                     [] OTHER -> c.accounts,
      apps |-> CASE Op(p) = "addApp" -> c.apps \cup {Arg(p)}
                 [] Op(p) = "removeApp" -> c.apps \ {Arg(p)}
                 [] OTHER -> c.apps]

SaveCatalog(p) ==
  /\ pc[p] = "savecat"
  /\ cat' = Edited(p)
  /\ CASE Op(p) \in {"remove", "removeApp"} -> Proceed(p, "rmdir")
       [] Op(p) = "register" -> Proceed(p, "loadst")
       [] OTHER -> Exit(p)
  /\ UNCHANGED <<st, dirs, leases, issued, cut, inc>>

\* A failure to delete the directory is ignored.
RemoveDir(p) ==
  /\ pc[p] = "rmdir"
  /\ dirs' \in {dirs, dirs \ {Arg(p)}}
  /\ IF Op(p) = "remove" THEN Proceed(p, "loadst") ELSE Exit(p)
  /\ UNCHANGED <<cat, st, leases, issued, cut, inc>>

\* Mutant of MovesRoute: a removal leaves the route alone.
MovesRouteNotOnRemoval(p, s) ==
  CASE Op(p) = "remove" -> FALSE
    [] Op(p) = "register" -> s.active = None
    [] OTHER -> TRUE

\* Does the job move the route, given the state it has just loaded?
MovesRoute(p, s) ==
  CASE Op(p) = "remove" -> s.active = Arg(p)
    [] Op(p) = "register" -> s.active = None
    [] OTHER -> TRUE

LoadState(p) ==
  /\ \/ pc[p] = "loadst"
     \/ pc[p] = "locked" /\ Op(p) = "activate"
  /\ IF MovesRoute(p, st)
       THEN /\ was' = [was EXCEPT ![p] = st]
            /\ Goto(p, "savest")
            /\ UNCHANGED <<gate, job, copy, route, started>>
       ELSE Exit(p)
  /\ UNCHANGED <<store, issued, cut, inc>>

\* Mutant of Heirs: they are taken from the catalog as it was loaded.
HeirsFromCopy(p) == copy[p].accounts

\* The accounts a removal may activate instead: the first that is left in the
\* catalog (any: the catalog's order is not modelled), None when it was the last.
Heirs(p) ==
  LET left == Edited(p).accounts IN IF left = {} THEN {None} ELSE left

\* The state a job writes: the copy it loaded, with the route it moves and the
\* next generation.
MovedState(s, account, path) == [active |-> account, cli |-> path, gen |-> NextGen(s.gen)]

SaveState(p) ==
  /\ pc[p] = "savest"
  /\ LET s == was[p]
     IN \/ /\ Op(p) \in {"switch", "register"}
           /\ st' = MovedState(s, Arg(p), s.cli)
        \/ /\ Op(p) = "remove"
           /\ \E heir \in Heirs(p) : st' = MovedState(s, heir, s.cli)
        \/ /\ Op(p) = "activate"
           /\ st' = MovedState(s, s.active, Arg(p))
  /\ Exit(p)
  /\ UNCHANGED <<cat, dirs, leases, issued, cut, inc>>

-----------------------------------------------------------------------------
(* The health check of an account, up to the point where it takes the gate. *)

\* The catalog is read without the gate.
Probe(p) ==
  /\ pc[p] = "probe"
  /\ IF Arg(p) \in cat.accounts THEN Proceed(p, "cli") ELSE Exit(p)
  /\ UNCHANGED <<store, issued, cut, inc>>

\* The official CLI runs in the directory read from the catalog, created if it
\* is missing.  An inconclusive check (busy keychain, timeout) changes nothing.
RunCli(p) ==
  /\ pc[p] = "cli"
  /\ dirs' = dirs \cup {Arg(p)}
  /\ \/ Proceed(p, "lock")
     \/ Exit(p)
  /\ UNCHANGED <<cat, st, leases, issued, cut, inc>>

-----------------------------------------------------------------------------
\* A removal that has written the catalog and not yet the state.
HalfRemoved(p) == pc[p] \in {"rmdir", "loadst", "savest"} /\ Op(p) = "remove"

Crash(p) ==
  /\ Alive(p)
  /\ cut' = IF HalfRemoved(p) THEN cut \cup {Arg(p)} ELSE cut
  /\ Exit(p)
  /\ UNCHANGED <<store, issued, inc>>

\* The steps of a running job that do not depend on its user.
Work(p) ==
  \/ Lock(p)
  \/ Snapshot(p) \/ WriteLease(p)
  \/ Cleanup(p) \/ CheckIdle(p)
  \/ LoadCatalog(p) \/ Logout(p) \/ MakeDir(p) \/ SaveCatalog(p) \/ RemoveDir(p)
  \/ LoadState(p) \/ SaveState(p)
  \/ Probe(p) \/ RunCli(p)

Next ==
  \E p \in Proc :
    \/ \E j \in Job : Start(p, j)
    \/ Work(p)
    \/ LockTimeout(p)
    \/ Finish(p)
    \/ Crash(p)

Spec == Init /\ [][Next]_vars

\* The OS schedules every process, local file I/O returns, and the code bounds
\* every CLI run it waits for.  How long a user's command runs, whether a
\* process starts or crashes: nothing is assumed.
Fairness == \A p \in Proc : WF_vars(Work(p))
FairSpec == Spec /\ Fairness

-----------------------------------------------------------------------------
(* The register this implements. *)

\* A registration that has written the catalog and not yet looked at the state.
HalfRegistered(p) == pc[p] \in {"loadst", "savest"} /\ Op(p) = "register"

\* The accounts as the last completed operation left them: an operation that
\* spans the two files counts once it is over, or dead.
SettledAccounts ==
  {a \in Account :
     \/ a \in cat.accounts /\ ~ \E p \in Proc : HalfRegistered(p) /\ Arg(p) = a
     \/ \E p \in Proc : HalfRemoved(p) /\ Arg(p) = a}

Register == INSTANCE RouteRegister WITH
  accounts <- SettledAccounts,
  active <- st.active,
  cli <- st.cli,
  gen <- st.gen,
  running <- route

-----------------------------------------------------------------------------
(* Properties. *)

\* The shared files behave as an atomic register of accounts and route: each
\* operation takes effect at one instant, whatever runs beside it and wherever
\* processes die; a command keeps the route it read (RouteRegister).
ImplementsRegister == Register!Spec

\* A running command keeps what it was routed to: until its shim ends, its
\* account stays in the catalog, its app too, and the account's configuration
\* directory stays on disk, whatever is removed meanwhile (lock_account_idle,
\* PRODUCT.md "Refuse while that account has active leases").
CommandKeepsAccount ==
  \A p \in Proc : pc[p] \in {"lease", "run"} =>
    LET a == route[p].account
    IN a \in cat.accounts /\ a \in dirs /\ AppOf[a] \in cat.apps

\* The catalog never names what is not on disk, at whichever step a process
\* dies: a registration writes the directory first, a removal deletes it last.
CatalogBacked == cat.accounts \cup cat.apps \subseteq dirs

\* Every account has its app (else no command of that account can be routed and
\* StateStore::snapshot fails for the whole control plane).
AppsPresent == \A a \in cat.accounts : AppOf[a] \in cat.apps

\* One user of one app is registered once, however many logins race.
NoDuplicateUsers ==
  \A a, b \in cat.accounts : AppOf[a] = AppOf[b] /\ UserOf[a] = UserOf[b] => a = b

\* Whenever the gate is free the active account is in the catalog, unless the
\* process that removed it died between catalog.json and active-state.json.
ActiveKnown == gate = None => st.active \in cat.accounts \cup {None} \cup cut

\* Two processes are never at a step of the critical section at once, and the
\* one that is holds the gate.
GateExclusive == \A p \in Proc : (pc[p] \in GatedSteps) <=> (gate = p)

\* Every change of the route moves its generation up (until it saturates), and
\* nothing moves it down: a command's generation tells which route it ran under.
RouteChangesStamped ==
  [][ \/ st'.gen > st.gen
      \/ st'.gen = st.gen /\ st.gen = GenMax ]_st

\* Accounts leave the catalog only through a removal of that very account, one
\* at a time: no writer clobbers the catalog with a copy that predates another
\* one's account.
NoLostAccounts ==
  [][ \A a \in cat.accounts \ cat'.accounts :
        \E p \in Proc : gate = p /\ job[p] = [op |-> "remove", arg |-> a] ]_cat

\* Every job comes to an end, or to its user's command, whoever crashes beside
\* it: no path through a job leaves the gate taken.
JobsEnd == \A p \in Proc : Alive(p) ~> pc[p] \in {"off", "run"}
=============================================================================
