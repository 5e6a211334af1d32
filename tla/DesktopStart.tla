---------------------------- MODULE DesktopStart ----------------------------
(***************************************************************************)
(* How the desktop comes to run, once (desktop/src-tauri/src/main.rs and   *)
(* startup.rs, lpc-core/src/autostart.rs), and how it keeps lark-cli       *)
(* leading to the managed shim (repair_managed_route, path_takeover.rs,    *)
(* shim.rs) beside lpcctl path.  Opening the store is module FirstStart's: *)
(* the desktop is one of its processes, Desktop, lpcctl's are the others.  *)
(*                                                                         *)
(* A normal launch (a click, or hidden: the autostart) leaves as soon as   *)
(* it sees a desktop; if not it runs one of the two tasks of the Task      *)
(* Scheduler, which start the program again as a host.  A host takes the   *)
(* lock desktop-instance for its lifetime.  Everybody looks for a desktop  *)
(* by taking that lock for a moment, and so may be taken for one.          *)
(***************************************************************************)
EXTENDS FirstStart

CONSTANTS
  Desktop,   \* the desktop as a process that opens the store
  MaxLaunch, \* bound: normal launches
  MaxEvents  \* bound: what goes wrong, ends, or is changed by others

Normal == {"click", "logon"}    \* the normal launches, visible and hidden
Host == {"visible", "hidden"}   \* the hosts that the two tasks start
Launched == Normal \cup Host
Shows(l) == l \in {"click", "visible"} \* without --hidden

ASSUME DesktopStartAssumption ==
  /\ Desktop \in Proc /\ None \notin Launched
  /\ MaxLaunch \in Nat /\ MaxEvents \in Nat

VARIABLES
  stage,    \* where a launch is
  instance, \* who holds the lock desktop-instance, or None
  request,  \* desktop-activation.json is less than 60 s old and not yet answered
  path,     \* where the managed directory is in the user's Path
  home,     \* the data root that the user's LPC_HOME names
  shim,     \* whatever is called lark-cli in the npm directory is the managed shim
  enabled,  \* path_takeover_enabled in the catalog
  fix,      \* how far a process is with putting the route in order or removing it
  remove,   \* whether it removes it
  launches, \* normal launches so far
  events,   \* events so far
  wanted,   \* history: somebody has clicked to see the window, and has not seen it
  lost      \* history: something has gone wrong, ended or grown old since the click

store == <<vars>>
launch == <<stage, instance, request>>
route == <<path, home, shim, enabled>>
fixing == <<fix, remove>>
bounds == <<launches, events>>
history == <<wanted, lost>>
all == <<store, launch, route, fixing, bounds, history>>

LaunchTypeOK ==
  /\ stage \in [Launched -> {"off", "look", "looked", "go", "store", "up"}]
  /\ instance \in Launched \cup {None}

FixTypeOK == fix \in [Proc -> {"idle", "shim", "enabled", "path", "home"}]

StartTypeOK ==
  /\ LaunchTypeOK /\ FixTypeOK
  /\ request \in BOOLEAN
  /\ path \in {"first", "later", "absent"}
  /\ home \in {"this", "other", "unset"}
  /\ shim \in BOOLEAN /\ enabled \in BOOLEAN
  /\ remove \in [Proc -> BOOLEAN]
  /\ launches \in 0..MaxLaunch /\ events \in 0..MaxEvents
  /\ wanted \in BOOLEAN /\ lost \in BOOLEAN

StartInit ==
  /\ Init
  /\ stage = [l \in Launched |-> "off"]
  /\ instance = None /\ request = FALSE
  /\ path = "absent" /\ home = "unset" /\ shim = FALSE /\ enabled = FALSE
  /\ fix = [p \in Proc |-> "idle"] /\ remove = [p \in Proc |-> FALSE]
  /\ launches = 0 /\ events = 0
  /\ wanted = FALSE /\ lost = FALSE

Event == events < MaxEvents /\ events' = events + 1
To(l, step) == stage' = [stage EXCEPT ![l] = step]
At(step) == {h \in Host : stage[h] = step}

-----------------------------------------------------------------------------
(* Launches. *)

Launch(n) ==
  /\ stage[n] = "off" /\ launches < MaxLaunch
  /\ launches' = launches + 1
  /\ To(n, "look")
  /\ wanted' = (wanted \/ Shows(n)) /\ lost' = (lost /\ ~Shows(n))
  /\ UNCHANGED <<store, instance, request, route, fixing, events>>

\* Mutant of GiveWay: nobody is asked to show the window.
GiveWaySilently(l) == To(l, "off") /\ UNCHANGED request

\* It leaves to another one, and asks that one to show the window unless it is
\* hidden itself: request_activation.
GiveWay(l) == To(l, "off") /\ request' = (request \/ Shows(l))

\* activate_if_running: somebody has the lock, for its lifetime or for a look ...
LookBusy(l) ==
  /\ stage[l] = "look" /\ instance # None
  /\ GiveWay(l)
  /\ UNCHANGED <<store, instance, route, fixing, bounds, history>>

\* ... or nobody has: it is taken ...
LookFree(l) ==
  /\ stage[l] = "look" /\ instance = None
  /\ instance' = l
  /\ To(l, "looked")
  /\ UNCHANGED <<store, request, route, fixing, bounds, history>>

\* Mutant of Dropped: a launch keeps the lock, to have it already.
DroppedNever(l) == l

Dropped(l) == None

\* ... and dropped.
Looked(l) ==
  /\ stage[l] = "looked"
  /\ instance' = Dropped(l)
  /\ To(l, "go")
  /\ UNCHANGED <<store, request, route, fixing, bounds, history>>

\* run_host_bootstrap_task, run_visible_host_bootstrap_task: the task starts a
\* host, or nothing if the host it has started is still there (IgnoreNew).
RunTask(n) ==
  /\ n \in Normal /\ stage[n] = "go"
  /\ LET h == IF Shows(n) THEN "visible" ELSE "hidden" IN
     stage' = [stage EXCEPT ![n] = "off", ![h] = IF @ = "off" THEN "look" ELSE @]
  /\ UNCHANGED <<store, instance, request, route, fixing, bounds, history>>

\* The desktop is gone, and with it its locks.
Down(l) ==
  /\ To(l, "off")
  /\ instance' = IF instance = l THEN None ELSE instance
  /\ lost' = TRUE

\* check_data_root_consistency: the data root that LPC_HOME names is another one.
Refuse(h) ==
  /\ h \in Host /\ stage[h] = "go" /\ home = "other"
  /\ Down(h)
  /\ UNCHANGED <<store, request, route, fixing, bounds, wanted>>

\* The lock is not to be had.
LockBusy(h) ==
  /\ h \in Host /\ stage[h] = "go" /\ home # "other" /\ instance # None
  /\ GiveWay(h)
  /\ UNCHANGED <<store, instance, route, fixing, bounds, history>>

\* The window is built, the keychain view verified; the store is opened next.
Lock(h) ==
  /\ h \in Host /\ stage[h] = "go" /\ home # "other" /\ instance = None
  /\ instance' = h
  /\ To(h, "store")
  /\ UNCHANGED <<store, request, route, fixing, bounds, history>>

\* The setup is over; a window that is wanted is shown.
Up(h) ==
  /\ h \in At("store") /\ pc[Desktop] = "ready"
  /\ To(h, "up")
  /\ wanted' = (wanted /\ ~Shows(h))
  /\ UNCHANGED <<store, instance, request, route, fixing, bounds, lost>>

\* listen_for_activation
Answer(h) ==
  /\ h \in At("up") /\ request
  /\ request' = FALSE
  /\ wanted' = FALSE
  /\ UNCHANGED <<store, stage, instance, route, fixing, bounds, lost>>

\* The 60 s pass without an answer.
Age ==
  /\ Event /\ request
  /\ request' = FALSE /\ lost' = TRUE
  /\ UNCHANGED <<store, stage, instance, route, fixing, launches, wanted>>

\* A task cannot be registered or run; a host finds no WebView, another registry
\* or no store; the desktop quits or is killed.
Fail(l) ==
  /\ Event /\ stage[l] # "off"
  /\ Down(l)
  /\ IF stage[l] \in {"store", "up"}
       THEN /\ pc' = [pc EXCEPT ![Desktop] = "start"]
            /\ copy' = [copy EXCEPT ![Desktop] = Missing]
            /\ gate' = IF gate = Desktop THEN None ELSE gate
            /\ fix' = [fix EXCEPT ![Desktop] = "idle"]
       ELSE UNCHANGED <<pc, copy, gate, fix>>
  /\ UNCHANGED <<catalog, release, request, route, remove, launches, wanted>>

-----------------------------------------------------------------------------
(* The store. *)

Open(p) == Exists(p) \/ Create(p) \/ OpenGate(p) \/ LoadLocked(p) \/ Migrate(p)

\* A catalog that is created has takeover off.
Flag == enabled' = (enabled /\ ~Creation)

DesktopOpens ==
  /\ At("store") # {}
  /\ Open(Desktop)
  /\ Flag
  /\ UNCHANGED <<launch, path, home, shim, fixing, bounds, history>>

\* lpcctl opens the store and registers an account, or dies.
Other(p) ==
  /\ p # Desktop /\ fix[p] = "idle"
  /\ Open(p) \/ Begin(p) \/ Read(p) \/ Write(p) \/ Stop(p)
  /\ Flag
  /\ UNCHANGED <<launch, path, home, shim, fixing, bounds, history>>

-----------------------------------------------------------------------------
(* The route to the shim. *)

Fixing(p, step) == fix' = [fix EXCEPT ![p] = step]

\* repair_managed_route, at the start and every 15 minutes.
Repair ==
  /\ At("up") # {} /\ fix[Desktop] = "idle"
  /\ Fixing(Desktop, "shim")
  /\ UNCHANGED <<store, launch, route, remove, bounds, history>>

\* lpcctl path install, path repair and setup; path remove.
PathCommand(p) ==
  /\ p # Desktop /\ pc[p] = "ready" /\ fix[p] = "idle"
  /\ \/ Fixing(p, "shim") /\ UNCHANGED remove
     \/ Fixing(p, "enabled") /\ remove' = [remove EXCEPT ![p] = TRUE]
  /\ UNCHANGED <<store, launch, route, bounds, history>>

\* install_managed_shim replaces what is not the shim.
InstallShim(p) ==
  /\ fix[p] = "shim"
  /\ shim' = TRUE
  /\ Fixing(p, "enabled")
  /\ UNCHANGED <<store, launch, path, home, enabled, remove, bounds, history>>

\* set_path_takeover_enabled, under the gate.
SetEnabled(p) ==
  /\ fix[p] = "enabled" /\ gate = None
  /\ enabled' = ~remove[p]
  /\ Fixing(p, "path")
  /\ UNCHANGED <<store, launch, path, home, shim, remove, bounds, history>>

\* Mutant of Prepended: our directory stays where it is.
PrependedIfAbsent == IF path = "absent" THEN "first" ELSE path

\* prepend_path_entry moves our directory to the front.
Prepended == "first"

\* PathTakeover: first Path ...
SetPath(p) ==
  /\ fix[p] = "path"
  /\ path' = IF remove[p] THEN "absent" ELSE Prepended
  /\ Fixing(p, "home")
  /\ UNCHANGED <<store, launch, home, shim, enabled, remove, bounds, history>>

\* ... then LPC_HOME, which is removed only if it names this data root.
SetHome(p) ==
  /\ fix[p] = "home"
  /\ home' = IF ~remove[p] THEN "this" ELSE IF home = "this" THEN "unset" ELSE home
  /\ Fixing(p, "idle")
  /\ IF p = Desktop THEN UNCHANGED pc ELSE Goto(p, "off")
  /\ UNCHANGED <<catalog, gate, copy, release, launch, path, shim, enabled, remove,
                 bounds, history>>

\* A step fails (lark-cli.exe is in use, the gate busy for 30 s, the registry
\* closed) and the rest is left for the next time; or lpcctl dies.
FixFails(p) ==
  /\ Event /\ fix[p] # "idle"
  /\ Fixing(p, "idle")
  /\ IF p = Desktop THEN UNCHANGED pc ELSE Goto(p, "off")
  /\ UNCHANGED <<catalog, gate, copy, release, launch, route, remove, launches, history>>

\* npm installs lark-cli, another installer or the user edits the environment.
Change ==
  /\ Event
  /\ \/ shim' = FALSE /\ UNCHANGED <<path, home>>
     \/ path' \in {"later", "absent"} /\ UNCHANGED <<shim, home>>
     \/ home' \in {"other", "unset"} /\ UNCHANGED <<shim, path>>
  /\ UNCHANGED <<store, launch, enabled, fixing, launches, history>>

Fix(p) == InstallShim(p) \/ SetEnabled(p) \/ SetPath(p) \/ SetHome(p)

-----------------------------------------------------------------------------
LaunchStep(l) ==
  \/ LookBusy(l) \/ LookFree(l) \/ Looked(l) \/ RunTask(l) \/ Refuse(l) \/ LockBusy(l)
  \/ Lock(l) \/ Up(l) \/ Answer(l)

StartNext ==
  \/ \E n \in Normal : Launch(n)
  \/ \E l \in Launched : LaunchStep(l) \/ Fail(l)
  \/ Age \/ Change \/ Repair \/ DesktopOpens
  \/ \E p \in Proc : Other(p) \/ PathCommand(p) \/ Fix(p) \/ FixFails(p)

StartSpec == StartInit /\ [][StartNext]_all

\* Processes run until they end, also those that hold the gate; the desktop's
\* threads run.
StartFairness ==
  /\ \A l \in Launched : WF_all(LaunchStep(l))
  /\ WF_all(DesktopOpens \/ Repair \/ Fix(Desktop))
  /\ \A p \in Proc \ {Desktop} : WF_all(Other(p) \/ Fix(p))

FairStartSpec == StartSpec /\ StartFairness

-----------------------------------------------------------------------------
(* Properties. *)

\* Launches that meet give way to each other, also to one that only looks, but
\* never all of them: as long as none fails, somebody is on the way or running.
OneIsLeft == launches > 0 /\ ~lost => \E l \in Launched : stage[l] # "off"

\* A click comes to show the window, through whichever launches and hosts it gives
\* way to, also if the one it asks gives way in turn or is not yet up: until then a
\* visible launch is on the way, or its request waits for somebody who is.  Unless
\* one fails or ends, or the request is 60 s old before it is answered.
ClickKept ==
  wanted /\ ~lost =>
    \E l \in Launched : stage[l] # "off" /\ (Shows(l) \/ request)

InOrder == shim /\ enabled /\ path = "first" /\ home = "this"

\* "A running desktop app restores the secure route" (docs/ARCHITECTURE.md): as
\* long as it runs and things are left alone, it comes to be in order and stays so,
\* whatever npm, lpcctl path remove, others or its own failed attempts have left.
RouteRestored == <>[](At("up") # {}) => <>[]InOrder

-----------------------------------------------------------------------------
(* The inductive invariants: of the launches, and of the store beside IInv. *)

\* Whoever has the lock is looking, or is the desktop.
HolderActive ==
  \A l \in Launched : stage[l] \in {"looked", "store", "up"} <=> instance = l

LaunchInv == LaunchTypeOK /\ HolderActive /\ OneIsLeft /\ ClickKept

\* lpcctl path has opened the store, and is not within the gate.
PathOpened == \A p \in Proc \ {Desktop} : fix[p] # "idle" => pc[p] = "ready"

StoreInv == FixTypeOK /\ IInv /\ PathOpened
=============================================================================
