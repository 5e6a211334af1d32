# Verification of larkswitch

larkswitch lets one machine keep several Lark accounts and run the official
`lark-cli` as any of them. A *shim* takes the place of `lark-cli` on the PATH,
looks up which account is active and runs the official binary with that
account's configuration directory; `lpcctl` and a Tauri desktop application
manage the accounts, the apps and the installed CLI versions.

There is no server. Every `lark-cli` call, every `lpcctl` call and the desktop
are separate operating-system processes that work on the same files and
coordinate by advisory file locks and atomic renames. What is hard to test is
therefore what this project models: interleavings of processes and threads,
processes that die between two writes, copies that are stale when used, retries
of what may have been done, and locks whose holders wait for each other.

Paths below are relative to `crates/lpc-core/src/` unless they start with
`lpc-shim`, `lpcctl`, `apps` or `docs`.

## 1. Inventory

| component | state | operations | talks to |
|---|---|---|---|
| routing gate, leases, store (`locking.rs`, `store.rs`, `account.rs`) | `catalog.json`, `active-state.json`, `accounts/*`, `apps/*`, `locks/executions/*`, the lock on `locks/routing.lock` | snapshot for a command, switch, activate a CLI, register, remove, add and remove an app, edit metadata, health check, lease count | every process, through the files |
| desktop services (`apps/desktop/src-tauri/src/main.rs`) | the services bundle behind a mutex, `runtime_change_active`, `app_creation_begins` | about thirty Tauri commands, the health watcher | account service, both coordinators, runtime manager |
| OAuth coordinator (`auth_flow.rs`) | the flows begun, in memory | begin, complete (poll), cancel | desktop services, official CLI |
| App-creation coordinator (`app_creation.rs`) | flows, operations in flight, child processes | begin, poll, cancel, import | desktop services, official CLI |
| runtime manager (`runtime.rs`) | `runtime/versions/*`, the active path, `locks/runtime.lock` | install, activate, prune, rollback, repair | store, commands that have captured a path |
| store initialisation (`store.rs`) | `catalog.json` and the version hint in it | create, migrate | every process, when it starts |
| keychain lock and CLI runner (`locking.rs`, `cli.rs`) | an OS reader/writer lock, the CLI processes | bounded calls, secret on stdin, interactive run, login, creation, exclusive verification | OAuth and creation coordinators, shim |
| host bridge (`host_bridge.rs`, `lpc-shim/src/main.rs`) | pipe connections, hop counter, captured stdin | forward, retry, serve, answer | shim, `lpcctl`, desktop |
| shim and nested shim (`lpc-shim`, `nested_shim.rs`, `shim.rs`) | none of its own | run a command, run one below another, install the shim | store, runtime manager, keychain lock, host bridge |
| account import (`account.rs`) | catalog, state, directories | import an existing CLI configuration, roll back on failure | store, official CLI |
| keychain watch, health rounds (`keychain_watch.rs`, `apps/desktop/src-tauri/src/main.rs`, `account.rs`) | `keychain-watch.json`, the health in the catalog | count the slots, skip or force verifications, check every account, come back to the busy ones | official CLI, store, whoever deletes or restores slots |
| keychain view, guard (`keychain_view.rs`, `keychain_guard.rs`) | markers, registry values | compare, count, export | Windows registry |
| scope policy, selector | none (pure) | what to ask for, which account is meant | account service |
| backup (`backup.rs`) | the directory of snapshots, temporary directories | snapshot, prune, clean up, restore | the data root, without its gate |
| single instance, activation, autostart (`startup.rs`, `autostart.rs`) | the lock `desktop-instance`, `desktop-activation.json`, two tasks of the Task Scheduler | launch, look, give way, ask for the window, answer | desktop, other launches |
| PATH takeover (`path_takeover.rs`, `shim.rs`) | the user's `Path` and `LPC_HOME`, the flag in the catalog, the npm directory | install, remove, repair every 15 minutes | npm, other installers, the user |
| diagnostics, consistency, logging, redaction, MSIX detection | none | report | the files |
| `lpcctl`, window | none, UI state | parse, call commands | all of the above |

The behaviours that are hard, and what makes each component correct:

* **Routing.** A command reads its route and registers its lease under the gate,
  runs without it, and must find its account there until it ends, though
  removals race with it, processes die and pids are used again. A registration
  and a removal write two files, and either can die in between. A health check
  starts from a catalog it read without the gate. *Correct*: the files behave as
  one atomic register; a command keeps its account; the catalog names only what
  is on disk and loses nothing; the gate is always given back.
* **Desktop services.** Commands of the main thread and of async workers take
  two mutexes, drop them while a CLI works, and replace the bundle that holds
  everybody's flows. *Correct*: no replacement leaves a flow or an operation in
  flight behind; counters and flags survive every replacement and early return;
  every command returns.
* **Runtime manager.** Installations exclude each other, rollback and repair do
  not take part in that; pruning deletes directories others may be about to use;
  any file operation can fail. *Correct*: what can run stays runnable; an
  installation only deletes what is nobody's.
* **Store initialisation.** Different releases start at the same time, some of
  them for the first time. *Correct*: no start loses what another one wrote.
* **Keychain lock.** Whoever waits for a CLI holds the lock for it; who that is
  depends on the kind of the run, and logins are only looked at when polled.
  A command may run `lark-cli` in its turn, without a lock of its own. *Correct*: a
  CLI has its lock while it runs, its own or the one above it; the verification of
  an identity runs alone.
* **Host bridge.** A call that forwards may be forwarded again by the child it
  causes; the desktop dies in the middle of a request; callers retry. *Correct*:
  bounded forwarding, at most one execution, the right input, an end.
* **Account records and imports.** What a job asks the CLI, without the gate, is
  old when it gets the gate; an import writes up to four files and takes them
  back one by one when a write fails, and each of that can fail or be cut short.
  *Correct*: after a failure the store is as before; the catalog relies on no
  file that is missing or another's; policies, aliases and logins are nobody's
  but the user's to change.
* **Backup.** Reads and replaces a store in use, without its gate, and removes what
  it takes for leftovers of another backup. *Correct*: what is published is whole,
  only the oldest is given up, a restoration leaves no file other than it was or as it
  was asked for, and can be undone.
* **Health.** What a check saw is written later; a token is renewed, revoked,
  deleted or restored beside it; the official CLI deletes a token the server
  rejects, so that asking at the wrong moment does damage. *Correct*: a round that is
  over has told the truth of what it could learn; after slots have come back it has
  asked the server about every account shown as logged out, whoever else has looked at
  the count; and in the end the catalog agrees with the server.
* **Starting.** A launch looks for a desktop by taking its lock for a moment, gives
  way to whoever has it, and leaves a note with its request. *Correct*: never do
  all launches give way; a click ends in a window.
* **Route.** The repair is four writes in four places that everybody else may write
  too. *Correct*: a running desktop gets it back.

`PROJECT.json` lists every component with its status, and under `hazards` each
place of the code where one of these behaviours bites.

## 2. Modules

| module | models | proofs |
|---|---|---|
| `RouteRegister` | abstract: accounts, route and running commands as one atomic register | |
| `Routing` | gate, leases, catalog, state and directories, all jobs on them | `RoutingProofs` |
| `ServicesCell` | abstract: the desktop's services as one cell, replaced in an instant | |
| `DesktopServices` | the desktop's bundles, mutexes, coordinators, commands | `DesktopServicesProofs` |
| `AccountRecords` | records and configurations of apps and accounts: imports, logins, policies, aliases | `AccountRecordsProofs` |
| `Selectors` | which account a selector names, as pure operators | (used by the above) |
| `Runtimes` | installed versions, install, rollback, repair, captured binaries | `RuntimesProofs` |
| `FirstStart` | creation and migration of the catalog by concurrent releases | `DesktopStartProofs` |
| `KeychainLock` | the keychain lock and the CLI processes under it | `CallProofs` |
| `HostBridge` | forwarding between shims, `lpcctl` and the desktop | `CallProofs` |
| `DesktopStart` | launches and the single desktop, the route to the shim; extends `FirstStart` | `DesktopStartProofs` |
| `HealthRounds` | the health of accounts, the watch over the keychain | `HealthRoundsProofs` |
| `Backups` | snapshots, pruning, restoration | `BackupsProofs` |
| `MC...` | the instances TLC checks | |

`Routing` is the centre. The others take from it what they need as one step: in
`Runtimes` each access to the pointer is one step because `Routing` shows that
the gate makes it one; `FirstStart` has the gate and a registration, without the
parts `Routing` details; `DesktopServices` sees the store as the value `active`
that any process may change. `AccountRecords` has the content of the catalog that
`Routing` leaves out, and takes from it that a load-change-save under the gate is
one step which may stop between two of its writes; only the imports, whose
rollback is the point, are taken apart. `DesktopStart` is a composition: its desktop
and its `lpcctl` processes are processes of `FirstStart`, so that what is shown of the
store there is shown here again with a desktop that dies and comes back in the
middle, and with the flag of the PATH takeover in the same catalog. `HealthRounds`
and `Backups` see the catalog as what they read and write of it.

### Routing and RouteRegister

A member of `Proc` is a process identifier. It stands for several processes in
turn (`inc` counts them, `MaxStarts` bounds them), which is what makes a stale
lease dangerous. Each process does one `job` and exits.

| variable | code |
|---|---|
| `gate` | holder of `locks/routing.lock` (`RoutingGate`) |
| `cat`, `st`, `dirs`, `leases` | the files (`Catalog`, `ActiveState`, `LeaseRecord`) |
| `copy`, `was` | what a process has loaded of them |
| `route`, `started` | the command's `RouteSnapshot`, its recorded start time |
| `issued`, `cut` | history: ids handed out; accounts whose removal died half-way |

| actions | code |
|---|---|
| `Start`, `Snapshot`, `WriteLease`, `Finish` | the shim: `begin_execution`, then `ExecutionLease::drop` |
| `Lock`, `LockTimeout` | `RoutingGate::acquire` and its 30 s |
| `Cleanup`, `CheckIdle` | orphaned leases are dropped, an account with a lease is busy |
| `LoadCatalog`, `MakeDir`, `SaveCatalog`, `LoadState`, `SaveState` | the load-change-save of each mutation, each read and each rename a step |
| `Logout`, `RemoveDir` | the rest of a removal |
| `Probe`, `RunCli` | the part of a health check that runs outside the gate |
| `Crash` | any process, at any step |

Accounts are ids with an app (`AppOf`) and a user (`UserOf`); scopes, labels and
health are left out, so `edit`, `health` and `count` only rewrite the copy that
they loaded, which is precisely how they could lose something. The catalog is
a set: which account takes over after a removal (the first) is left open.
`None` as an argument of `exec` means no account override. A lease whose start
time could not be read has `started = 0` and protects its account as long as any
process has the pid.

`RouteRegister` is the specification a user of the routing layer needs: accounts
come, go while unused, and are switched to, and a command runs under a route it
read once. `Routing` implements it with `SettledAccounts` as `accounts`: an
operation that spans the two files counts from the moment it is over or dead.

### AccountRecords and Selectors

| variable | code |
|---|---|
| `catalog` | `catalog.json`: label, boundary (`available`) and policy of each app; app, user, alias of each account, and whether it shares an existing login (`CredentialOrigin::ExternalShared`) |
| `active` | the account in `active-state.json` |
| `base`, `config` | `apps/*/config.json` and `accounts/*/config.json` |
| `gate` | the routing gate, while an import holds it |
| `job`, `seen`, `target`, `source`, `plan` | in memory: the job, the scopes the CLI has reported, those a login asks for, the configuration to store, and what an import has found and is to save |
| `issued` | the ids handed out (`Uuid::new_v4`: each once) |
| `imported`, `loggedOut` | history: imported accounts; identities the CLI has logged out |

| actions | code (`account.rs` if not said) |
|---|---|
| `Prepare`, `Observe` | the CLI is asked about an existing login or an app, without the gate |
| `Boundary` | `refresh_app_boundary`, also the start of every login |
| `BeginLogin`, `Authorize` | `auth_flow.rs`: what is asked for, and what the user does with it |
| `Register`, `Reauthorize` | a login's commit, for a new account and for an old one |
| `SetPolicy`, `SetAlias`, `Remove`, `Normalize` | the other jobs, of one step under the gate |
| `LoadAccount` or `LoadApp`, `WriteBase`, `WriteConfig`, `SaveCatalog`, `SaveActive` | the commit of an import, write by write |
| `UndoCatalog`, `UndoActive`, `UndoBase`, `UndoConfig`, `UndoDirs`, `Report` | its rollback |
| `Refuse`, `Crash` | any job ends without a change; any process dies, anywhere |

An app is known by its app id, which is unique in the catalog. A configuration is
the app, the users and one optional setting (`lang`); `Sanitized` and `Isolated`
are what is kept of an official one. `Selectors` has the resolution of
`selector.rs`, from the parsed selector on. `Consistent` is what earlier jobs may
have left; the run starts from two such stores (the empty one, and two apps with one account).

### DesktopServices

A bundle is a number; `current` is the one behind the `services` mutex. Replacing
a bundle makes the next number current and leaves the old one to whoever still
has a handle (`held`). Each thread runs one command at a time; synchronous
commands only run in `Main`. `cancel`, `check`, `account` and `install` stand for
the synchronous commands, which differ in how they take the two mutexes;
`install` also stands for `rollback_runtime`. `told` is what the window knows of
a flow. The actions follow the code between two acquisitions of a mutex:
`ReadActive` to `SwapToActive` are `follow_active_runtime`, `RequestChange` to
`ClearChange` are `begin_runtime_change` and its callers, `Clone` is the short
critical section every flow command starts with. `CountFlows` and
`CountOperations` are two steps because `active_flow_count` reads the map and the
counter one after the other.

`ServicesCell` is what the commands that create Apps need of it: they work with one
set of services, which is replaced as if in an instant, and only while no flow they
were told of is open and nobody is at work. `DesktopServices` implements it with
`current` as its `generation`, the flows told as Apps' as `given`, and the threads
at work on the current bundle as `working`: `Clone` of a creation is `Begin`,
`CreationStarted` and `Finalize` are `End`, `LookForFlow` is `Take`, `SwapToActive`
and `SwapServices` are `Replace`, and whatever else happens is not seen. OAuth flows
are not in it, because they are not kept (see *Findings*).

### Runtimes

A version stands for its directory and its path; it is in `binaries` when its
executable is there. An installation reads what to keep, downloads, creates the
directory, promotes the checked binary, activates it and prunes (`Prune` may
fail at any file, so it deletes any part of what it should). `PickRollback` takes
the newest other directory, `PickRepair` the newest binary when the pointer's is
gone; neither takes `runtime.lock`. `undo` is history: what a rollback should go
back to.

### FirstStart

`Exists` and `Create` are the two halves of the unlocked creation; `OpenGate` to
`Migrate` the migration under the gate; `Begin` to `Write` a registration.
Initially there is no catalog or an empty one of any release.

### KeychainLock

A task is one use of the lock, of one of five kinds that differ in who waits for
the CLI. `left` means that the process that started a CLI is gone, or has
returned without killing it (`SecretNotWritten`), while the CLI goes on. `nested` is a
call that a shim's CLI has made in its turn: it is "under" while it would find both
among its ancestors (`nested_official_cli`), and takes no lock; when one of the two
ends it is "loose", and whatever it does from then on it does without a lock
(`Loosen`). A nested call that does not find them is a task like any other.

### HostBridge

Calls are numbered as they start; `from` is the call whose request started this
one. `Again` is the one difference between the two retry loops: the library
sends the request it has built, the shim builds it again. The environment
decides which view a call sees (`Decide`), when the desktop is there
(`HostStart`, `HostCrash`) and who is killed (`Kill`).

### DesktopStart

A launch is one of four: a click and the autostart (`Normal`), and the hosts that the
two tasks start for them (`Host`). Each may come again and again.

| actions | code |
|---|---|
| `Launch`, `LookBusy`, `LookFree`, `Looked` | `main` up to `activate_if_running`; the probe holds the lock from `LookFree` to `Looked` |
| `RunTask`, `Refuse`, `LockBusy`, `Lock`, `Up` | the bootstrap tasks, the two data-safety guards, the setup |
| `Answer`, `Age` | `listen_for_activation` and the 60 s of a request |
| `DesktopOpens`, `Other` | `StateStore::initialize` of the desktop; the processes of `FirstStart` |
| `Repair`, `PathCommand`, `InstallShim`, `SetEnabled`, `SetPath`, `SetHome` | `repair_managed_route` and `lpcctl path`, write by write |
| `Fail`, `FixFails`, `Change` | whatever can go wrong, end, or be changed by others |

`shim`, `enabled`, `path` and `home` are the four places. `wanted` and `lost` are
history: a click that has not led to a window yet, and whether anything has failed,
ended or grown old since.

### HealthRounds

An account's slot holds a token that is due or not, and that the server accepts or
not; `others` are the slots of Apps, of which only the number matters. A `Checker` is
the round or the user. `Look` is `auth status`, `Verify` is `auth status --verify`,
`Write` the record under the gate; `Unsure`, `Busy` and `WriteFails` are the answers
from which nothing, or nothing certain, follows. `Begin` has the whole decision at the
start of a round: observe the count, skip, or go on and force the accounts shown as
logged out. `BeginEmpty` is a round whose catalog cannot be loaded, `BeginBlind` one
without `keychain-watch.json`; `Restart` is the desktop's look at the count when it
starts, which writes the count down before any round sees it. `disturbed` (the accounts
a round cannot be asked about), `desk` (the count at the desktop's last look) and
`owed` (what a round that sees more slots than that has to ask the server about) are
history.

### Backups

A process makes one call: a backup with a reason, or a restoration, which makes a
backup first. The data root is two files, a directory and the catalog, because that is
the least that can be torn; their content is the number of the operation that wrote
them. Snapshots are named by second and reason and sort by that. A temporary directory
belongs to a process and survives it; another process removes all of it or a part
(`Remains`). Pruning removes a snapshot file by file and then its directory
(`PruneFile`, `PruneDir`), and fails when another process has been faster
(`PruneFails`). A restoration replaces the files it finds one by one (`Apply`); what its
walk cannot read it drops without a word (`ApplyMisses`, `filter_map` at
`backup.rs:236`), and it reports success when it finds nothing more. `sound`, `was`,
`before`, `wanted`, `touched`, `hit`, `robbed`, `missed` and `swapped` are history, for
the properties only.

## 3. Runs

`PROJECT.json` names the run, its module, its `.cfg` and its properties.

| run | instance | what it shows |
|---|---|---|
| `commands` | 2 pids used twice, 2 accounts of one person in 2 apps, generations 0..2 | commands, switches, activations, removals and registrations, crashing anywhere: `CommandKeepsAccount`, `ActiveKnown`, and the files implement the register |
| `catalog` | 2 pids used twice, 2 accounts of one person in 1 app | registrations, removals, apps added and removed, edits and health checks against each other, on a catalog that exists (imports are in `records`, its creation in `opening` and `fresh`, restorations in `backups`): `CatalogBacked`, `AppsPresent`, `NoDuplicateUsers`, `NoLostAccounts`; and, fairly scheduled, `JobsEnd` |
| `services` | 2 threads with 2 commands each, 1 flow, 2 CLIs, 5 bundles | no replacement leaves a creation behind: `AppFlowsKept`, and the commands implement the cell (`ImplementsCell`); `ChangeOwned`, `CallsReturn` |
| `records` | 2 processes, 3 jobs of every kind, 2 apps with misleading labels, 2 users, 2 accounts, 2 scopes of which one is core; from an empty store, or one with two apps and an account | `ConfigsBacked`, `ImportUndone`, `LoginCanAsk`, `NoDuplicates`, `SelectorsResolve`, `PolicyOnlyNarrows`, `RecordsKept`, `SharedLoginsKept` |
| `installs` | 2 processes with 3 jobs each, 3 versions | `ActiveStays`, `NoVersionStolen`, `RollbackUndoes` |
| `opening` | 2 normal launches, 1 event, the desktop and 1 `lpcctl`, 2 releases | who is left and seen: `OneIsLeft`, `ClickKept`; what comes back: `RouteRestored`; what opening the store keeps: `OnlyCreationLoses`, `HintRises` |
| `keychain` | 4 tasks of any kinds, each with a nested call, unbounded | `HeldForLifetime`, `ExclusiveAlone` |
| `rounds` | 2 accounts, 1 other slot, 2 events, 1 fault, rounds without end | what a round has told when it is over: `RoundTells`, `RiseVerified`; and in the end: `HealthConverges` |
| `backups` | 2 processes, 2 seconds, one reason beside `pre-restore`, 1 snapshot kept, 1 operation on 2 files | what is published, put back, left to go back to, and given up: `SnapshotsWhole`, `RestoreWhole`, `UndoPossible`, `KeepsNewest` |
| `bridge` | 4 calls, 1 by the user, 2 hops, 2 retries | `SentOnce`, `InputKept`, `CallsEnd` |
| `logins`, `fresh` | | violations; see *Findings* |

**Bounds.** `MaxStarts`, `MaxCalls` and `MaxUser` bound how many jobs, commands
or calls there are; `MaxBundle` how often the bundle is replaced; `MaxHops` and
`MaxTries` are the code's `MAX_BRIDGE_HOPS` (3) and its sixty attempts, made small; `GenMax` is the code's
`u64::MAX`, made small so that it saturates (in `catalog` it is 0: the
generation is of no matter there); `Keep` is the code's 10; `MaxEvents` and
`MaxFaults` bound what the environment does, never what the code does. They are
enough for the cases that matter: each hazard needs two actors and at most one
repetition, namely a pid used a second time, a second generation and then the
saturated one, a bundle replaced while another replacement is pending, a third
version so that pruning has something to delete, one more call than the hops
allow. The bounds leave the calls of one actor independent of their number,
because a process that has exited leaves nothing but files behind, and those are
in the state. In `records`, 3 jobs are one that is overtaken, one that overtakes
it, and one before or after; every property is broken by a mutant within them.
In `services`, 4 commands can replace a bundle at most 4 times, so that
`MaxBundle = 5` never blocks anything. In `opening`, two launches are enough for
two hosts to meet each other and a launch that only looks; the one event is a
failure, an end, an expired request, or a change of the route by others: the
properties are about what follows it. In `rounds`, two accounts and another slot
have a rise, a drop that is a cliff (to none, or from three to one) and one that
is not; two events are a deletion and a restoration (with a look by `doctor` between them or
not), or one of them and a restart. In `backups`, with one snapshot kept, every backup
beyond the first prunes, also the one that another process restores. In the runs
that show a violation the bounds only have to reach it.

Symmetry (of processes or tasks) is used in runs without liveness properties
only (`commands`, `installs`, `records`, `keychain`, `backups`); all temporal
properties of those runs are action properties, or step simulation, and name no
member of the symmetric set. `CHECK_DEADLOCK FALSE` is set because the jobs are
bounded: when all have been done the system rests, rightly. In `keychain`,
nothing is bounded and there is no deadlock to excuse.

**Fairness.** `Routing`: weak fairness of a process's own steps (`Work`). The OS
schedules each process, local file I/O returns, and every CLI the code waits for
under the gate has a timeout. Nothing is assumed of users' commands (`Finish`),
of crashes or of new jobs. Weak fairness of `Lock` is enough because jobs are
bounded in number, hence the gate is eventually free for good; a stream of
processes without end could starve one, and would after 30 s be a timeout.
`DesktopServices`: weak fairness per thread, for the same reasons. `HostBridge`:
callers and the desktop's handlers are scheduled, and the program that runs in
the end finishes; the desktop itself may stay away forever. `DesktopStart`:
every launch, the desktop's opening and repairing (its thread repeats it every
15 minutes) and the `lpcctl` processes are scheduled; nobody has to click, and
`RouteRestored` speaks of a desktop that stays. `HealthRounds`: the desktop's
thread goes its round, whatever checks are under way end (the CLI has a
timeout), a login that is renewed gets recorded, and time passes (`Expire`):
without the last, a token that the server has revoked would look well forever to
a check that does not ask. Faults and events are bounded, so that "in the end"
means after the last.

## 4. Findings

Two runs show the code doing other than it says. Each checks one sentence of
the repository's.

* `logins` (`LoginsKept`): "An active OAuth or App creation flow keeps its CLI"
  (`apps/.../main.rs:179-180`). `begin_account_login` clones the coordinator, drops
  the services mutex, and only then locks the coordinator. A change of services in
  between sees no flow and replaces the coordinator; the user gets a login nobody
  can complete. App creation has `app_creation_begins` for this window (and
  `AppFlowsKept` holds); OAuth has nothing.
* `fresh` (`AccountsKept`): "Every catalog mutation here happens *inside the
  routing gate*" (`store.rs:27-29`). The creation does not; the later of two first
  starts writes the empty catalog over the other's first account.

Seen while modelling, and kept as what the models do, without a run of their own:

* the shim's own retry loop calls `execute_via_host_bridge` again, which reads the
  standard input again and finds it at its end (`lpc-shim/src/main.rs:82`), although
  "a connection retry must not read it twice" (`host_bridge.rs:174`): a call that
  has the desktop started loses its input (`Again`; the exception in `InputKept`). Input
  of more than 16 MiB, or not UTF-8, is an error of the first attempt (`BuildRequest`),
  after which that loop may send the rest of it, or nothing;
* a backup that starts while another one copies removes the other's temporary
  directory as a stale one (`backup.rs:264`); the other goes on in a new one and
  publishes an incomplete snapshot whose manifest counts everything as copied,
  although an observer should never see half of one (`backup.rs:126`;
  `Prepare`, the exception `hit` in `SnapshotsWhole`);
* when two backups prune at once, one of them fails after it has published its
  snapshot, and skips the export of the keychain (`backup.rs:131-137`; `PruneFails`);
* a restoration reports success although its walk has dropped an error, be it a
  directory that cannot be read or one that another backup is pruning, and with it the
  files below (`backup.rs:233-236`; `ApplyMisses`, `Restored`, `missed`): they stay as
  they were, and the report does not list them. A snapshot whose
  `lpc-control-plane` is an empty directory is restored with success, too;
* the desktop looks at the count when it starts and writes it down
  (`apps/.../main.rs:1145-1159`), and its first round follows at once: after a cliff
  that happened while no desktop looked, the start raises the alarm and that round
  (`:1281-1311`) finds the count unchanged and verifies every account, although
  `docs/KEYCHAIN-DURABILITY.md:63` and `:123` say that the round of a cliff does not;
  and after slots that were written back meanwhile it does not insist on the accounts
  shown as logged out, although `:64` and `:125` say it does (`Restart`; the exception
  is in the comment of `RiseVerified`, and no property here claims that a cliff keeps a
  round from verifying);
* a catalog that cannot be loaded gives a round without accounts, for which the count
  is used up all the same: a rise found by it is forced by no later round (`BeginEmpty`);
* when `keychain-watch.json` can be read and not be written, the event is
  dropped with the error and the round goes on (`BeginBlind`); when it cannot be
  parsed, every round does, until somebody deletes it; on other systems than
  Windows the count is always 0, which skips every round;
* the desktop installs the route at every start and every 15 minutes (`Repair`),
  also after `lpcctl path remove`, although the repository's `README.md:38` calls the takeover off by
  default;
* an alias may be written like an id (`validate_alias`, `selector.rs:76-105`): it is
  found as `alias:...` only, because a bare token that looks like an id is taken for one
  (`Bare`);
* a nested call that outlives its CLI, as a daemon does, runs without any lock
  (`Loosen`), although `nested_shim.rs:6` has the shim hold it until "those
  children exit";
* a removal holds the routing gate during the official CLI's logout (up to 65 s),
  longer than others wait for it (`locking.rs:215-216` speaks of short
  sections); `LockTimeout` is this;
* a health check that has read the catalog before a removal creates the removed
  account's directory again (`RunCli`), which is why `CatalogBacked` is an
  inclusion and not an equality (`consistency.rs:8-10`);
* a removal that dies between its two files leaves a route to nobody (`cut`);
* `begin_runtime_change` waits for the OAuth coordinator, and so for a CLI, with
  the services mutex held (`apps/.../main.rs:29-30` says otherwise);
* a rollback or a repair that overlaps an installation can leave the pointer on
  a version that this installation prunes (`Overtaken`), and a repair can replace
  a binary that was activated since it looked (`runtime.rs:288`);
* two installations while a command waits for the keychain lock delete the binary
  it has captured (`Prune` between `Capture` and `Execute` in `Runtimes`), although
  "existing commands continue using their captured old binary path"
  (`docs/ARCHITECTURE.md:111`);
* a policy of which a boundary leaves nothing is replaced by the default
  (`Narrowed`): the user's choice of no scope at all lasts until the next refresh,
  and a boundary that is empty for a moment undoes a choice for good;
* a reauthorization does not look again at the app of its account when it commits;
  it needs not, because ids are used once (`ReauthsAgree` says so, and is needed
  in the invariant);
* the import of a new app checks before it asks the CLI that the app is not there
  (`account.rs:443`), so that one that has come meanwhile is updated instead;
* an existing login is verified before the gate is taken: if a removal logs the same
  identity out in between (its account was made by a login), what is imported is
  logged out (`Prepare`, `Remove`, `LoadAccount`);
* a bounded call whose secret cannot be written returns, and with it the lock,
  while its CLI lives on (`SecretNotWritten`); `locking.rs` claims the lock for
  the CLI's lifetime.

## 5. What is proved

TLC checks the instances above; the following holds for every value of the
constants that satisfies the module's `ASSUME`.

**`RoutingProofs`** (from `RoutingAssumption`: accounts have apps, ids of accounts
and apps are disjoint, `None` is none of the values, bounds are naturals).
`TypeCorrect`, `GateIsExclusive`, `CommandsKeepTheirAccount`, `CatalogIsBacked`,
`AppsStayPresent`, `UsersAreUnique`, `ActiveIsKnown`, `RouteIsStamped`,
`AccountsAreNotLost`. One inductive invariant carries them. Its parts say what the
properties do not: which steps hold the gate; that a job has the memory its step
needs; that between a load and the save that follows the copy *equals* the file,
because nobody else writes it while the gate is held; that what a
job is about to write into the catalog is already on disk; and that each running
command has its lease on disk, is alive, and that no lease of a living process
is an orphan, which is why `CheckIdle` sees it whatever pids are used again.
Without the last two parts neither `NoLostAccounts` nor `CommandKeepsAccount` is
preserved by a single step.

In the same module, `RoutingImplementsRegister`: initial states map to
initial states, and each step of `Routing` maps to one step of the register or
to none: `SaveState` of a registration or a removal, or the exit or the crash
that cuts it short, is where `Add` or `Remove` happens; `Snapshot` is `Run`. And
`JobsAdvance`: each step of a job lowers a rank of eleven at most, whatever it meets.
With `GateIsExclusive`, that is what `JobsEnd` rests on beside fairness.

**`DesktopServicesProofs`** (from `DesktopAssumption`: there is a main thread,
finitely many threads and flows, at least one bundle): `AppFlowsAreKept`,
`ChangeIsOwned`, `OperationsAreOnCurrent`, from `IInv`. A replacement is decided
upon from three values that are read one after the other, none of them at the instant of
the decision; so `IInv` says what the two counters count (`BeginsCounted`,
`OperationsCounted`, by the cardinality of sets of threads), which is why finitely
many threads are assumed, and what each value read still tells at the steps that
follow it (`CountsLast`). An installation replaces the bundle after it has given the
mutex back, so that `changing` has to carry the decision to the end (`ChangeAlone`).
From `FlowsTold`, that a flow is in one coordinator only (`FlowsAreTold`), follows
`DesktopImplementsCell`: every step maps to one step of the cell or to none.

In the same module, what `CallsReturn` rests on beside fairness: `CommandsAdvance`,
each step of a command lowers a rank that begins at nine, and nobody else raises it;
and `NobodyWaitsInACircle`, at any moment some command that runs waits for no
mutex. The argument is the order of the locks: who holds a coordinator waits for
nothing, who holds the services at most for a coordinator (`AuthHeld`).

**`CallProofs`**: of `KeychainLock` (any set of tasks), `LockIsHeldForLifetime`
and `VerificationRunsAlone`, from `LockInv`: held locks are compatible, every step
between acquisition and reaping holds the lock in the task's own mode, and a
nested call that is not loose is below a shim whose CLI runs (`NestedUnder`). Of
`HostBridge` (from `BridgeAssumption`), `CommandsAreSentOnce` and `InputIsKept`,
from `IInv`: what a call that builds its request only once (`Plain`) has read
and started at each of its steps, and that a child is its caller's program, one hop
further. What `CallsEnd` rests on: `CallsAdvance`, each step lowers a rank of four
for every attempt left and the steps to the end of this one, also when the desktop dies
and comes back; and `NoCallWaitsInACircle`, because who waits for another call waits
for one that began later: the youngest waits for nobody's end.

**`AccountRecordsProofs`** (from `AccountRecordsAssumption` and
`SelectorsAssumption`: the stores that may be there at first are consistent,
core scopes are scopes, `None` is none of the values; aliases, ids and names may look
alike; `SelectorsAreDefinite`
also assumes that there are finitely many app ids): `NoDanglingPath`,
`FailedImportUndone`, `LoginsCanAsk`, `IdentitiesOnce`, `PoliciesOnlyNarrow`,
`RecordsStay`, `SharedLoginsStay`, `SelectorsAreDefinite`, for any processes,
apps, accounts, users, scopes and jobs. `IInv` says of each process where it is
in its job (`JobAt`), what it is to store (`SourceAt`), that an import's plan
extends what it found by its own app and account and only narrows, and serves
either way (`PlanSound`), which of the two catalogs is on disk (`StoreAt`) and
how far its writes have come (`WrittenAt`). Without `StoreAt` no single write
preserves `ConfigsBacked`; without `PlanSound` the catalog it saves could be
anything. The proof has one lemma for what every other process keeps
(`OthersFit`: who changes files has the gate or takes it for that), one for the
files, and one per action.

**`RuntimesProofs`** (from `RuntimesAssumption`: every non-empty set of versions
has a newest one): `VersionsAreNotStolen`, `ActiveBinaryStays`, `RollbacksUndo`,
from `IInv`: each step belongs to its job and to the holder of `runtime.lock`
(`JobAtStep`, `LockHeld`), what an installation has checked stays in place until
it is done (`InPlace`), and after an installation the only other binary is the
one it replaced (`OneUndo`).

**`DesktopStartProofs`**. Of `FirstStart` (any processes and releases):
`CatalogIsThere`, `OnlyCreationLosesAccounts`, `HintNeverFalls`, from `IInv`:
the gate is held from load to save, and a copy about to be written has every
account of the file: only a creation can come in between, and leaves none
(`CopiesComplete`). Of `DesktopStart` (any number of launches, events and `lpcctl`
processes): `SomeoneIsLeft` and `ClickIsKept`, from
`LaunchInv`: whoever has the lock is looking or is the desktop (`HolderActive`),
so that whoever gives way gives way to somebody who is on the way, and its
request with it. `RestartsLoseNothing` and `RestartsKeepHint`, from `StoreInv`:
`IInv` of `FirstStart` still holds when a desktop dies at any step and another
one begins, and `lpcctl path` has no gate between its steps (`PathOpened`).
Steps of the store are those of `FirstStart` and cite its lemmas; all others
leave the store alone (`StoreStep`). `RepairsRestore` is what `RouteRestored` rests
on beside fairness: a repair that nobody undoes from its start on (`LeftAlone`: no
change by others, no `lpcctl path remove` under way, no creation of a catalog) ends
with the route in order, and in order it stays, although each of its four writes may
have those of an `lpcctl path install`, a launch or a failure before and after it
(`RepairSoFar`).

**`BackupsProofs`** (from `BackupsAssumption`: finitely many reasons, at least one
snapshot is kept; and `NoneAssumption`): `SnapshotsAreWhole`,
`RestorationsAreWhole`, `RestorationsCanBeUndone`, `NewestAreKept`, for any
number of processes, seconds and operations. There is no lock to argue from.
Pruning is safe because giving up one snapshot that has `Keep` newer ones leaves
every other one with `Keep` newer ones that had them (`NewerStay`, by counting:
those that were newer than the one given up are newer still), so that a list of
what to prune stays right however old it is (`ListedOld`). What a restoration has done is told file by
file: of the snapshot that was chosen each file is there as it was then, or has been
pruned by another process and is marked as `missed` (`ChosenKept`), because the backup
that the restoration makes first prunes nothing (`PrunesAlone`); and each file of the
data root that nobody else has written is what was there before or what was asked for,
the former only where the walk has not come by yet or has missed it (`AppliedKept`).
`MadeKept` keeps the snapshot to go back to.

**`HealthRoundsProofs`** (from `HealthRoundsAssumption`: finitely many accounts, in
an order; and `NoneAssumption`): `RoundsTell`, `RisesAreVerified`. `RoundSoFar` carries
the first through the round: of an account that nobody has changed since the
round began, either the round is not through with it, or the catalog tells what
could be found out, and so does the result that waits for the gate. It takes that
a check belongs to an account the round is not through with (`RoundPlace`).
`RisesAreVerified` needs besides that the file holds the count the desktop saw last
(`WatchSeen`), so that a round forces whatever it owes (`OwedForced`): of an account it
forces, what can be found out is what the server says. Two more are what `HealthConverges` rests on beside fairness:
`RoundsAdvance`, a round has at most six steps for each account and two more,
because it comes back to a busy one only once; and `TruthStays`, from the moment it
is decided whether an account's token is accepted and no old answer is about to be
written (`Settled`), and as long as there are no more events and faults, each check
writes the truth and what is written stays true.

**Only model-checked.** Liveness: `JobsEnd`, `CallsReturn`, `CallsEnd`,
`RouteRestored` and `HealthConverges` need fairness and ENABLED, which are outside the
prover's reach. What is proved towards each is said above: bounded progress and no
circular wait for the first three, an end that is right and lasts for the other two.
Every other property of a passing run is a theorem.

## 6. What is not modelled

* *External programs*: the official CLI is what the code sees of it (it ends, fails,
  times out, creates its directory). The OS lock primitives are assumed to exclude.
* *Durability*: an atomic rename survives a crash of the process; power failure is
  outside, as it is outside the code's claims.
* *Pure I/O*: logging, redaction, diagnostics (but for `doctor`'s look at the
  keychain), MSIX detection, the comparison of registry markers
  (`keychain_view.rs`; its outcome is in `HostBridge` and `DesktopStart`) and
  the export of the keychain to `.reg` files (`keychain_guard.rs`), which no
  code reads back. No protocol, no shared state beyond what they report.
* *Files that cannot be read*: a lease file that is damaged counts as an orphan
  (`locking.rs:399-417`; here every lease can be read); directories of versions that no
  installation has made (`runtime.rs:178` and `:211` take any whose name is a version;
  here `Version` has those that installations may make).
* *Content of records*: effective scopes, names and brands; the search for
  candidates of an import; the secret that the creation of an app puts in the
  keychain.
* *In the bridge*: the pipes between the desktop and its child, and so whether they can
  fill up on both sides (`host_bridge.rs:485`): `CallsEnd` takes it that the program
  that runs in the end finishes.
* *In the repair of the route*: an npm directory that does not exist, for which nothing is
  to be written (`shim.rs:87-90`), and the repair when the desktop starts, which is the
  same four writes as the one every 15 minutes (`Repair`).
* *Around the desktop*: the lock on the WebView's directory, the watchdog of the
  window and whatever the tray does; Unix shell profiles; the definition of the
  tasks.
* *Time* beyond an order of events: expiry of OAuth flows, the age of exports.
* *In backups*: the official CLI's directories, which are copied along and not
  restored.
* *Front end and argument parsing*: they call what is modelled.
* Still to come: see the plan.

## 7. Plan

Order: what most processes share comes first.

1. *(done)* `Routing`, `RouteRegister`, their proofs and the refinement.
2. *(done)* `DesktopServices`, `Runtimes`, `FirstStart`; proofs of the last two.
3. *(done)* `KeychainLock`, `HostBridge` and their proofs.
4. *(done)* `AccountRecords`, `Selectors` and their proofs.
5. *(done)* `DesktopStart` (single instance, activation, the route) with its proofs;
   `HealthRounds` (health, keychain watch); `Backups`; nested shims in `KeychainLock`.
6. *(done)* Proofs of `Backups`, `HealthRounds` and `DesktopServices`; `ServicesCell`;
   progress and the absence of circular waits (`Routing`, `DesktopServices`, `HostBridge`);
   what a repair and a round of health checks come to (`DesktopStart`, `HealthRounds`).
7. Expiry of OAuth flows (in `DesktopServices`); the scope planner as a pure operator
   against a reference definition.
8. Dropped: an abstract all-or-nothing import. The code does not promise one across a
   crash (`Crash` between two writes leaves what is there), and what it promises when
   a write fails is `ImportUndone`, which is proved.

New modules share runs with those they interact with where they can.
