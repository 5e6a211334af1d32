--------------------------- MODULE AccountRecords ---------------------------
(***************************************************************************)
(* What the catalog records of apps and accounts, and the configurations   *)
(* beside it (lpc-core/src/account.rs, scope_policy.rs, auth_flow.rs).     *)
(*                                                                         *)
(* Every job first asks the official CLI, without the routing gate, and    *)
(* then changes the store under it.  The import of an existing account     *)
(* writes up to four files and takes them back one by one when a write     *)
(* fails; its steps, and those of an app's import, are steps here.  Of the *)
(* other jobs the part under the gate is one step, which may stop after    *)
(* any of its writes (module Routing has their interleavings).             *)
(*                                                                         *)
(* Left out: health, effective scopes, names, labels of tenants, brands    *)
(* and times; the generation of the route; the removal of apps.  An app is *)
(* known by its app id, an account by its id, which is used once.          *)
(***************************************************************************)
EXTENDS Selectors, Functions

CONSTANTS
  Proc,      \* the processes
  Scope,     \* scopes of the platform
  Core,      \* those on the reviewed allowlist
  MaxScopes, \* how many scopes one authorization may ask for (250)
  Lang,      \* values of an optional setting that configurations carry
  Before,    \* the catalogs that earlier jobs have left
  Jobs,      \* the jobs that processes start
  MaxJobs    \* bound: how many of them

AppRec == [label: Label, available: SUBSET Scope, policy: SUBSET Scope]
AccountRec == [app: App, user: User, alias: Alias \cup {None}, shared: BOOLEAN]
Catalog == [apps: UNION {[A -> AppRec] : A \in SUBSET App},
            accounts: UNION {[C -> AccountRec] : C \in SUBSET Account}]

\* A config.json in the store, and one outside: that one may have a secret in
\* plain text, or no or several apps.
Config == [app: App, users: SUBSET User, lang: Lang]
Source == [app: App, users: SUBSET User, lang: Lang, safe: BOOLEAN]

Job ==
  [op: {"import"}, label: Label, source: Source]
    \cup [op: {"app"}, label: Label, source: Source, fresh: BOOLEAN]
    \cup [op: {"refresh"}, app: App]
    \cup [op: {"policy"}, app: App, selected: SUBSET Scope]
    \cup [op: {"alias"}, account: Account, alias: Alias \cup {None}]
    \cup [op: {"login"}, app: App, user: User]
    \cup [op: {"reauth"}, account: Account]
    \cup [op: {"remove"}, account: Account]
    \cup [op: {"open"}]

\* Under the gate: what an import found, and what it is to save.
Plan == [found: Catalog, active: Account \cup {None},
         base: Config \cup {None}, config: Config \cup {None},
         next: Catalog, account: Account \cup {None}, clean: BOOLEAN]

\* What earlier jobs can leave: accounts of apps that are there, each identity,
\* alias and scope policy as it should be.
Consistent(c) ==
  /\ \A a \in DOMAIN c.apps : c.apps[a].policy \subseteq c.apps[a].available
  /\ \A i \in DOMAIN c.accounts :
       /\ c.accounts[i].app \in DOMAIN c.apps
       /\ \A k \in DOMAIN c.accounts \ {i} :
            /\ c.accounts[k].app # c.accounts[i].app \/ c.accounts[k].user # c.accounts[i].user
            /\ c.accounts[k].alias = None \/ c.accounts[k].alias # c.accounts[i].alias

ASSUME AccountRecordsAssumption ==
  /\ Core \subseteq Scope
  /\ Lang # {}
  /\ MaxScopes \in Nat /\ MaxJobs \in Nat
  /\ Before \subseteq {c \in Catalog : Consistent(c)}
  /\ Jobs \subseteq Job
  /\ None \notin Proc \cup Job \cup Config \cup User
  /\ None \notin Plan

VARIABLES
  catalog,   \* catalog.json
  active,    \* the active account in active-state.json, or None
  base,      \* apps/<app>/config.json, or None
  config,    \* accounts/<account>/config.json, or None
  gate,      \* the process that holds the routing gate, or None
  pc,        \* where a process is in its job
  job,       \* its job, or None
  seen,      \* the scopes the CLI has told it the app has
  target,    \* the scopes its login asks for
  source,    \* the configuration it is to store, or None
  plan,      \* its plan for the store, or None
  issued,    \* the account ids handed out
  jobs,      \* how many jobs have been started
  imported,  \* history: the accounts imported from an existing login
  loggedOut  \* history: the identities logged out and not logged in again

files == <<catalog, active, base, config>>
memory == <<seen, target, source, plan>>
history == <<imported, loggedOut>>
vars == <<files, gate, pc, job, memory, issued, jobs, history>>

Steps == {"off", "prepare", "observe", "boundary", "begin", "authorize", "load", "commit",
          "base", "config", "catalog", "active",
          "undoCatalog", "undoActive", "undoBase", "undoConfig", "undoDirs", "failed"}

TypeOK ==
  /\ catalog \in Catalog
  /\ active \in Account \cup {None}
  /\ base \in [App -> Config \cup {None}]
  /\ config \in [Account -> Config \cup {None}]
  /\ gate \in Proc \cup {None}
  /\ pc \in [Proc -> Steps]
  /\ job \in [Proc -> Job \cup {None}]
  /\ seen \in [Proc -> SUBSET Scope]
  /\ target \in [Proc -> SUBSET Scope]
  /\ source \in [Proc -> Config \cup {None}]
  /\ plan \in [Proc -> Plan \cup {None}]
  /\ issued \subseteq Account
  /\ jobs \in 0..MaxJobs
  /\ imported \subseteq Account
  /\ loggedOut \subseteq App \X User

-----------------------------------------------------------------------------
Set(f, k, v) == [x \in DOMAIN f \cup {k} |-> IF x = k THEN v ELSE f[x]]
Without(f, k) == Restrict(f, DOMAIN f \ {k})
WithApp(c, a, rec) == [c EXCEPT !.apps = Set(@, a, rec)]
WithAccount(c, i, rec) == [c EXCEPT !.accounts = Set(@, i, rec)]

Apps == DOMAIN catalog.apps
Accounts == DOMAIN catalog.accounts
Identity(i) == <<catalog.accounts[i].app, catalog.accounts[i].user>>

\* The account of an identity, as a set of at most one.
Known(a, u) == {i \in Accounts : Identity(i) = <<a, u>>}

Goto(p, step) == pc' = [pc EXCEPT ![p] = step]

\* The job returns or its process dies; either drops the gate.
Exit(p) ==
  /\ Goto(p, "off")
  /\ gate' = IF gate = p THEN None ELSE gate
  /\ job' = [job EXCEPT ![p] = None]
  /\ seen' = [seen EXCEPT ![p] = {}]
  /\ target' = [target EXCEPT ![p] = {}]
  /\ source' = [source EXCEPT ![p] = None]
  /\ plan' = [plan EXCEPT ![p] = None]

\* A step that only moves on.
Proceed(p, step) == Goto(p, step) /\ UNCHANGED <<gate, job, memory>>

\* What a configuration of the official CLI becomes: approved settings, no users.
Sanitized(s) == [app |-> s.app, users |-> {}, lang |-> s.lang]

\* The same with the one user it has.
Isolated(s) == [app |-> s.app, users |-> s.users, lang |-> s.lang]

\* A configuration before its optional settings are known.
Draft(a, users) == [app |-> a, users |-> users, lang |-> CHOOSE l \in Lang : TRUE]

Init ==
  /\ catalog \in Before
  /\ active \in Accounts \cup {None}
  /\ base = [a \in App |-> IF a \in Apps THEN Draft(a, {}) ELSE None]
  /\ config = [i \in Account |->
                 IF i \in Accounts
                   THEN Draft(catalog.accounts[i].app, {catalog.accounts[i].user})
                   ELSE None]
  /\ issued = Accounts
  /\ gate = None
  /\ pc = [p \in Proc |-> "off"]
  /\ job = [p \in Proc |-> None]
  /\ seen = [p \in Proc |-> {}]
  /\ target = [p \in Proc |-> {}]
  /\ source = [p \in Proc |-> None]
  /\ plan = [p \in Proc |-> None]
  /\ jobs = 0
  /\ imported = {}
  /\ loggedOut = {}

FirstStep(j) ==
  CASE j.op = "import" -> "prepare"
    [] j.op \in {"app", "refresh", "login", "reauth"} -> "observe"
    [] OTHER -> "commit"

Start(p, j) ==
  /\ pc[p] = "off" /\ jobs < MaxJobs
  /\ jobs' = jobs + 1
  /\ job' = [job EXCEPT ![p] = j]
  /\ Goto(p, FirstStep(j))
  /\ UNCHANGED <<files, gate, memory, issued, history>>

-----------------------------------------------------------------------------
(* What a boundary does to a policy. *)

\* Mutant of Narrowed: newly recommended scopes are added.
NarrowedWide(policy, available) == (policy \cup Core) \cap available

\* Mutant of Narrowed: a policy without a scope left stays empty.
NarrowedEmpty(policy, available) == policy \cap available

\* It keeps what is still inside; if that is nothing, the default is set up.
Narrowed(policy, available) ==
  LET kept == policy \cap available
  IN IF kept = {} THEN available \cap Core ELSE kept

\* An app's record once its boundary has been observed.
Bounded(rec, available) ==
  [rec EXCEPT !.available = available, !.policy = Narrowed(@, available)]

-----------------------------------------------------------------------------
(* Outside the gate: the CLI is asked. *)

\* The identity of an existing login is verified in a copy of its directory.
Prepare(p) ==
  LET s == job[p].source
  IN /\ pc[p] = "prepare"
     /\ \/ /\ s.safe /\ \E u \in User : s.users = {u}
           /\ \E scopes \in SUBSET Scope : seen' = [seen EXCEPT ![p] = scopes]
           /\ source' = [source EXCEPT ![p] = Isolated(s)]
           /\ loggedOut' = loggedOut \ ({s.app} \X s.users)
           /\ Goto(p, "load")
           /\ UNCHANGED <<gate, job, target, plan>>
        \/ Exit(p) /\ UNCHANGED loggedOut
     /\ UNCHANGED <<files, issued, jobs, imported>>

\* Which app a job asks about, and for whom; none if it is not there.  "fresh" is
\* import_existing_app, which refuses an app that is.
Subjects(j) ==
  CASE j.op = "app" ->
         {Sanitized(j.source) : x \in {s \in {j.source} :
                                         s.safe /\ (j.fresh => s.app \notin Apps)}}
    [] j.op = "refresh" -> {Draft(a, {}) : a \in {j.app} \cap Apps}
    [] j.op = "login"   -> {Draft(a, {j.user}) : a \in {j.app} \cap Apps}
    [] j.op = "reauth"  -> {Draft(catalog.accounts[i].app, {catalog.accounts[i].user}) :
                              i \in {j.account} \cap Accounts}

\* The scopes of the app are read.
Observe(p) ==
  /\ pc[p] = "observe"
  /\ \/ \E s \in Subjects(job[p]), scopes \in SUBSET Scope :
          /\ seen' = [seen EXCEPT ![p] = scopes]
          /\ source' = [source EXCEPT ![p] = s]
          /\ Goto(p, IF job[p].op = "app" THEN "load" ELSE "boundary")
          /\ UNCHANGED <<gate, job, target, plan>>
     \/ Exit(p)
  /\ UNCHANGED <<files, issued, jobs, history>>

-----------------------------------------------------------------------------
(* Refreshing the boundary of an app, and logging in. *)

\* Under the gate: the boundary observed replaces the one recorded, whose policy
\* is narrowed.  A login goes on with that policy as its target.
Boundary(p) ==
  LET a == source[p].app
      policy == Narrowed(catalog.apps[a].policy, seen[p])
  IN /\ pc[p] = "boundary" /\ gate = None
     /\ \/ /\ a \in Apps
           /\ catalog' = WithApp(catalog, a, Bounded(catalog.apps[a], seen[p]))
           /\ IF job[p].op = "refresh" THEN Exit(p)
              ELSE /\ target' = [target EXCEPT ![p] = policy]
                   /\ Goto(p, "begin")
                   /\ UNCHANGED <<gate, job, seen, source, plan>>
        \/ Exit(p) /\ UNCHANGED catalog
     /\ UNCHANGED <<active, base, config, issued, jobs, history>>

\* The login is set up with the configuration of the app.
BeginLogin(p) ==
  LET a == source[p].app
  IN /\ pc[p] = "begin"
     /\ \/ /\ target[p] # {} /\ Cardinality(target[p]) <= MaxScopes
           /\ a \in Apps /\ base[a] # None
           /\ source' = [source EXCEPT ![p].lang = base[a].lang]
           /\ Goto(p, "authorize")
           /\ UNCHANGED <<gate, job, seen, target, plan>>
        \/ Exit(p)
     /\ UNCHANGED <<files, issued, jobs, history>>

\* The user confirms it, as the one expected and with all the scopes; or not.
Authorize(p) ==
  /\ pc[p] = "authorize"
  /\ \/ /\ loggedOut' = loggedOut \ ({source[p].app} \X source[p].users)
        /\ Proceed(p, "commit")
     \/ Exit(p) /\ UNCHANGED loggedOut
  /\ UNCHANGED <<files, issued, jobs, imported>>

-----------------------------------------------------------------------------
(* Jobs of one step under the gate.  Each may stop after any of its writes.   *)

Commit(p, op) == pc[p] = "commit" /\ job[p].op = op /\ gate = None /\ Exit(p)

\* The job ends without a change.
Refuse(p) ==
  /\ pc[p] = "commit" /\ gate = None
  /\ Exit(p)
  /\ UNCHANGED <<files, issued, jobs, history>>

\* A new account: its configuration, its record, and the route if there is none.
Register(p) ==
  LET s == source[p]
  IN /\ Commit(p, "login")
     /\ \E u \in s.users, i \in Account \ issued :
          /\ s.app \in Apps /\ Known(s.app, u) = {}
          /\ config' = [config EXCEPT ![i] = Isolated(s)]
          /\ \/ UNCHANGED <<catalog, active>>
             \/ /\ catalog' = WithAccount(catalog, i, [app |-> s.app, user |-> u,
                                                       alias |-> None, shared |-> FALSE])
                /\ active' \in {active, IF active = None THEN i ELSE active}
          /\ issued' = issued \cup {i}
     /\ UNCHANGED <<base, jobs, history>>

\* The account's configuration is replaced, and its record as far as it is
\* modelled stays.
Reauthorize(p) ==
  LET i == job[p].account
  IN /\ Commit(p, "reauth")
     /\ i \in Accounts /\ source[p].users = {catalog.accounts[i].user}
     /\ config' = [config EXCEPT ![i] = Isolated(source[p])]
     /\ UNCHANGED <<catalog, active, base, issued, jobs, history>>

\* The user's choice of scopes, checked against the boundary under the gate.
SetPolicy(p) ==
  LET j == job[p]
  IN /\ Commit(p, "policy")
     /\ Cardinality(j.selected) <= MaxScopes
     /\ j.app \in Apps /\ j.selected \subseteq catalog.apps[j.app].available
     /\ catalog' = WithApp(catalog, j.app,
                           [catalog.apps[j.app] EXCEPT !.policy = j.selected])
     /\ UNCHANGED <<active, base, config, issued, jobs, history>>

\* Opening the store narrows what an earlier release may have recorded.
Normalize(p) ==
  /\ Commit(p, "open")
  /\ catalog' = [catalog EXCEPT !.apps =
       [a \in Apps |-> [catalog.apps[a] EXCEPT
                         !.policy = Narrowed(@, catalog.apps[a].available)]]]
  /\ UNCHANGED <<active, base, config, issued, jobs, history>>

\* Mutant of Free: an alias has to be unique within its app only.
FreeInApp(i, alias) ==
  \A k \in Accounts \ {i} :
    catalog.accounts[k].alias = alias => catalog.accounts[k].app # catalog.accounts[i].app

\* No other account has this alias.
Free(i, alias) == \A k \in Accounts \ {i} : catalog.accounts[k].alias # alias

\* An alias is set, or cleared (None).
SetAlias(p) ==
  LET j == job[p]
      i == j.account
  IN /\ Commit(p, "alias")
     /\ i \in Accounts /\ (j.alias # None => Free(i, j.alias))
     /\ catalog' = WithAccount(catalog, i, [catalog.accounts[i] EXCEPT !.alias = j.alias])
     /\ UNCHANGED <<active, base, config, issued, jobs, history>>

\* An account is logged out unless it shares an existing login; then its record
\* goes, its directory, and the route to it.
Remove(p) ==
  LET i == job[p].account
      rest == [catalog EXCEPT !.accounts = Without(@, i)]
      heirs == IF DOMAIN rest.accounts = {} THEN {None} ELSE DOMAIN rest.accounts
  IN /\ Commit(p, "remove")
     /\ i \in Accounts
     /\ loggedOut' = IF catalog.accounts[i].shared THEN loggedOut
                     ELSE loggedOut \cup {Identity(i)}
     /\ \/ UNCHANGED <<catalog, active, config>>
        \/ /\ catalog' = rest
           /\ config' \in {config, [config EXCEPT ![i] = None]}
           /\ active' \in {active} \cup (IF active = i THEN heirs ELSE {})
     /\ UNCHANGED <<base, issued, jobs, imported>>

-----------------------------------------------------------------------------
(* Imports: what is to be saved is worked out under the gate, and written.    *)

\* An app's record with a new boundary; a new app gets the default policy.
AppWith(a, label, scopes) ==
  [label     |-> label,
   available |-> scopes,
   policy    |-> Narrowed(IF a \in Apps THEN catalog.apps[a].policy ELSE {}, scopes)]

\* Mutant of Shared: the account stays as it is.
SharedNot(i) == catalog.accounts[i]

\* Mutant of Shared: the account is made anew.
SharedAnew(i) == [catalog.accounts[i] EXCEPT !.alias = None, !.shared = TRUE]

\* An account that is there already shares the existing login from now on.
Shared(i) == [catalog.accounts[i] EXCEPT !.shared = TRUE]

\* Mutant of Holders: nobody looks.
HoldersUnseen(a, u) == {}

\* The account that the import is about, if it is there.
Holders(a, u) == Known(a, u)

\* What the import finds; a new app has a directory of its own, with nothing in it.
PlanFor(p, i, next) ==
  [found |-> catalog, active |-> active,
   base |-> IF source[p].app \in Apps THEN base[source[p].app] ELSE None,
   config |-> IF i = None THEN None ELSE config[i],
   next |-> next, account |-> i, clean |-> TRUE]

Locked(p) == pc[p] = "load" /\ gate = None /\ gate' = p

\* import_existing_account_config: an app keeps its label.
LoadAccount(p) ==
  LET s == source[p]
      label == IF s.app \in Apps THEN catalog.apps[s.app].label ELSE job[p].label
      withApp == WithApp(catalog, s.app, AppWith(s.app, label, seen[p]))
  IN /\ Locked(p) /\ job[p].op = "import"
     /\ \E u \in s.users :
          \/ \E i \in Holders(s.app, u) :
               /\ plan' = [plan EXCEPT ![p] =
                             PlanFor(p, i, WithAccount(withApp, i, Shared(i)))]
               /\ UNCHANGED issued
          \/ \E i \in Account \ issued :
               /\ Holders(s.app, u) = {}
               /\ plan' = [plan EXCEPT ![p] =
                             PlanFor(p, i, WithAccount(withApp, i,
                               [app |-> s.app, user |-> u, alias |-> None, shared |-> TRUE]))]
               /\ issued' = issued \cup {i}
     /\ Goto(p, "base")
     /\ UNCHANGED <<files, job, seen, target, source, jobs, history>>

\* import_official_config: an app takes the label it is given.
LoadApp(p) ==
  LET a == source[p].app
  IN /\ Locked(p) /\ job[p].op = "app"
     /\ plan' = [plan EXCEPT ![p] =
          PlanFor(p, None, WithApp(catalog, a, AppWith(a, job[p].label, seen[p])))]
     /\ Goto(p, "base")
     /\ UNCHANGED <<files, job, seen, target, source, issued, jobs, history>>

\* Where a failed write leads: an account's import takes back what it has written,
\* an app's ends.
Fail(p) ==
  IF job[p].op = "import" THEN Proceed(p, "undoCatalog") ELSE Exit(p)

\* The app's configuration, in which there are no users.
WriteBase(p) ==
  /\ pc[p] = "base"
  /\ \/ /\ base' = [base EXCEPT ![source[p].app] = Sanitized(source[p])]
        /\ Proceed(p, IF job[p].op = "import" THEN "config" ELSE "catalog")
     \/ Fail(p) /\ UNCHANGED base
  /\ UNCHANGED <<catalog, active, config, issued, jobs, history>>

\* The account's.
WriteConfig(p) ==
  /\ pc[p] = "config"
  /\ \/ /\ config' = [config EXCEPT ![plan[p].account] = Isolated(source[p])]
        /\ Proceed(p, "catalog")
     \/ Fail(p) /\ UNCHANGED config
  /\ UNCHANGED <<catalog, active, base, issued, jobs, history>>

\* The import is complete.
Imported(p) ==
  /\ imported' = imported \cup {plan[p].account}
  /\ Exit(p)

SaveCatalog(p) ==
  /\ pc[p] = "catalog"
  /\ \/ /\ catalog' = plan[p].next
        /\ IF job[p].op = "app" THEN Exit(p) /\ UNCHANGED imported
           ELSE IF plan[p].active = None THEN Proceed(p, "active") /\ UNCHANGED imported
           ELSE Imported(p)
     \/ Fail(p) /\ UNCHANGED <<catalog, imported>>
  /\ UNCHANGED <<active, base, config, issued, jobs, loggedOut>>

\* The first account becomes the active one.
SaveActive(p) ==
  /\ pc[p] = "active"
  /\ \/ active' = plan[p].account /\ Imported(p)
     \/ Fail(p) /\ UNCHANGED <<active, imported>>
  /\ UNCHANGED <<catalog, base, config, issued, jobs, loggedOut>>

(* The rollback. *)

\* Mutant of UndoCatalog: the files are taken back whatever became of the catalog.
UndoCatalogAnyway(p) ==
  /\ pc[p] = "undoCatalog"
  /\ catalog' \in {catalog, plan[p].found}
  /\ Proceed(p, "undoActive")
  /\ UNCHANGED <<active, base, config, issued, jobs, history>>

\* The catalog is first; when it cannot be restored, the new files stay.
UndoCatalog(p) ==
  /\ pc[p] = "undoCatalog"
  /\ \/ catalog' = plan[p].found /\ Proceed(p, "undoActive")
     \/ Exit(p) /\ UNCHANGED catalog
  /\ UNCHANGED <<active, base, config, issued, jobs, history>>

\* Each of the others may fail; the rest is restored all the same.
Unclean(p, step) ==
  /\ plan' = [plan EXCEPT ![p].clean = FALSE]
  /\ Goto(p, step)
  /\ UNCHANGED <<gate, job, seen, target, source>>

UndoActive(p) ==
  /\ pc[p] = "undoActive"
  /\ \/ active' = plan[p].active /\ Proceed(p, "undoBase")
     \/ Unclean(p, "undoBase") /\ UNCHANGED active
  /\ UNCHANGED <<catalog, base, config, issued, jobs, history>>

\* Mutant of UndoBase: the app's configuration is left as written.
UndoBaseNot(p) ==
  /\ pc[p] = "undoBase"
  /\ Proceed(p, "undoConfig")
  /\ UNCHANGED <<files, issued, jobs, history>>

UndoBase(p) ==
  /\ pc[p] = "undoBase"
  /\ \/ /\ base' = [base EXCEPT ![source[p].app] = plan[p].base]
        /\ Proceed(p, "undoConfig")
     \/ Unclean(p, "undoConfig") /\ UNCHANGED base
  /\ UNCHANGED <<catalog, active, config, issued, jobs, history>>

UndoConfig(p) ==
  /\ pc[p] = "undoConfig"
  /\ \/ /\ config' = [config EXCEPT ![plan[p].account] = plan[p].config]
        /\ Proceed(p, "undoDirs")
     \/ Unclean(p, "undoDirs") /\ UNCHANGED config
  /\ UNCHANGED <<catalog, active, base, issued, jobs, history>>

\* The directories of what would have been new are deleted; a failure is ignored.
UndoDirs(p) ==
  LET a == source[p].app
      i == plan[p].account
  IN /\ pc[p] = "undoDirs"
     /\ config' \in {config} \cup
          (IF i \in Accounts THEN {} ELSE {[config EXCEPT ![i] = None]})
     /\ base' \in {base} \cup
          (IF a \in Apps THEN {} ELSE {[base EXCEPT ![a] = None]})
     /\ Proceed(p, "failed")
     /\ UNCHANGED <<catalog, active, issued, jobs, history>>

\* The error is reported, as incomplete if a restore failed.
Report(p) ==
  /\ pc[p] = "failed"
  /\ Exit(p)
  /\ UNCHANGED <<files, issued, jobs, history>>

-----------------------------------------------------------------------------
\* A process dies.  The files stay as they are.
Crash(p) ==
  /\ pc[p] # "off"
  /\ Exit(p)
  /\ UNCHANGED <<files, issued, jobs, history>>

Next ==
  \E p \in Proc :
    \/ \E j \in Jobs : Start(p, j)
    \/ Prepare(p) \/ Observe(p) \/ Boundary(p) \/ BeginLogin(p) \/ Authorize(p)
    \/ Refuse(p) \/ Register(p) \/ Reauthorize(p) \/ SetPolicy(p) \/ SetAlias(p)
    \/ Remove(p) \/ Normalize(p)
    \/ LoadAccount(p) \/ LoadApp(p)
    \/ WriteBase(p) \/ WriteConfig(p) \/ SaveCatalog(p) \/ SaveActive(p)
    \/ UndoCatalog(p) \/ UndoActive(p) \/ UndoBase(p) \/ UndoConfig(p) \/ UndoDirs(p)
    \/ Report(p)
    \/ Crash(p)

Spec == Init /\ [][Next]_vars

-----------------------------------------------------------------------------
(* Properties. *)

\* The configurations on disk that a catalog relies on.
IsBase(f, a) == f # None /\ f.app = a /\ f.users = {}
IsConfig(f, rec) == f # None /\ f.app = rec.app /\ f.users = {rec.user}
Backed(c) ==
  /\ \A a \in DOMAIN c.apps : IsBase(base[a], a)
  /\ \A i \in DOMAIN c.accounts : IsConfig(config[i], c.accounts[i])

\* The catalog names only what has its configuration on disk, made for its app and
\* its one user: at every step of every import and of its rollback, whichever
\* writes fail and wherever the process dies ("the committed catalog cannot be
\* left with dangling paths", account.rs).
ConfigsBacked == Backed(catalog)

\* An import that reports its error, and not an incomplete rollback, leaves the
\* store as it found it.
ImportUndone ==
  \A p \in Proc :
    pc[p] = "failed" /\ plan[p].clean =>
      /\ catalog = plan[p].found
      /\ active = plan[p].active
      /\ base[source[p].app] = plan[p].base
      /\ config[plan[p].account] = plan[p].config

\* "Clamp only - do not expand a deliberate user subset back to full default"
\* (account.rs): but for the user's choice and a rollback, a policy of which
\* something is left gets no scope it did not have.
PolicyOnlyNarrows ==
  [][ \A a \in Apps \cap Apps' :
        \/ catalog'.apps[a].policy \subseteq catalog.apps[a].policy
        \/ catalog.apps[a].policy \cap catalog'.apps[a].available = {}
        \/ \E p \in Proc : pc[p] = "commit" /\ job[p].op = "policy"
        \/ \E p \in Proc : pc[p] = "undoCatalog" ]_catalog

\* A login has scopes to ask for, all inside the boundary it has read, if that
\* boundary has any core scope.
LoginCanAsk ==
  \A p \in Proc :
    pc[p] = "begin" =>
      /\ target[p] \subseteq seen[p]
      /\ seen[p] \cap Core # {} => target[p] # {}

\* A user of an app has one account, whether it came by an import or by a login.
NoDuplicates ==
  \A i, k \in Accounts : Identity(i) = Identity(k) => i = k

\* What is recorded of an account stays: its identity, its alias but for the user's
\* change of it, and that it shares an existing login, but for a rollback.
RecordsKept ==
  [][ \A i \in Accounts \cap Accounts' :
        LET old == catalog.accounts[i]
            new == catalog'.accounts[i]
        IN /\ new.app = old.app /\ new.user = old.user
           /\ \/ new.alias = old.alias
              \/ \E p \in Proc : pc[p] = "commit" /\ job[p].op = "alias"
           /\ \/ old.shared => new.shared
              \/ \E p \in Proc : pc[p] = "undoCatalog" ]_catalog

\* "Removing their LPC metadata must leave that login untouched" (account.rs): an
\* imported account's login is not logged out, whatever else is done to the account.
SharedLoginsKept ==
  [][ \A i \in imported \cap Accounts :
        Identity(i) \in loggedOut' => Identity(i) \in loggedOut ]_loggedOut

\* An id or an alias is never ambiguous, within an app or not, and the id of an app
\* means that app, whatever the others are called.
SelectorsResolve ==
  \A sel \in Selector :
    /\ sel.by \in {"id", "alias"} => Cardinality(Matches(catalog, sel)) <= 1
    /\ sel.app \in Apps =>
         \A i \in Matches(catalog, sel) : catalog.accounts[i].app = sel.app

-----------------------------------------------------------------------------
(* The inductive invariant. *)

Undoing == {"undoCatalog", "undoActive", "undoBase", "undoConfig", "undoDirs", "failed"}
Gated == {"base", "config", "catalog", "active"} \cup Undoing

\* The steps of a login or a reauthorization once it knows the app.
Asked == {"boundary", "begin", "authorize", "commit"}

\* The gate is with the import that is between taking it and its end.
GateHeld == \A p \in Proc : pc[p] \in Gated <=> gate = p

\* A job is at a step of its own; what is taken back is an account's import.
JobAt(p) ==
  /\ pc[p] = "off" <=> job[p] = None
  /\ pc[p] = "prepare" => job[p].op = "import"
  /\ pc[p] = "observe" => job[p].op \in {"app", "refresh", "login", "reauth"}
  /\ pc[p] = "boundary" => job[p].op \in {"refresh", "login", "reauth"}
  /\ pc[p] \in {"begin", "authorize"} => job[p].op \in {"login", "reauth"}
  /\ pc[p] = "load" \/ pc[p] \in Gated => job[p].op \in {"import", "app"}
  /\ pc[p] \in {"config", "active"} \cup Undoing => job[p].op = "import"

\* What it is to store is known, and an account's is for one user.
SourceAt(p) ==
  /\ pc[p] \in {"boundary", "begin", "authorize", "load"} \cup Gated => source[p] # None
  /\ \/ pc[p] \in Asked /\ job[p].op \in {"login", "reauth"}
     \/ pc[p] \in {"load"} \cup Gated /\ job[p].op = "import"
     => source[p] # None /\ \E u \in User : source[p].users = {u}

\* The ids of the accounts that are recorded, on disk, or have been imported, have
\* been handed out.
IdsIssued ==
  /\ Accounts \subseteq issued /\ imported \subseteq issued
  /\ \A i \in Account : config[i] # None => i \in issued

\* The records an import adds to, or changes, are those of its app and its account;
\* these it may only narrow, and share.
Extends(next, found, a, i) ==
  /\ DOMAIN found.apps \subseteq DOMAIN next.apps
  /\ DOMAIN next.apps \subseteq DOMAIN found.apps \cup {a}
  /\ DOMAIN found.accounts \subseteq DOMAIN next.accounts
  /\ DOMAIN next.accounts \subseteq DOMAIN found.accounts \cup {i}
  /\ \A b \in DOMAIN found.apps :
       LET kept == found.apps[b].policy \cap next.apps[b].available
       IN kept # {} => next.apps[b].policy \subseteq kept
  /\ \A k \in DOMAIN found.accounts :
       /\ next.accounts[k].app = found.accounts[k].app
       /\ next.accounts[k].user = found.accounts[k].user
       /\ next.accounts[k].alias = found.accounts[k].alias
       /\ found.accounts[k].shared => next.accounts[k].shared

\* What an import found, and what it is to save, are both as catalogs should be, and
\* agree with its source.
PlanSound(p) ==
  LET pl == plan[p]
      a == source[p].app
      i == pl.account
  IN /\ pl # None
     /\ Consistent(pl.found) /\ Consistent(pl.next)
     /\ Extends(pl.next, pl.found, a, i)
     /\ IF a \in DOMAIN pl.found.apps THEN IsBase(pl.base, a) ELSE pl.base = None
     /\ job[p].op = "app" => i = None
     /\ job[p].op = "import" =>
          /\ i \in issued /\ i \in DOMAIN pl.next.accounts
          /\ pl.next.accounts[i].app = a /\ pl.next.accounts[i].shared
          /\ source[p].users = {pl.next.accounts[i].user}
          /\ IF i \in DOMAIN pl.found.accounts
               THEN IsConfig(pl.config, pl.next.accounts[i]) ELSE pl.config = None

\* While it has the gate the catalog is the one or the other, and the configurations
\* serve, whatever has been written, the one it found.
StoreAt(p) ==
  LET pl == plan[p]
  IN /\ Backed(pl.found)
     /\ active = pl.active
     /\ catalog = IF pc[p] = "active" THEN pl.next
                  ELSE IF pc[p] = "undoCatalog" /\ catalog # pl.found THEN pl.next
                  ELSE pl.found

PlanAt(p) == pc[p] \in Gated => PlanSound(p) /\ StoreAt(p)

\* How far the writes, and the rollback, have come.
WrittenAt(p) ==
  LET pl == plan[p]
      a == source[p].app
  IN /\ pc[p] \in {"config", "catalog", "active"} => IsBase(base[a], a)
     /\ pc[p] \in {"catalog", "active"} /\ job[p].op = "import" =>
          IsConfig(config[pl.account], pl.next.accounts[pl.account])
     /\ pc[p] \in {"undoConfig", "undoDirs", "failed"} /\ pl.clean => base[a] = pl.base
     /\ pc[p] \in {"undoDirs", "failed"} /\ pl.clean => config[pl.account] = pl.config

\* An imported account shares its login, and so it does when an import is undone.
SharedSince(c) == \A i \in imported \cap DOMAIN c.accounts : c.accounts[i].shared
ImportedShare ==
  /\ SharedSince(catalog)
  /\ \A p \in Proc : pc[p] \in Gated => SharedSince(plan[p].found)

\* A reauthorization that has begun is about the app its account has, in the catalog
\* and in any that is to be saved.
InAppOf(p, c) ==
  LET i == job[p].account
  IN i \in DOMAIN c.accounts => c.accounts[i].app = source[p].app
ReauthsAgree ==
  \A p \in Proc :
    pc[p] \in Asked /\ job[p].op = "reauth" =>
      /\ job[p].account \in issued
      /\ InAppOf(p, catalog)
      /\ \A q \in Proc : pc[q] \in Gated => InAppOf(p, plan[q].next)

IInv ==
  /\ TypeOK /\ GateHeld /\ IdsIssued /\ Consistent(catalog) /\ ConfigsBacked
  /\ \A p \in Proc : JobAt(p) /\ SourceAt(p) /\ PlanAt(p) /\ WrittenAt(p)
  /\ ImportedShare /\ LoginCanAsk /\ ReauthsAgree
=============================================================================
