------------------------ MODULE AccountRecordsProofs ------------------------
(***************************************************************************)
(* Proofs about AccountRecords, for any processes, apps, accounts, users,  *)
(* scopes and jobs.                                                        *)
(***************************************************************************)
EXTENDS AccountRecords, FiniteSetTheorems, TLAPS

-----------------------------------------------------------------------------
(* Records.  The types are used through these facts and stay folded.         *)

LEMMA CatalogFields ==
  ASSUME NEW c \in Catalog
  PROVE  /\ c = [apps |-> c.apps, accounts |-> c.accounts]
         /\ DOMAIN c.apps \in SUBSET App /\ DOMAIN c.accounts \in SUBSET Account
         /\ c.apps \in [DOMAIN c.apps -> AppRec]
         /\ c.accounts \in [DOMAIN c.accounts -> AccountRec]
<1>1. /\ c = [apps |-> c.apps, accounts |-> c.accounts]
      /\ c.apps \in UNION {[A -> AppRec] : A \in SUBSET App}
      /\ c.accounts \in UNION {[C -> AccountRec] : C \in SUBSET Account}
  BY DEF Catalog
<1>2. PICK A \in SUBSET App : c.apps \in [A -> AppRec]
  BY <1>1
<1>3. PICK C \in SUBSET Account : c.accounts \in [C -> AccountRec]
  BY <1>1
<1> QED BY <1>1, <1>2, <1>3

LEMMA CatalogMade ==
  ASSUME NEW A \in SUBSET App, NEW f \in [A -> AppRec],
         NEW C \in SUBSET Account, NEW g \in [C -> AccountRec]
  PROVE  [apps |-> f, accounts |-> g] \in Catalog
<1>1. f \in UNION {[B -> AppRec] : B \in SUBSET App}
  OBVIOUS
<1>2. g \in UNION {[B -> AccountRec] : B \in SUBSET Account}
  OBVIOUS
<1> QED BY <1>1, <1>2 DEF Catalog

\* A catalog with an app's record.
LEMMA AppAdded ==
  ASSUME NEW c \in Catalog, NEW a \in App, NEW rec \in AppRec
  PROVE  /\ WithApp(c, a, rec) \in Catalog
         /\ WithApp(c, a, rec).accounts = c.accounts
         /\ DOMAIN WithApp(c, a, rec).apps = DOMAIN c.apps \cup {a}
         /\ WithApp(c, a, rec).apps[a] = rec
         /\ \A b \in DOMAIN c.apps \ {a} : WithApp(c, a, rec).apps[b] = c.apps[b]
<1> DEFINE f == Set(c.apps, a, rec)
<1>1. WithApp(c, a, rec) = [apps |-> f, accounts |-> c.accounts]
  BY CatalogFields DEF WithApp
<1>2. /\ f \in [DOMAIN c.apps \cup {a} -> AppRec]
      /\ f[a] = rec /\ \A b \in DOMAIN c.apps \ {a} : f[b] = c.apps[b]
  BY CatalogFields DEF Set
<1> HIDE DEF f
<1>3. [apps |-> f, accounts |-> c.accounts] \in Catalog
  BY <1>2, CatalogMade, CatalogFields
<1> QED BY <1>1, <1>2, <1>3

\* A catalog with an account's record.
LEMMA AccountAdded ==
  ASSUME NEW c \in Catalog, NEW i \in Account, NEW rec \in AccountRec
  PROVE  /\ WithAccount(c, i, rec) \in Catalog
         /\ WithAccount(c, i, rec).apps = c.apps
         /\ DOMAIN WithAccount(c, i, rec).accounts = DOMAIN c.accounts \cup {i}
         /\ WithAccount(c, i, rec).accounts[i] = rec
         /\ \A k \in DOMAIN c.accounts \ {i} :
              WithAccount(c, i, rec).accounts[k] = c.accounts[k]
<1> DEFINE f == Set(c.accounts, i, rec)
<1>1. WithAccount(c, i, rec) = [apps |-> c.apps, accounts |-> f]
  BY CatalogFields DEF WithAccount
<1>2. /\ f \in [DOMAIN c.accounts \cup {i} -> AccountRec]
      /\ f[i] = rec /\ \A k \in DOMAIN c.accounts \ {i} : f[k] = c.accounts[k]
  BY CatalogFields DEF Set
<1> HIDE DEF f
<1>3. [apps |-> c.apps, accounts |-> f] \in Catalog
  BY <1>2, CatalogMade, CatalogFields
<1> QED BY <1>1, <1>2, <1>3

\* A catalog without an account.
LEMMA AccountRemoved ==
  ASSUME NEW c \in Catalog, NEW i
  PROVE  LET d == [c EXCEPT !.accounts = Without(@, i)]
         IN /\ d \in Catalog /\ d.apps = c.apps
            /\ DOMAIN d.accounts = DOMAIN c.accounts \ {i}
            /\ \A k \in DOMAIN d.accounts : d.accounts[k] = c.accounts[k]
<1> DEFINE f == Without(c.accounts, i)
           d == [c EXCEPT !.accounts = f]
<1>1. d = [apps |-> c.apps, accounts |-> f]
  BY CatalogFields
<1>2. /\ f \in [DOMAIN c.accounts \ {i} -> AccountRec]
      /\ \A k \in DOMAIN c.accounts \ {i} : f[k] = c.accounts[k]
  BY CatalogFields DEF Without, Restrict
<1> HIDE DEF f
<1>3. [apps |-> c.apps, accounts |-> f] \in Catalog
  BY <1>2, CatalogMade, CatalogFields
<1>4. /\ d \in Catalog /\ d.apps = c.apps
      /\ DOMAIN d.accounts = DOMAIN c.accounts \ {i}
      /\ \A k \in DOMAIN d.accounts : d.accounts[k] = c.accounts[k]
  BY <1>1, <1>2, <1>3
<1> QED BY <1>4 DEF f

\* A policy never exceeds its boundary, loses only what that lost, and is not empty
\* as long as the boundary has a core scope.
LEMMA NarrowedFits ==
  ASSUME NEW policy \in SUBSET Scope, NEW available \in SUBSET Scope
  PROVE  /\ Narrowed(policy, available) \in SUBSET Scope
         /\ Narrowed(policy, available) \subseteq available
         /\ policy \cap available # {} =>
              Narrowed(policy, available) = policy \cap available
         /\ available \cap Core # {} => Narrowed(policy, available) # {}
  BY DEF Narrowed

LEMMA AppFields ==
  ASSUME NEW rec \in AppRec
  PROVE  /\ rec.label \in Label
         /\ rec.available \in SUBSET Scope /\ rec.policy \in SUBSET Scope
  BY DEF AppRec

LEMMA PolicyChanged ==
  ASSUME NEW rec \in AppRec, NEW policy \in SUBSET Scope
  PROVE  LET new == [rec EXCEPT !.policy = policy]
         IN new \in AppRec /\ new.policy = policy /\ new.available = rec.available
  BY DEF AppRec

LEMMA BoundaryChanged ==
  ASSUME NEW rec \in AppRec, NEW available \in SUBSET Scope
  PROVE  /\ Bounded(rec, available) \in AppRec
         /\ Bounded(rec, available).available = available
         /\ Bounded(rec, available).policy = Narrowed(rec.policy, available)
<1> DEFINE policy == Narrowed(rec.policy, available)
<1>1. policy \in SUBSET Scope
  BY AppFields, NarrowedFits
<1> HIDE DEF policy
<1>2. /\ [rec EXCEPT !.available = available, !.policy = policy] \in AppRec
      /\ [rec EXCEPT !.available = available, !.policy = policy].available = available
      /\ [rec EXCEPT !.available = available, !.policy = policy].policy = policy
  BY <1>1 DEF AppRec
<1>3. Bounded(rec, available)
        = [rec EXCEPT !.available = available, !.policy = policy]
  BY DEF Bounded, policy, AppRec
<1>4. QED
  BY <1>2, <1>3 DEF policy

LEMMA AccountFields ==
  ASSUME NEW rec \in AccountRec
  PROVE  /\ rec.app \in App /\ rec.user \in User
         /\ rec.alias \in Alias \cup {None} /\ rec.shared \in BOOLEAN
  BY DEF AccountRec

LEMMA AliasChanged ==
  ASSUME NEW rec \in AccountRec, NEW alias \in Alias \cup {None}
  PROVE  LET new == [rec EXCEPT !.alias = alias]
         IN /\ new \in AccountRec /\ new.app = rec.app /\ new.user = rec.user
            /\ new.alias = alias /\ new.shared = rec.shared
  BY DEF AccountRec

LEMMA MadeShared ==
  ASSUME NEW rec \in AccountRec
  PROVE  LET new == [rec EXCEPT !.shared = TRUE]
         IN /\ new \in AccountRec /\ new.app = rec.app /\ new.user = rec.user
            /\ new.alias = rec.alias /\ new.shared
  BY DEF AccountRec

LEMMA ConfigFields ==
  /\ \A c \in Config : /\ c.app \in App /\ c.users \in SUBSET User /\ c.lang \in Lang
                       /\ \A l \in Lang : /\ [c EXCEPT !.lang = l] \in Config
                                          /\ [c EXCEPT !.lang = l].app = c.app
                                          /\ [c EXCEPT !.lang = l].users = c.users
  /\ \A s \in Config \cup Source :
       /\ Sanitized(s) \in Config /\ Sanitized(s).app = s.app /\ Sanitized(s).users = {}
       /\ Isolated(s) \in Config /\ Isolated(s).app = s.app /\ Isolated(s).users = s.users
  /\ \A a \in App, users \in SUBSET User :
       /\ Draft(a, users) \in Config
       /\ Draft(a, users).app = a /\ Draft(a, users).users = users
<1>1. \E l \in Lang : TRUE
  BY AccountRecordsAssumption
<1>2. (CHOOSE l \in Lang : TRUE) \in Lang
  BY <1>1
<1>3. QED
  BY <1>2 DEF Config, Source, Sanitized, Isolated, Draft

LEMMA NoneApart ==
  /\ None \notin Proc /\ None \notin Job /\ None \notin Config /\ None \notin User
  /\ None \notin App /\ None \notin Account /\ None \notin Alias /\ None \notin Label
  BY AccountRecordsAssumption, SelectorsAssumption

\* What a job is about.
LEMMA JobFields ==
  ASSUME NEW j \in Job
  PROVE  /\ j.op \in {"import", "app", "refresh", "policy", "alias", "login", "reauth",
                      "remove", "open"}
         /\ j.op \in {"import", "app"} => j.label \in Label /\ j.source \in Source
         /\ j.op \in {"refresh", "policy", "login"} => j.app \in App
         /\ j.op = "policy" => j.selected \in SUBSET Scope
         /\ j.op = "login" => j.user \in User
         /\ j.op \in {"alias", "reauth", "remove"} => j.account \in Account
         /\ j.op = "alias" => j.alias \in Alias \cup {None}
  BY DEF Job

LEMMA PlanFields ==
  ASSUME NEW pl \in Plan
  PROVE  /\ pl # None
         /\ pl.found \in Catalog /\ pl.next \in Catalog
         /\ pl.active \in Account \cup {None} /\ pl.account \in Account \cup {None}
         /\ pl.base \in Config \cup {None} /\ pl.config \in Config \cup {None}
         /\ [pl EXCEPT !.clean = FALSE] \in Plan
         /\ [pl EXCEPT !.clean = FALSE].clean = FALSE
         /\ [pl EXCEPT !.clean = FALSE].found = pl.found
         /\ [pl EXCEPT !.clean = FALSE].next = pl.next
         /\ [pl EXCEPT !.clean = FALSE].active = pl.active
         /\ [pl EXCEPT !.clean = FALSE].account = pl.account
         /\ [pl EXCEPT !.clean = FALSE].base = pl.base
         /\ [pl EXCEPT !.clean = FALSE].config = pl.config
  BY AccountRecordsAssumption DEF Plan

-----------------------------------------------------------------------------
(* The invariant in parts: what is said of the files, of what a process has  *)
(* in memory, and of how one process stands to the files.                    *)

FilesTyped ==
  /\ catalog \in Catalog
  /\ active \in Account \cup {None}
  /\ base \in [App -> Config \cup {None}]
  /\ config \in [Account -> Config \cup {None}]
  /\ issued \subseteq Account
  /\ jobs \in 0..MaxJobs
  /\ imported \subseteq Account
  /\ loggedOut \subseteq App \X User

MemoryTyped ==
  /\ gate \in Proc \cup {None}
  /\ pc \in [Proc -> Steps]
  /\ job \in [Proc -> Job \cup {None}]
  /\ seen \in [Proc -> SUBSET Scope]
  /\ target \in [Proc -> SUBSET Scope]
  /\ source \in [Proc -> Config \cup {None}]
  /\ plan \in [Proc -> Plan \cup {None}]

FilesSound ==
  /\ FilesTyped
  /\ IdsIssued
  /\ Consistent(catalog)
  /\ ConfigsBacked
  /\ SharedSince(catalog)

Fits(p) ==
  /\ JobAt(p) /\ SourceAt(p) /\ PlanAt(p) /\ WrittenAt(p)
  /\ pc[p] \in Gated => SharedSince(plan[p].found)
  /\ pc[p] = "begin" => /\ target[p] \subseteq seen[p]
                        /\ seen[p] \cap Core # {} => target[p] # {}

\* Nothing in the memory of the other processes changes.
Alone(p) ==
  \A q \in Proc \ {p} :
    /\ pc'[q] = pc[q] /\ job'[q] = job[q] /\ seen'[q] = seen[q]
    /\ target'[q] = target[q] /\ source'[q] = source[q] /\ plan'[q] = plan[q]

LEMMA Parts ==
  IInv <=> /\ FilesSound /\ MemoryTyped /\ GateHeld /\ ReauthsAgree
           /\ \A p \in Proc : Fits(p)
  BY DEF IInv, FilesSound, FilesTyped, MemoryTyped, TypeOK, Fits, ImportedShare, LoginCanAsk

LEMMA PartsNext ==
  ASSUME FilesSound', MemoryTyped', GateHeld', ReauthsAgree', \A p \in Proc : Fits(p)'
  PROVE  IInv'
  BY DEF IInv, FilesSound, FilesTyped, MemoryTyped, TypeOK, Fits, ImportedShare, LoginCanAsk

\* A process that has taken the gate is not disturbed by another one: who changes
\* the files has the gate, or takes it for that.
LEMMA OthersFit ==
  ASSUME IInv, NEW p \in Proc, Alone(p), issued \subseteq issued',
         UNCHANGED <<files, imported>> \/ gate \in {None, p}
  PROVE  \A q \in Proc \ {p} : Fits(q)'
<1> SUFFICES ASSUME NEW q \in Proc, q # p PROVE Fits(q)'
  OBVIOUS
<1>1. /\ pc'[q] = pc[q] /\ job'[q] = job[q] /\ seen'[q] = seen[q]
      /\ target'[q] = target[q] /\ source'[q] = source[q] /\ plan'[q] = plan[q]
  BY DEF Alone
<1>2. Fits(q)
  BY Parts
<1>3. JobAt(q)' /\ SourceAt(q)'
  BY <1>1, <1>2 DEF Fits, JobAt, SourceAt
<1>4. pc'[q] = "begin" => /\ target'[q] \subseteq seen'[q]
                          /\ seen'[q] \cap Core # {} => target'[q] # {}
  BY <1>1, <1>2 DEF Fits
<1>5. CASE pc[q] \in Gated
  <2>1. gate = q
    BY <1>5 DEF IInv, GateHeld
  <2>2. UNCHANGED <<files, imported>>
    BY <2>1, NoneApart
  <2>3. PlanAt(q)'
    BY <1>1, <1>2, <1>5, <2>2 DEF files, Fits, PlanAt, PlanSound, StoreAt, Backed
  <2>4. WrittenAt(q)'
    BY <1>1, <1>2, <2>2 DEF files, Fits, WrittenAt
  <2>5. SharedSince(plan[q].found)'
    BY <1>1, <1>2, <1>5, <2>2 DEF Fits, SharedSince
  <2>6. QED
    BY <1>3, <1>4, <2>3, <2>4, <2>5 DEF Fits
<1>6. CASE pc[q] \notin Gated
  <2>1. PlanAt(q)'
    BY <1>1, <1>6 DEF PlanAt
  <2>2. WrittenAt(q)'
    BY <1>1, <1>6 DEF WrittenAt, Gated, Undoing
  <2>3. QED
    BY <1>1, <1>3, <1>4, <1>6, <2>1, <2>2 DEF Fits
<1>7. QED
  BY <1>5, <1>6

LEMMA FilesStay ==
  ASSUME IInv, UNCHANGED <<files, imported>>, issued \subseteq issued', issued' \subseteq Account,
         jobs' \in 0..MaxJobs, loggedOut' \subseteq App \X User
  PROVE  FilesSound'
  BY Parts DEF files, FilesSound, FilesTyped, IdsIssued, Accounts, ConfigsBacked, Backed,
               SharedSince

\* What one process does keeps the invariant if it keeps the files and itself sound.
LEMMA OneStep ==
  ASSUME IInv, NEW p \in Proc, Alone(p), MemoryTyped', GateHeld', FilesSound',
         Fits(p)', ReauthsAgree',
         issued \subseteq issued', UNCHANGED <<files, imported>> \/ gate \in {None, p}
  PROVE  IInv'
<1>1. \A q \in Proc : Fits(q)'
  BY OthersFit
<1>2. QED
  BY <1>1, PartsNext

\* An account of this catalog whose id has been handed out is, in the same app, in
\* the catalog that is there or in one that is to be saved.
Rooted(c) ==
  \A i \in issued \cap DOMAIN c.accounts :
    \/ i \in Accounts /\ catalog.accounts[i].app = c.accounts[i].app
    \/ \E q \in Proc : /\ pc[q] \in Gated
                       /\ i \in DOMAIN plan[q].next.accounts
                       /\ plan[q].next.accounts[i].app = c.accounts[i].app

\* What a process is to reauthorize, if that, is what it was to before.
SameSubject(p) ==
  pc'[p] \in Asked /\ job'[p].op = "reauth" =>
    /\ pc[p] \in Asked /\ job[p] = job'[p]
    /\ source[p].app = source'[p].app

LEMMA ReauthsStay ==
  ASSUME IInv, NEW p \in Proc, Alone(p), SameSubject(p), issued \subseteq issued',
         Rooted(catalog'), \A q \in Proc : pc'[q] \in Gated => Rooted(plan'[q].next)
  PROVE  ReauthsAgree'
<1> SUFFICES ASSUME NEW r \in Proc,
                    pc'[r] \in Asked, job'[r].op = "reauth"
             PROVE  /\ job'[r].account \in issued'
                    /\ InAppOf(r, catalog)'
                    /\ \A q \in Proc : pc'[q] \in Gated => InAppOf(r, plan[q].next)'
  BY DEF ReauthsAgree
<1>1. /\ pc[r] \in Asked /\ job[r] = job'[r] /\ job[r].op = "reauth"
      /\ source[r].app = source'[r].app
  BY DEF Alone, SameSubject
<1>2. /\ job[r].account \in issued
      /\ InAppOf(r, catalog)
      /\ \A q \in Proc : pc[q] \in Gated => InAppOf(r, plan[q].next)
  BY <1>1 DEF IInv, ReauthsAgree
<1>3. ASSUME NEW c, Rooted(c)
      PROVE  job[r].account \in DOMAIN c.accounts =>
               c.accounts[job[r].account].app = source[r].app
  BY <1>2, <1>3 DEF Rooted, InAppOf, Accounts
<1>4. InAppOf(r, catalog)'
  BY <1>1, <1>3 DEF InAppOf
<1>5. ASSUME NEW q \in Proc, pc'[q] \in Gated
      PROVE  InAppOf(r, plan[q].next)'
  BY <1>1, <1>3, <1>5 DEF InAppOf
<1>6. QED
  BY <1>1, <1>2, <1>4, <1>5

\* The usual case: neither the catalog nor what is to be saved changes.
LEMMA ReauthsUndisturbed ==
  ASSUME IInv, NEW p \in Proc, Alone(p), SameSubject(p), issued \subseteq issued',
         catalog' = catalog,
         pc'[p] \in Gated => pc[p] \in Gated /\ plan'[p].next = plan[p].next
  PROVE  ReauthsAgree'
<1>1. Rooted(catalog')
  BY DEF Rooted, Accounts
<1>2. ASSUME NEW q \in Proc, pc'[q] \in Gated
      PROVE  Rooted(plan'[q].next)
  BY <1>2 DEF Rooted, Alone
<1>3. QED
  BY <1>1, <1>2, ReauthsStay

LEMMA ExitFits ==
  ASSUME IInv, NEW p \in Proc, Exit(p)
  PROVE  /\ MemoryTyped' /\ GateHeld' /\ Alone(p) /\ Fits(p)'
         /\ SameSubject(p) /\ pc'[p] \notin Gated
<1> USE NoneApart DEF Exit, Goto
<1>1. MemoryTyped'
  BY DEF IInv, TypeOK, MemoryTyped, Steps
<1>2. pc'[p] = "off" /\ job'[p] = None
  BY DEF IInv, TypeOK
<1>3. GateHeld'
  BY DEF IInv, TypeOK, GateHeld, Gated, Undoing
<1>4. Alone(p)
  BY DEF IInv, TypeOK, Alone
<1>5. Fits(p)'
  BY <1>2 DEF Fits, JobAt, SourceAt, PlanAt, WrittenAt, Asked, Gated, Undoing
<1>6. SameSubject(p) /\ pc'[p] \notin Gated
  BY <1>2 DEF SameSubject, Asked, Gated, Undoing
<1>7. QED
  BY <1>1, <1>3, <1>4, <1>5, <1>6

\* A step that only moves on, and neither takes nor drops the gate.
LEMMA ProceedFits ==
  ASSUME IInv, NEW p \in Proc, NEW step \in Steps, Proceed(p, step),
         step \in Gated <=> pc[p] \in Gated
  PROVE  /\ MemoryTyped' /\ GateHeld' /\ Alone(p)
         /\ pc'[p] = step
         /\ UNCHANGED <<job, seen, target, source, plan>>
         /\ pc[p] \in Asked \/ step \notin Asked => SameSubject(p)
<1> USE NoneApart DEF Proceed, Goto, memory
<1>1. MemoryTyped'
  BY DEF IInv, TypeOK, MemoryTyped
<1>2. pc'[p] = step
  BY DEF IInv, TypeOK
<1>3. GateHeld'
  BY DEF IInv, TypeOK, GateHeld
<1>4. Alone(p)
  BY DEF IInv, TypeOK, Alone
<1>5. pc[p] \in Asked \/ step \notin Asked => SameSubject(p)
  BY <1>2 DEF SameSubject
<1>6. QED
  BY <1>1, <1>2, <1>3, <1>4, <1>5

-----------------------------------------------------------------------------
(* Steps that change no file.                                                *)

LEMMA ExitKeeps ==
  ASSUME IInv, NEW p \in Proc, Exit(p), UNCHANGED <<files, issued, jobs, history>>
  PROVE  IInv'
<1>1. FilesSound'
  BY FilesStay DEF IInv, TypeOK, history, files
<1>2. QED
  BY <1>1, ExitFits, ReauthsUndisturbed, OneStep DEF history, files

LEMMA StartKeeps ==
  ASSUME IInv, NEW p \in Proc, NEW j \in Jobs, Start(p, j)
  PROVE  IInv'
<1> USE NoneApart DEF Start, Goto
<1>1. j \in Job
  BY AccountRecordsAssumption
<1>2. /\ FirstStep(j) \in {"prepare", "observe", "commit"}
      /\ FirstStep(j) = "prepare" => j.op = "import"
      /\ FirstStep(j) = "observe" => j.op \in {"app", "refresh", "login", "reauth"}
      /\ FirstStep(j) = "commit" => j.op \notin {"login", "reauth"}
  BY <1>1, JobFields DEF FirstStep
<1>3. pc'[p] = FirstStep(j) /\ job'[p] = j /\ j # None
  BY <1>1 DEF IInv, TypeOK
<1>4. MemoryTyped'
  BY <1>1, <1>2 DEF IInv, TypeOK, MemoryTyped, memory, Steps
<1>5. GateHeld'
  BY <1>2 DEF IInv, TypeOK, GateHeld, Gated, Undoing, memory
<1>6. Alone(p)
  BY DEF IInv, TypeOK, Alone, memory
<1>7. Fits(p)'
  BY <1>2, <1>3 DEF Fits, JobAt, SourceAt, PlanAt, WrittenAt, Asked, Gated, Undoing
<1>8. jobs' \in 0..MaxJobs
  BY AccountRecordsAssumption DEF IInv, TypeOK
<1>9. FilesSound'
  BY <1>8, FilesStay DEF IInv, TypeOK, history
<1>10. SameSubject(p) /\ pc'[p] \notin Gated
  BY <1>2, <1>3 DEF SameSubject, Asked, Gated, Undoing
<1>11. QED
  BY <1>4, <1>5, <1>6, <1>7, <1>9, <1>10, ReauthsUndisturbed, OneStep DEF history, files

LEMMA PrepareKeeps ==
  ASSUME IInv, NEW p \in Proc, Prepare(p)
  PROVE  IInv'
<1> USE NoneApart DEF Goto
<1> DEFINE s == job[p].source
<1>1. pc[p] = "prepare" /\ job[p] \in Job /\ job[p].op = "import" /\ s \in Source
  BY Parts, JobFields DEF Prepare, IInv, TypeOK, JobAt
<1>2. FilesSound'
  BY FilesStay DEF Prepare, IInv, TypeOK
<1>3. CASE Exit(p)
  BY <1>2, <1>3, ExitFits, ReauthsUndisturbed, OneStep DEF Prepare, files
<1>4. CASE ~Exit(p)
  <2>1. PICK u \in User, scopes \in SUBSET Scope :
          /\ s.users = {u}
          /\ seen' = [seen EXCEPT ![p] = scopes]
          /\ source' = [source EXCEPT ![p] = Isolated(s)]
          /\ pc' = [pc EXCEPT ![p] = "load"]
          /\ UNCHANGED <<gate, job, target, plan>>
    BY <1>4 DEF Prepare
  <2>2. Isolated(s) \in Config /\ Isolated(s).users = {u}
    BY <1>1, <2>1, ConfigFields
  <2>3. MemoryTyped'
    BY <2>1, <2>2 DEF IInv, TypeOK, MemoryTyped, Steps
  <2>4. GateHeld'
    BY <1>1, <2>1 DEF IInv, TypeOK, GateHeld, Gated, Undoing
  <2>5. Alone(p)
    BY <2>1 DEF IInv, TypeOK, Alone
  <2>6. pc'[p] = "load" /\ job'[p] = job[p] /\ source'[p] = Isolated(s)
    BY <2>1 DEF IInv, TypeOK
  <2>7. Fits(p)'
    BY <1>1, <2>2, <2>6 DEF Fits, JobAt, SourceAt, PlanAt, WrittenAt, Asked, Gated, Undoing
  <2>8. SameSubject(p) /\ pc'[p] \notin Gated
    BY <1>1, <2>6 DEF SameSubject, Asked, Gated, Undoing
  <2>9. QED
    BY <1>2, <2>3, <2>4, <2>5, <2>7, <2>8, ReauthsUndisturbed, OneStep DEF Prepare, files
<1>5. QED
  BY <1>3, <1>4

LEMMA SubjectsAreConfigs ==
  ASSUME IInv, NEW j \in Job, j.op \in {"app", "refresh", "login", "reauth"},
         NEW s \in Subjects(j)
  PROVE  /\ s \in Config
         /\ j.op \in {"login", "reauth"} => \E u \in User : s.users = {u}
         /\ j.op = "reauth" =>
              j.account \in Accounts /\ catalog.accounts[j.account].app = s.app
<1>1. CASE j.op = "app"
  BY <1>1, JobFields, ConfigFields DEF Subjects
<1>2. CASE j.op = "refresh"
  BY <1>2, JobFields, ConfigFields DEF Subjects
<1>3. CASE j.op = "login"
  BY <1>3, JobFields, ConfigFields DEF Subjects
<1>4. CASE j.op = "reauth"
  <2>1. PICK i \in {j.account} \cap Accounts :
          s = Draft(catalog.accounts[i].app, {catalog.accounts[i].user})
    BY <1>4 DEF Subjects
  <2>2. catalog.accounts[i].app \in App /\ catalog.accounts[i].user \in User
    <3>1. catalog.accounts[i] \in AccountRec
      BY CatalogFields DEF IInv, TypeOK, Accounts
    <3>2. QED
      BY <3>1, AccountFields
  <2>3. /\ s \in Config /\ s.app = catalog.accounts[i].app
        /\ s.users = {catalog.accounts[i].user} /\ i = j.account /\ i \in Accounts
    BY <2>1, <2>2, ConfigFields
  <2>4. QED
    BY <1>4, <2>2, <2>3
<1>5. QED
  BY <1>1, <1>2, <1>3, <1>4

LEMMA ObserveKeeps ==
  ASSUME IInv, NEW p \in Proc, Observe(p)
  PROVE  IInv'
<1> USE NoneApart DEF Goto
<1>1. /\ pc[p] = "observe" /\ job[p] \in Job
      /\ job[p].op \in {"app", "refresh", "login", "reauth"}
  BY Parts DEF Observe, IInv, TypeOK, JobAt
<1>2. FilesSound'
  BY FilesStay DEF Observe, IInv, TypeOK, history
<1>3. CASE Exit(p)
  BY <1>2, <1>3, ExitFits, ReauthsUndisturbed, OneStep DEF Observe, history, files
<1>4. CASE ~Exit(p)
  <2>1. PICK s \in Subjects(job[p]), scopes \in SUBSET Scope :
          /\ seen' = [seen EXCEPT ![p] = scopes]
          /\ source' = [source EXCEPT ![p] = s]
          /\ pc' = [pc EXCEPT ![p] = IF job[p].op = "app" THEN "load" ELSE "boundary"]
          /\ UNCHANGED <<gate, job, target, plan>>
    BY <1>4 DEF Observe
  <2>2. /\ s \in Config
        /\ job[p].op \in {"login", "reauth"} => \E u \in User : s.users = {u}
        /\ job[p].op = "reauth" => /\ job[p].account \in Accounts
                                   /\ catalog.accounts[job[p].account].app = s.app
    BY <1>1, SubjectsAreConfigs
  <2>3. MemoryTyped'
    BY <2>1, <2>2 DEF IInv, TypeOK, MemoryTyped, Steps
  <2>4. GateHeld'
    BY <1>1, <2>1 DEF IInv, TypeOK, GateHeld, Gated, Undoing
  <2>5. Alone(p)
    BY <2>1 DEF IInv, TypeOK, Alone
  <2>6. /\ pc'[p] = IF job[p].op = "app" THEN "load" ELSE "boundary"
        /\ job'[p] = job[p] /\ source'[p] = s
    BY <2>1 DEF IInv, TypeOK
  <2>7. Fits(p)'
    BY <1>1, <2>2, <2>6 DEF Fits, JobAt, SourceAt, PlanAt, WrittenAt, Asked, Gated, Undoing
  <2>8. ReauthsAgree'
    <3>1. \A r \in Proc \ {p} :
            pc'[r] \in Asked /\ job'[r].op = "reauth" =>
              /\ job[r].account \in issued
              /\ InAppOf(r, catalog)
              /\ \A q \in Proc : pc[q] \in Gated => InAppOf(r, plan[q].next)
      BY <2>5 DEF Alone, IInv, ReauthsAgree
    <3>2. ASSUME job[p].op = "reauth", NEW q \in Proc, pc[q] \in Gated
          PROVE  LET i == job[p].account
                 IN i \in DOMAIN plan[q].next.accounts => plan[q].next.accounts[i].app = s.app
      <4>1. PlanAt(q)
        BY Parts DEF Fits
      <4>2. QED
        BY <2>2, <3>2, <4>1 DEF PlanAt, PlanSound, StoreAt, Extends, Accounts
    <3>3. job[p].op = "reauth" =>
            /\ job[p].account \in issued
            /\ LET i == job[p].account
               IN i \in DOMAIN catalog.accounts => catalog.accounts[i].app = s.app
      BY <2>2 DEF IInv, IdsIssued
    <3>4. \A q \in Proc : pc'[q] \in Gated => pc[q] \in Gated
      BY <2>5, <2>6 DEF Alone, Gated, Undoing
    <3>5. UNCHANGED <<catalog, issued, plan>> /\ \A r \in Proc \ {p} : source'[r] = source[r]
      BY <2>1, <2>5 DEF Observe, files, Alone
    <3>6. QED
      BY <2>1, <2>6, <3>1, <3>2, <3>3, <3>4, <3>5 DEF ReauthsAgree, InAppOf
  <2>9. QED
    BY <1>2, <2>3, <2>4, <2>5, <2>7, <2>8, OneStep DEF Observe, history
<1>5. QED
  BY <1>3, <1>4

LEMMA BeginLoginKeeps ==
  ASSUME IInv, NEW p \in Proc, BeginLogin(p)
  PROVE  IInv'
<1> USE NoneApart DEF Goto
<1> DEFINE a == source[p].app
<1>1. /\ pc[p] = "begin" /\ job[p] \in Job /\ job[p].op \in {"login", "reauth"}
      /\ source[p] \in Config /\ \E u \in User : source[p].users = {u}
  BY Parts DEF BeginLogin, IInv, TypeOK, JobAt, SourceAt, Asked
<1>2. FilesSound'
  BY FilesStay DEF BeginLogin, IInv, TypeOK, history
<1>3. CASE Exit(p)
  BY <1>2, <1>3, ExitFits, ReauthsUndisturbed, OneStep DEF BeginLogin, history, files
<1>4. CASE ~Exit(p)
  <2>1. /\ a \in Apps /\ base[a] # None
        /\ source' = [source EXCEPT ![p].lang = base[a].lang]
        /\ pc' = [pc EXCEPT ![p] = "authorize"]
        /\ UNCHANGED <<gate, job, seen, target, plan>>
    BY <1>4 DEF BeginLogin
  <2>2. base[a] \in Config
    BY <2>1, <1>1, ConfigFields DEF IInv, TypeOK
  <2>3. /\ [source[p] EXCEPT !.lang = base[a].lang] \in Config
        /\ source' = [source EXCEPT ![p] = [source[p] EXCEPT !.lang = base[a].lang]]
    BY <1>1, <2>1, <2>2, ConfigFields
  <2>4. MemoryTyped'
    BY <2>1, <2>3 DEF IInv, TypeOK, MemoryTyped, Steps
  <2>5. GateHeld'
    BY <1>1, <2>1 DEF IInv, TypeOK, GateHeld, Gated, Undoing
  <2>6. Alone(p)
    BY <2>1, <2>3 DEF IInv, TypeOK, Alone
  <2>7. /\ pc'[p] = "authorize" /\ job'[p] = job[p] /\ source'[p] \in Config
        /\ source'[p].users = source[p].users
    <3>1. source'[p] = [source[p] EXCEPT !.lang = base[a].lang]
      BY <2>3 DEF IInv, TypeOK
    <3>2. base[a].lang \in Lang
      BY <2>2, ConfigFields
    <3>3. QED
      BY <1>1, <2>1, <2>3, <3>1, <3>2, ConfigFields DEF IInv, TypeOK
  <2>8. Fits(p)'
    BY <1>1, <2>7 DEF Fits, JobAt, SourceAt, PlanAt, WrittenAt, Asked, Gated, Undoing
  <2>9. SameSubject(p) /\ pc'[p] \notin Gated
    BY <1>1, <2>2, <2>3, <2>7, ConfigFields DEF SameSubject, Asked, Gated, Undoing, IInv, TypeOK
  <2>10. QED
    BY <1>2, <2>4, <2>5, <2>6, <2>8, <2>9, ReauthsUndisturbed, OneStep
    DEF BeginLogin, history, files
<1>5. QED
  BY <1>3, <1>4

LEMMA AuthorizeKeeps ==
  ASSUME IInv, NEW p \in Proc, Authorize(p)
  PROVE  IInv'
<1>1. /\ pc[p] = "authorize" /\ job[p] \in Job /\ job[p].op \in {"login", "reauth"}
      /\ source[p] # None /\ \E u \in User : source[p].users = {u}
  BY Parts DEF Authorize, IInv, TypeOK, JobAt, SourceAt, Asked
<1>2. FilesSound'
  BY FilesStay DEF Authorize, IInv, TypeOK
<1>3. CASE Exit(p)
  BY <1>2, <1>3, ExitFits, ReauthsUndisturbed, OneStep DEF Authorize, files
<1>4. CASE Proceed(p, "commit")
  <2>1. "commit" \in Steps /\ ("commit" \in Gated <=> pc[p] \in Gated)
    BY <1>1 DEF Steps, Gated, Undoing
  <2>2. /\ MemoryTyped' /\ GateHeld' /\ Alone(p) /\ pc'[p] = "commit"
        /\ UNCHANGED <<job, source>> /\ SameSubject(p)
    BY <1>1, <1>4, <2>1, ProceedFits DEF Asked
  <2>3. Fits(p)'
    BY <1>1, <2>2, NoneApart DEF Fits, JobAt, SourceAt, PlanAt, WrittenAt, Asked, Gated, Undoing
  <2>4. QED
    BY <1>1, <1>2, <2>1, <2>2, <2>3, ReauthsUndisturbed, OneStep
    DEF Authorize, files, Gated, Undoing
<1>5. QED
  BY <1>3, <1>4 DEF Authorize

-----------------------------------------------------------------------------
(* Jobs of one step under the gate.                                          *)

LEMMA AppKeepsConsistent ==
  ASSUME NEW c \in Catalog, Consistent(c), NEW a \in App, NEW rec \in AppRec,
         rec.policy \subseteq rec.available
  PROVE  Consistent(WithApp(c, a, rec))
  BY AppAdded DEF Consistent

LEMMA AccountKeepsConsistent ==
  ASSUME NEW c \in Catalog, Consistent(c), NEW i \in Account, NEW rec \in AccountRec,
         rec.app \in DOMAIN c.apps,
         \A k \in DOMAIN c.accounts \ {i} :
           /\ c.accounts[k].app # rec.app \/ c.accounts[k].user # rec.user
           /\ c.accounts[k].alias = None \/ c.accounts[k].alias # rec.alias
  PROVE  Consistent(WithAccount(c, i, rec))
<1> DEFINE d == WithAccount(c, i, rec)
<1>1. /\ d.apps = c.apps /\ DOMAIN d.accounts = DOMAIN c.accounts \cup {i}
      /\ d.accounts[i] = rec
      /\ \A k \in DOMAIN c.accounts \ {i} : d.accounts[k] = c.accounts[k]
  BY AccountAdded
<1> HIDE DEF d
<1>2. Consistent(d)
  BY <1>1 DEF Consistent
<1>3. QED
  BY <1>2 DEF d

\* Such a job keeps the invariant if it keeps the files sound and every account in
\* its app.
LEMMA CommitKeeps ==
  ASSUME IInv, NEW p \in Proc, Exit(p), gate = None, FilesSound', issued \subseteq issued',
         \A i \in issued \cap DOMAIN catalog'.accounts :
           i \in Accounts /\ catalog.accounts[i].app = catalog'.accounts[i].app
  PROVE  IInv'
<1>1. \A q \in Proc : pc[q] \notin Gated
  BY NoneApart DEF IInv, GateHeld
<1>2. \A q \in Proc : pc'[q] \notin Gated
  BY <1>1, ExitFits DEF Alone
<1>3. Rooted(catalog')
  BY DEF Rooted
<1>4. ReauthsAgree'
  BY <1>2, <1>3, ExitFits, ReauthsStay
<1>5. QED
  BY <1>4, ExitFits, OneStep

LEMMA SetPolicyKeeps ==
  ASSUME IInv, NEW p \in Proc, SetPolicy(p)
  PROVE  IInv'
<1> DEFINE j == job[p]
           rec == [catalog.apps[j.app] EXCEPT !.policy = j.selected]
<1>1. /\ Exit(p) /\ gate = None /\ j \in Job /\ j.op = "policy"
      /\ j.app \in Apps /\ j.selected \subseteq catalog.apps[j.app].available
      /\ catalog' = WithApp(catalog, j.app, rec)
      /\ UNCHANGED <<active, base, config, issued, jobs, history>>
  BY Parts DEF SetPolicy, Commit, IInv, TypeOK, JobAt
<1>2. /\ catalog \in Catalog /\ Consistent(catalog)
      /\ j.app \in App /\ j.selected \in SUBSET Scope /\ catalog.apps[j.app] \in AppRec
  BY <1>1, JobFields, CatalogFields DEF IInv, TypeOK, Apps
<1>3. rec \in AppRec /\ rec.policy \subseteq rec.available
  BY <1>1, <1>2, PolicyChanged
<1> HIDE DEF rec
<1>4. /\ catalog' \in Catalog /\ catalog'.accounts = catalog.accounts
      /\ DOMAIN catalog'.apps = Apps
  <2>1. /\ catalog' \in Catalog /\ catalog'.accounts = catalog.accounts
        /\ DOMAIN catalog'.apps = DOMAIN catalog.apps \cup {j.app}
    BY <1>1, <1>2, <1>3, AppAdded
  <2>2. QED
    BY <1>1, <2>1 DEF Apps
<1>5. Consistent(catalog')
  BY <1>1, <1>2, <1>3, AppKeepsConsistent
<1>6. FilesSound'
  BY <1>1, <1>4, <1>5
  DEF history, FilesSound, FilesTyped, IInv, TypeOK, IdsIssued, Accounts, ConfigsBacked,
      Backed, Apps, ImportedShare, SharedSince
<1>7. QED
  BY <1>1, <1>4, <1>6, CommitKeeps DEF Accounts

\* The jobs that change nothing but records of apps.
LEMMA AppsOnly ==
  ASSUME IInv, catalog' \in Catalog, catalog'.accounts = catalog.accounts,
         DOMAIN catalog'.apps = Apps, Consistent(catalog'),
         UNCHANGED <<active, base, config, issued, jobs, history>>
  PROVE  FilesSound'
  BY DEF history, FilesSound, FilesTyped, IInv, TypeOK, IdsIssued, Accounts, ConfigsBacked,
         Backed, Apps, ImportedShare, SharedSince

LEMMA NormalizeKeeps ==
  ASSUME IInv, NEW p \in Proc, Normalize(p)
  PROVE  IInv'
<1> DEFINE f == [a \in Apps |-> [catalog.apps[a] EXCEPT
                                   !.policy = Narrowed(@, catalog.apps[a].available)]]
<1>1. /\ Exit(p) /\ gate = None
      /\ catalog' = [catalog EXCEPT !.apps = f]
      /\ UNCHANGED <<active, base, config, issued, jobs, history>>
      /\ catalog \in Catalog /\ Consistent(catalog)
  BY DEF Normalize, Commit, IInv, TypeOK
<1>2. ASSUME NEW a \in Apps
      PROVE  f[a] \in AppRec /\ f[a].policy \subseteq f[a].available
  <2>1. catalog.apps[a] \in AppRec
    BY <1>1, CatalogFields DEF Apps
  <2>2. /\ catalog.apps[a].policy \in SUBSET Scope
        /\ catalog.apps[a].available \in SUBSET Scope
    BY <2>1, AppFields
  <2>3. LET policy == Narrowed(catalog.apps[a].policy, catalog.apps[a].available)
        IN policy \in SUBSET Scope /\ policy \subseteq catalog.apps[a].available
    BY <2>2, NarrowedFits
  <2>4. QED
    BY <2>1, <2>3, PolicyChanged
<1>3. f \in [Apps -> AppRec]
  BY <1>2
<1> HIDE DEF f
<1>4. catalog' = [apps |-> f, accounts |-> catalog.accounts]
  BY <1>1, CatalogFields
<1>5. catalog' \in Catalog
  <2>1. /\ Apps \in SUBSET App /\ DOMAIN catalog.accounts \in SUBSET Account
        /\ catalog.accounts \in [DOMAIN catalog.accounts -> AccountRec]
    BY <1>1, CatalogFields DEF Apps
  <2>2. [apps |-> f, accounts |-> catalog.accounts] \in Catalog
    BY <1>3, <2>1, CatalogMade
  <2>3. QED
    BY <1>4, <2>2
<1>6. catalog'.accounts = catalog.accounts /\ catalog'.apps = f /\ DOMAIN f = Apps
  BY <1>3, <1>4
<1>7. Consistent(catalog')
  BY <1>1, <1>2, <1>6 DEF Consistent, Apps
<1>8. FilesSound'
  BY <1>1, <1>5, <1>6, <1>7, AppsOnly
<1>9. QED
  BY <1>1, <1>6, <1>8, CommitKeeps DEF Accounts

LEMMA BoundaryKeeps ==
  ASSUME IInv, NEW p \in Proc, Boundary(p)
  PROVE  IInv'
<1> DEFINE a == source[p].app
           policy == Narrowed(catalog.apps[a].policy, seen[p])
           rec == Bounded(catalog.apps[a], seen[p])
<1>1. /\ pc[p] = "boundary" /\ gate = None /\ catalog \in Catalog /\ Consistent(catalog)
      /\ job[p] \in Job /\ job[p].op \in {"refresh", "login", "reauth"}
      /\ job[p].op \in {"login", "reauth"} => \E u \in User : source[p].users = {u}
      /\ source[p] \in Config /\ seen[p] \in SUBSET Scope /\ target[p] \in SUBSET Scope
      /\ UNCHANGED <<active, base, config, issued, jobs, history>>
  BY Parts DEF Boundary, IInv, TypeOK, JobAt, SourceAt, Asked
<1>2. CASE Exit(p) /\ UNCHANGED catalog
  BY <1>1, <1>2, ExitKeeps DEF files
<1>3. CASE a \in Apps /\ catalog' = WithApp(catalog, a, rec)
  <2>1. a \in App /\ catalog.apps[a] \in AppRec
    BY <1>1, <1>3, CatalogFields DEF Apps
  <2>2. /\ policy \in SUBSET Scope /\ policy \subseteq seen[p]
        /\ seen[p] \cap Core # {} => policy # {}
    <3>1. catalog.apps[a].policy \in SUBSET Scope
      BY <2>1, AppFields
    <3>2. QED
      BY <1>1, <3>1, NarrowedFits
  <2>3. rec \in AppRec /\ rec.policy \subseteq rec.available
    BY <1>1, <2>1, <2>2, BoundaryChanged
  <2> HIDE DEF policy
  <2> HIDE DEF rec
  <2>4. /\ catalog' \in Catalog /\ catalog'.accounts = catalog.accounts
        /\ DOMAIN catalog'.apps = DOMAIN catalog.apps \cup {a}
    BY <1>1, <1>3, <2>1, <2>3, AppAdded
  <2>5. DOMAIN catalog'.apps = Apps
    BY <1>3, <2>4 DEF Apps
  <2>6. Consistent(catalog')
    BY <1>1, <1>3, <2>1, <2>3, AppKeepsConsistent
  <2>7. FilesSound'
    BY <1>1, <2>4, <2>5, <2>6, AppsOnly
  <2>8. CASE Exit(p)
    BY <1>1, <2>4, <2>7, <2>8, CommitKeeps DEF Accounts
  <2>9. CASE /\ target' = [target EXCEPT ![p] = policy]
             /\ Goto(p, "begin")
             /\ UNCHANGED <<gate, job, seen, source, plan>>
             /\ job[p].op # "refresh"
    <3> USE NoneApart DEF Goto
    <3>1. MemoryTyped'
      BY <2>2, <2>9 DEF IInv, TypeOK, MemoryTyped, Steps
    <3>2. GateHeld'
      BY <1>1, <2>9 DEF IInv, TypeOK, GateHeld, Gated, Undoing
    <3>3. Alone(p)
      BY <2>9 DEF IInv, TypeOK, Alone
    <3>4. /\ pc'[p] = "begin" /\ job'[p] = job[p] /\ source'[p] = source[p]
          /\ target'[p] = policy /\ seen'[p] = seen[p]
      BY <2>9 DEF IInv, TypeOK
    <3>5. Fits(p)'
      BY <1>1, <2>2, <2>9, <3>4 DEF Fits, JobAt, SourceAt, PlanAt, WrittenAt, Asked, Gated, Undoing
    <3>6. SameSubject(p)
      BY <1>1, <3>4 DEF SameSubject, Asked
    <3>7. \A q \in Proc : pc'[q] \notin Gated
      BY <1>1, <3>3, <3>4 DEF IInv, GateHeld, Alone, Gated, Undoing
    <3>8. Rooted(catalog')
      BY <2>4 DEF Rooted, Accounts
    <3>9. ReauthsAgree'
      BY <1>1, <3>3, <3>6, <3>7, <3>8, ReauthsStay
    <3>10. QED
      BY <1>1, <2>7, <3>1, <3>2, <3>3, <3>5, <3>9, OneStep
  <2>10. QED
    BY <2>8, <2>9, <1>1, <1>3 DEF Boundary, policy
<1>4. QED
  BY <1>2, <1>3 DEF Boundary

LEMMA SetAliasKeeps ==
  ASSUME IInv, NEW p \in Proc, SetAlias(p)
  PROVE  IInv'
<1> DEFINE j == job[p]
           i == j.account
           rec == [catalog.accounts[i] EXCEPT !.alias = j.alias]
<1>1. /\ Exit(p) /\ gate = None /\ j \in Job /\ j.op = "alias"
      /\ i \in Accounts /\ (j.alias # None => Free(i, j.alias))
      /\ catalog' = WithAccount(catalog, i, rec)
      /\ UNCHANGED <<active, base, config, issued, jobs, history>>
      /\ catalog \in Catalog /\ Consistent(catalog)
  BY Parts DEF SetAlias, Commit, IInv, TypeOK, JobAt
<1>2. /\ i \in Account /\ j.alias \in Alias \cup {None} /\ catalog.accounts[i] \in AccountRec
  BY <1>1, JobFields, CatalogFields DEF Accounts
<1>3. /\ rec \in AccountRec /\ rec.app = catalog.accounts[i].app
      /\ rec.user = catalog.accounts[i].user /\ rec.alias = j.alias
      /\ rec.shared = catalog.accounts[i].shared
  BY <1>2, AliasChanged
<1> HIDE DEF rec
<1>4. /\ catalog' \in Catalog /\ catalog'.apps = catalog.apps
      /\ DOMAIN catalog'.accounts = DOMAIN catalog.accounts \cup {i}
      /\ catalog'.accounts[i] = rec
      /\ \A k \in DOMAIN catalog.accounts \ {i} : catalog'.accounts[k] = catalog.accounts[k]
  BY <1>1, <1>2, <1>3, AccountAdded
<1>5. DOMAIN catalog'.accounts = Accounts
  BY <1>1, <1>4 DEF Accounts
<1>6. Consistent(catalog')
  BY <1>1, <1>3, <1>4, <1>5 DEF Consistent, Accounts, Free
<1>7. \A k \in Accounts : /\ catalog'.accounts[k].app = catalog.accounts[k].app
                          /\ catalog'.accounts[k].user = catalog.accounts[k].user
                          /\ catalog'.accounts[k].shared = catalog.accounts[k].shared
  BY <1>3, <1>4 DEF Accounts
<1>8. FilesSound'
  BY <1>1, <1>4, <1>5, <1>6, <1>7
  DEF history, FilesSound, FilesTyped, IInv, TypeOK, IdsIssued, Accounts, ConfigsBacked,
      Backed, IsConfig, ImportedShare, SharedSince
<1>9. QED
  BY <1>1, <1>5, <1>7, <1>8, CommitKeeps

LEMMA ReauthorizeKeeps ==
  ASSUME IInv, NEW p \in Proc, Reauthorize(p)
  PROVE  IInv'
<1> DEFINE i == job[p].account
           new == Isolated(source[p])
<1>1. /\ Exit(p) /\ gate = None /\ pc[p] = "commit" /\ job[p].op = "reauth"
      /\ i \in Accounts /\ source[p].users = {catalog.accounts[i].user}
      /\ config' = [config EXCEPT ![i] = new]
      /\ UNCHANGED <<catalog, active, base, issued, jobs, history>>
      /\ source[p] \in Config
  BY Parts DEF Reauthorize, Commit, IInv, TypeOK, SourceAt, Asked
<1>2. i \in Account /\ i \in issued
  BY <1>1, CatalogFields DEF IInv, TypeOK, IdsIssued, Accounts
<1>3. catalog.accounts[i].app = source[p].app
  BY <1>1 DEF IInv, ReauthsAgree, Asked, InAppOf, Accounts
<1>4. new \in Config /\ IsConfig(new, catalog.accounts[i])
  BY <1>1, <1>3, ConfigFields, NoneApart DEF IsConfig
<1> HIDE DEF new
<1>5. FilesSound'
  BY <1>1, <1>2, <1>4
  DEF history, FilesSound, FilesTyped, IInv, TypeOK, IdsIssued, Accounts, ConfigsBacked,
      Backed, ImportedShare, SharedSince
<1>6. QED
  BY <1>1, <1>5, CommitKeeps DEF Accounts

LEMMA RemoveKeeps ==
  ASSUME IInv, NEW p \in Proc, Remove(p)
  PROVE  IInv'
<1> DEFINE i == job[p].account
           rest == [catalog EXCEPT !.accounts = Without(@, i)]
           heirs == IF DOMAIN rest.accounts = {} THEN {None} ELSE DOMAIN rest.accounts
<1>1. /\ Exit(p) /\ gate = None /\ catalog \in Catalog /\ Consistent(catalog)
      /\ i \in Accounts /\ issued \subseteq Account
      /\ loggedOut' = IF catalog.accounts[i].shared THEN loggedOut
                      ELSE loggedOut \cup {Identity(i)}
      /\ UNCHANGED <<base, issued, jobs, imported>>
  BY DEF Remove, Commit, IInv, TypeOK
<1>2. i \in Account /\ Identity(i) \in App \X User
  <2>1. i \in Account /\ catalog.accounts[i] \in AccountRec
    BY <1>1, CatalogFields DEF Accounts
  <2>2. QED
    BY <2>1, AccountFields DEF Identity
<1>3. loggedOut' \subseteq App \X User
  BY <1>1, <1>2 DEF IInv, TypeOK
<1>4. CASE UNCHANGED <<catalog, active, config>>
  <2>1. FilesSound'
    BY <1>1, <1>3, <1>4, FilesStay DEF files, IInv, TypeOK
  <2>2. QED
    BY <1>1, <1>4, <2>1, CommitKeeps DEF Accounts
<1>5. CASE /\ catalog' = rest
           /\ config' \in {config, [config EXCEPT ![i] = None]}
           /\ active' \in {active} \cup (IF active = i THEN heirs ELSE {})
  <2>1. /\ rest \in Catalog /\ rest.apps = catalog.apps
        /\ DOMAIN rest.accounts = DOMAIN catalog.accounts \ {i}
        /\ \A k \in DOMAIN rest.accounts : rest.accounts[k] = catalog.accounts[k]
    BY <1>1, AccountRemoved
  <2>2. DOMAIN rest.accounts \subseteq Account
    BY <2>1, CatalogFields
  <2>3. heirs \subseteq Account \cup {None}
    BY <2>2
  <2>4. active' \in Account \cup {None}
    BY <1>5, <2>3 DEF IInv, TypeOK
  <2> HIDE DEF rest
  <2>5. /\ config' \in [Account -> Config \cup {None}]
        /\ \A k \in Account : config'[k] # None => config[k] # None
        /\ \A k \in Account \ {i} : config'[k] = config[k]
    BY <1>2, <1>5 DEF IInv, TypeOK
  <2>6. Consistent(catalog')
    BY <1>1, <1>5, <2>1 DEF Consistent
  <2>7. \A k \in DOMAIN rest.accounts : k \in Account \ {i} /\ k \in Accounts
    BY <2>1, <2>2 DEF Accounts
  <2>8. FilesSound'
    BY <1>1, <1>3, <1>5, <2>1, <2>4, <2>5, <2>6, <2>7
    DEF FilesSound, FilesTyped, IInv, TypeOK, IdsIssued, Accounts, ConfigsBacked,
        Backed, ImportedShare, SharedSince
  <2>9. QED
    BY <1>1, <1>5, <2>1, <2>7, <2>8, CommitKeeps
<1>6. QED
  BY <1>4, <1>5 DEF Remove

LEMMA RegisterKeeps ==
  ASSUME IInv, NEW p \in Proc, Register(p)
  PROVE  IInv'
<1> DEFINE s == source[p]
<1>1. /\ Exit(p) /\ gate = None /\ catalog \in Catalog /\ Consistent(catalog)
      /\ s \in Config /\ issued \subseteq Account /\ Accounts \subseteq issued
      /\ \E u \in User : s.users = {u}
      /\ UNCHANGED <<base, jobs, history>>
  BY Parts DEF Register, Commit, IInv, TypeOK, SourceAt, Asked, IdsIssued
<1>2. PICK u \in s.users, i \in Account \ issued :
        /\ s.app \in Apps /\ Known(s.app, u) = {}
        /\ config' = [config EXCEPT ![i] = Isolated(s)]
        /\ \/ UNCHANGED <<catalog, active>>
           \/ /\ catalog' = WithAccount(catalog, i, [app |-> s.app, user |-> u,
                                                     alias |-> None, shared |-> FALSE])
              /\ active' \in {active, IF active = None THEN i ELSE active}
        /\ issued' = issued \cup {i}
  BY DEF Register
<1> DEFINE rec == [app |-> s.app, user |-> u, alias |-> None, shared |-> FALSE]
           new == Isolated(s)
<1>3. /\ rec \in AccountRec /\ rec.app = s.app /\ rec.user = u /\ rec.alias = None
      /\ new \in Config /\ i \in Account /\ i \notin Accounts /\ IsConfig(new, rec)
  <2>1. s.app \in App /\ u \in User /\ s.users = {u}
    BY <1>1, <1>2, ConfigFields
  <2>2. /\ rec \in AccountRec /\ rec.app = s.app /\ rec.user = u /\ rec.alias = None
    BY <2>1 DEF AccountRec
  <2>3. new \in Config /\ IsConfig(new, rec)
    BY <1>1, <2>1, <2>2, ConfigFields, NoneApart DEF IsConfig
  <2>4. QED
    BY <1>1, <1>2, <2>2, <2>3
<1>4. /\ config' \in [Account -> Config \cup {None}] /\ config'[i] = new
      /\ \A k \in Account \ {i} : config'[k] = config[k]
  BY <1>2, <1>3 DEF IInv, TypeOK
<1>5. /\ issued' \subseteq Account /\ issued \subseteq issued' /\ i \in issued'
      /\ issued' = issued \cup {i} /\ i \notin issued
  BY <1>1, <1>2, <1>3
<1> HIDE DEF rec, new
<1>6. CASE UNCHANGED <<catalog, active>>
  <2>1. FilesSound'
    BY <1>1, <1>3, <1>4, <1>5, <1>6
    DEF history, FilesSound, FilesTyped, IInv, TypeOK, IdsIssued, Accounts, ConfigsBacked,
        Backed, ImportedShare, SharedSince
  <2>2. QED
    BY <1>1, <1>5, <1>6, <2>1, CommitKeeps DEF Accounts
<1>7. CASE /\ catalog' = WithAccount(catalog, i, rec)
           /\ active' \in {active, IF active = None THEN i ELSE active}
  <2>1. /\ catalog' \in Catalog /\ catalog'.apps = catalog.apps
        /\ DOMAIN catalog'.accounts = DOMAIN catalog.accounts \cup {i}
        /\ catalog'.accounts[i] = rec
        /\ \A k \in DOMAIN catalog.accounts \ {i} : catalog'.accounts[k] = catalog.accounts[k]
    BY <1>1, <1>3, <1>7, AccountAdded
  <2>2. \A k \in Accounts : catalog'.accounts[k] = catalog.accounts[k]
    BY <1>3, <2>1 DEF Accounts
  <2>3. Consistent(catalog')
    <3>1. \A k \in DOMAIN catalog.accounts \ {i} :
            catalog.accounts[k].app # rec.app \/ catalog.accounts[k].user # rec.user
      BY <1>2, <1>3 DEF Known, Identity, Accounts
    <3>2. \A k \in DOMAIN catalog.accounts \ {i} :
            catalog.accounts[k].alias = None \/ catalog.accounts[k].alias # rec.alias
      BY <1>3
    <3>3. QED
      BY <1>1, <1>2, <1>3, <1>7, <3>1, <3>2, AccountKeepsConsistent DEF Apps
  <2>4. FilesSound'
    BY <1>1, <1>3, <1>4, <1>5, <1>7, <2>1, <2>2, <2>3
    DEF history, FilesSound, FilesTyped, IInv, TypeOK, IdsIssued, Accounts, ConfigsBacked,
        Backed, ImportedShare, SharedSince
  <2>5. QED
    BY <1>1, <1>5, <2>1, <2>2, <2>4, CommitKeeps DEF Accounts
<1>8. QED
  BY <1>2, <1>6, <1>7 DEF rec

-----------------------------------------------------------------------------
(* Imports take the gate.                                                    *)

\* An app's record in what is to be saved: it may lose scopes, or get the default.
LEMMA AppWithFits ==
  ASSUME IInv, NEW a \in App, NEW label \in Label, NEW scopes \in SUBSET Scope
  PROVE  LET rec == AppWith(a, label, scopes)
             kept == catalog.apps[a].policy \cap scopes
         IN /\ rec \in AppRec /\ rec.available = scopes /\ rec.policy \subseteq scopes
            /\ a \in Apps /\ kept # {} => rec.policy = kept
<1> DEFINE old == IF a \in Apps THEN catalog.apps[a].policy ELSE {}
           policy == Narrowed(old, scopes)
<1>1. old \in SUBSET Scope
  BY CatalogFields, AppFields DEF IInv, TypeOK, Apps
<1>2. /\ policy \in SUBSET Scope /\ policy \subseteq scopes
      /\ old \cap scopes # {} => policy = old \cap scopes
  BY <1>1, NarrowedFits
<1>3. AppWith(a, label, scopes) = [label |-> label, available |-> scopes, policy |-> policy]
  BY DEF AppWith
<1> HIDE DEF policy
<1>4. LET rec == AppWith(a, label, scopes)
      IN rec \in AppRec /\ rec.available = scopes /\ rec.policy = policy
  BY <1>2, <1>3 DEF AppRec
<1>5. QED
  BY <1>2, <1>4

LEMMA PlanMade ==
  ASSUME IInv, NEW p \in Proc, source[p] \in Config,
         NEW i \in Account \cup {None}, NEW next \in Catalog
  PROVE  LET pl == PlanFor(p, i, next)
             a == source[p].app
         IN /\ pl \in Plan /\ pl.found = catalog /\ pl.active = active
            /\ pl.next = next /\ pl.account = i
            /\ pl.base = IF a \in Apps THEN base[a] ELSE None
            /\ i # None => pl.config = config[i]
<1> DEFINE b == IF source[p].app \in Apps THEN base[source[p].app] ELSE None
           f == IF i = None THEN None ELSE config[i]
<1>1. b \in Config \cup {None} /\ f \in Config \cup {None}
  BY ConfigFields DEF IInv, TypeOK
<1>2. PlanFor(p, i, next) = [found |-> catalog, active |-> active, base |-> b, config |-> f,
                             next |-> next, account |-> i, clean |-> TRUE]
  BY DEF PlanFor
<1>3. i # None => f = config[i]
  OBVIOUS
<1> HIDE DEF f
<1>4. QED
  BY <1>1, <1>2, <1>3 DEF Plan, IInv, TypeOK

\* What an import has worked out under the gate keeps the invariant, if it extends
\* the catalog by its app and its account, or by a new account.
LEMMA LoadKeeps ==
  ASSUME IInv, NEW p \in Proc, Locked(p), Goto(p, "base"),
         NEW i \in Account \cup {None}, NEW next \in Catalog,
         Consistent(next), Extends(next, catalog, source[p].app, i),
         plan' = [plan EXCEPT ![p] = PlanFor(p, i, next)],
         i \in issued => i \in Accounts,
         issued \subseteq issued', issued' \subseteq Account,
         job[p].op = "app" => i = None,
         job[p].op = "import" =>
           /\ i \in issued' /\ i \in DOMAIN next.accounts
           /\ next.accounts[i].app = source[p].app /\ next.accounts[i].shared
           /\ source[p].users = {next.accounts[i].user},
         UNCHANGED <<files, job, seen, target, source, jobs, history>>
  PROVE  IInv'
<1> USE NoneApart DEF Goto
<1> DEFINE pl == PlanFor(p, i, next)
           a == source[p].app
<1>1. /\ pc[p] = "load" /\ gate = None /\ gate' = p /\ job[p] \in Job
      /\ job[p].op \in {"import", "app"} /\ source[p] \in Config
      /\ job[p].op = "import" => \E u \in User : source[p].users = {u}
  BY Parts DEF Locked, IInv, TypeOK, JobAt, SourceAt
<1>2. /\ pl \in Plan /\ pl.found = catalog /\ pl.active = active
      /\ pl.next = next /\ pl.account = i
      /\ pl.base = IF a \in Apps THEN base[a] ELSE None
      /\ i # None => pl.config = config[i]
  BY <1>1, PlanMade
<1> HIDE DEF pl
<1>3. FilesSound'
  BY FilesStay DEF history, IInv, TypeOK
<1>4. MemoryTyped'
  BY <1>1, <1>2 DEF pl, IInv, TypeOK, MemoryTyped, Steps
<1>5. GateHeld'
  BY <1>1 DEF IInv, TypeOK, GateHeld, Gated, Undoing
<1>6. Alone(p)
  BY DEF IInv, TypeOK, Alone
<1>7. /\ pc'[p] = "base" /\ job'[p] = job[p] /\ source'[p] = source[p] /\ plan'[p] = pl
  BY DEF pl, IInv, TypeOK
<1>8. PlanAt(p)'
  <2>1. pl # None
    BY <1>2, AccountRecordsAssumption
  <2>2. Consistent(catalog) /\ Backed(catalog)'
    BY DEF IInv, ConfigsBacked, Backed, files
  <2>3. a \in Apps => IsBase(pl.base, a)
    BY <1>2 DEF IInv, ConfigsBacked, Backed, Apps
  <2>4. job[p].op = "import" =>
          IF i \in Accounts THEN IsConfig(pl.config, next.accounts[i]) ELSE pl.config = None
    <3>1. CASE job[p].op = "import" /\ i \in Accounts
      <4>1. i # None /\ IsConfig(config[i], catalog.accounts[i])
        BY <3>1, CatalogFields DEF IInv, TypeOK, ConfigsBacked, Backed, Accounts
      <4>2. /\ next.accounts[i].app = catalog.accounts[i].app
            /\ next.accounts[i].user = catalog.accounts[i].user
        BY <3>1 DEF Extends, Accounts
      <4>3. QED
        BY <1>2, <3>1, <4>1, <4>2 DEF IsConfig
    <3>2. CASE job[p].op = "import" /\ i \notin Accounts
      <4>1. i # None /\ i \in Account /\ i \notin issued
        BY <3>2
      <4>2. QED
        BY <1>2, <3>2, <4>1 DEF IInv, IdsIssued
    <3>3. QED
      BY <3>1, <3>2
  <2>5. QED
    BY <1>2, <1>7, <2>1, <2>2, <2>3, <2>4
    DEF PlanAt, PlanSound, StoreAt, files, Apps, Accounts
<1>9. Fits(p)'
  <2>1. JobAt(p)' /\ SourceAt(p)' /\ WrittenAt(p)'
    BY <1>1, <1>7 DEF JobAt, SourceAt, WrittenAt, Asked, Gated, Undoing
  <2>2. SharedSince(plan[p].found)'
    BY <1>2, <1>7 DEF IInv, ImportedShare, SharedSince, history
  <2>3. QED
    BY <1>7, <1>8, <2>1, <2>2 DEF Fits
<1>10. ReauthsAgree'
  <2>1. SameSubject(p)
    BY <1>7 DEF SameSubject, Asked
  <2>2. Rooted(catalog')
    BY DEF Rooted, Accounts, files
  <2>3. Rooted(next)
    BY DEF Rooted, Extends, Accounts
  <2>4. ASSUME NEW q \in Proc, pc'[q] \in Gated
        PROVE  Rooted(plan'[q].next)
    <3>1. \A r \in Proc : pc[r] \notin Gated
      BY <1>1 DEF IInv, GateHeld
    <3>2. q = p
      BY <1>6, <2>4, <3>1 DEF Alone
    <3>3. QED
      BY <1>2, <1>7, <2>3, <3>2
  <2>5. QED
    BY <1>6, <2>1, <2>2, <2>4, ReauthsStay
<1>11. QED
  BY <1>1, <1>3, <1>4, <1>5, <1>6, <1>9, <1>10, OneStep DEF history

LEMMA LoadAppKeeps ==
  ASSUME IInv, NEW p \in Proc, LoadApp(p)
  PROVE  IInv'
<1> DEFINE a == source[p].app
           rec == AppWith(a, job[p].label, seen[p])
           next == WithApp(catalog, a, rec)
<1>1. /\ pc[p] = "load" /\ job[p] \in Job /\ job[p].op = "app" /\ source[p] \in Config
      /\ catalog \in Catalog /\ Consistent(catalog) /\ seen[p] \in SUBSET Scope
      /\ issued \subseteq Account
  BY Parts DEF LoadApp, Locked, IInv, TypeOK, JobAt, SourceAt
<1>2. a \in App /\ job[p].label \in Label
  BY <1>1, JobFields, ConfigFields
<1>3. /\ rec \in AppRec /\ rec.policy \subseteq rec.available
      /\ LET kept == catalog.apps[a].policy \cap rec.available
         IN a \in Apps /\ kept # {} => rec.policy \subseteq kept
  BY <1>1, <1>2, AppWithFits
<1> HIDE DEF rec
<1>4. /\ next \in Catalog /\ next.accounts = catalog.accounts
      /\ DOMAIN next.apps = DOMAIN catalog.apps \cup {a} /\ next.apps[a] = rec
      /\ \A b \in DOMAIN catalog.apps \ {a} : next.apps[b] = catalog.apps[b]
  BY <1>1, <1>2, <1>3, AppAdded
<1>5. Consistent(next)
  BY <1>1, <1>2, <1>3, AppKeepsConsistent
<1>6. Extends(next, catalog, a, None)
  <2>1. \A b \in DOMAIN catalog.apps :
          LET kept == catalog.apps[b].policy \cap next.apps[b].available
          IN kept # {} => next.apps[b].policy \subseteq kept
    BY <1>1, <1>3, <1>4 DEF Consistent, Apps
  <2>2. QED
    BY <1>4, <2>1 DEF Extends
<1>7. /\ Locked(p) /\ Goto(p, "base")
      /\ plan' = [plan EXCEPT ![p] = PlanFor(p, None, next)]
      /\ UNCHANGED <<files, job, seen, target, source, issued, jobs, history>>
  BY DEF LoadApp, rec
<1> HIDE DEF next
<1>8. None \notin issued
  BY <1>1, NoneApart
<1>9. QED
  BY <1>1, <1>4, <1>5, <1>6, <1>7, <1>8, LoadKeeps

LEMMA LoadAccountKeeps ==
  ASSUME IInv, NEW p \in Proc, LoadAccount(p)
  PROVE  IInv'
<1> DEFINE a == source[p].app
           label == IF a \in Apps THEN catalog.apps[a].label ELSE job[p].label
           rec == AppWith(a, label, seen[p])
           with == WithApp(catalog, a, rec)
<1>1. /\ pc[p] = "load" /\ job[p] \in Job /\ job[p].op = "import" /\ source[p] \in Config
      /\ catalog \in Catalog /\ Consistent(catalog) /\ seen[p] \in SUBSET Scope
      /\ issued \subseteq Account /\ Accounts \subseteq issued
      /\ \E u \in User : source[p].users = {u}
  BY Parts DEF LoadAccount, Locked, IInv, TypeOK, JobAt, SourceAt, IdsIssued
<1>2. a \in App /\ label \in Label
  <2>1. a \in App /\ job[p].label \in Label
    BY <1>1, JobFields, ConfigFields
  <2>2. a \in Apps => catalog.apps[a].label \in Label
    BY <1>1, CatalogFields, AppFields DEF Apps
  <2>3. QED
    BY <2>1, <2>2
<1>3. /\ rec \in AppRec /\ rec.policy \subseteq rec.available
      /\ LET kept == catalog.apps[a].policy \cap rec.available
         IN a \in Apps /\ kept # {} => rec.policy \subseteq kept
  BY <1>1, <1>2, AppWithFits
<1>4. PICK u \in source[p].users :
        \/ \E i \in Holders(a, u) :
             /\ plan' = [plan EXCEPT ![p] = PlanFor(p, i, WithAccount(with, i, Shared(i)))]
             /\ UNCHANGED issued
        \/ \E i \in Account \ issued :
             /\ Holders(a, u) = {}
             /\ plan' = [plan EXCEPT ![p] =
                           PlanFor(p, i, WithAccount(with, i,
                             [app |-> a, user |-> u, alias |-> None, shared |-> TRUE]))]
             /\ issued' = issued \cup {i}
  BY DEF LoadAccount
<1>5. /\ Locked(p) /\ Goto(p, "base")
      /\ UNCHANGED <<files, job, seen, target, source, jobs, history>>
  BY DEF LoadAccount
<1>6. source[p].users = {u} /\ u \in User
  BY <1>1, <1>4
<1> HIDE DEF rec
<1>7. /\ with \in Catalog /\ with.accounts = catalog.accounts
      /\ DOMAIN with.apps = DOMAIN catalog.apps \cup {a} /\ with.apps[a] = rec
      /\ \A b \in DOMAIN catalog.apps \ {a} : with.apps[b] = catalog.apps[b]
  BY <1>1, <1>2, <1>3, AppAdded
<1>8. Consistent(with)
  BY <1>1, <1>2, <1>3, AppKeepsConsistent
<1> HIDE DEF with
\* The record the account is to have agrees with the one it has.
<1>9. ASSUME NEW i \in Account, NEW new \in AccountRec,
             new.app = a, new.user = u, new.shared,
             i \in Accounts => /\ catalog.accounts[i].app = a /\ catalog.accounts[i].user = u
                               /\ catalog.accounts[i].alias = new.alias,
             i \notin Accounts => Known(a, u) = {} /\ new.alias = None,
             i \in issued => i \in Accounts,
             issued \subseteq issued', issued' \subseteq Account, i \in issued',
             plan' = [plan EXCEPT ![p] = PlanFor(p, i, WithAccount(with, i, new))]
      PROVE  IInv'
  <2> DEFINE next == WithAccount(with, i, new)
  <2>1. /\ next \in Catalog /\ next.apps = with.apps
        /\ DOMAIN next.accounts = DOMAIN with.accounts \cup {i}
        /\ next.accounts[i] = new
        /\ \A k \in DOMAIN with.accounts \ {i} : next.accounts[k] = with.accounts[k]
    BY <1>7, <1>9, AccountAdded
  <2>2. Consistent(next)
    <3>1. \A k \in DOMAIN with.accounts \ {i} :
            /\ with.accounts[k].app # new.app \/ with.accounts[k].user # new.user
            /\ with.accounts[k].alias = None \/ with.accounts[k].alias # new.alias
      <4>1. CASE i \in Accounts
        BY <1>1, <1>7, <1>9, <4>1 DEF Consistent, Accounts
      <4>2. CASE i \notin Accounts
        BY <1>7, <1>9, <4>2 DEF Known, Identity, Accounts
      <4>3. QED
        BY <4>1, <4>2
    <3>2. QED
      BY <1>7, <1>8, <1>9, <3>1, AccountKeepsConsistent
  <2>3. Extends(next, catalog, a, i)
    <3>1. \A k \in DOMAIN catalog.accounts :
            /\ next.accounts[k].app = catalog.accounts[k].app
            /\ next.accounts[k].user = catalog.accounts[k].user
            /\ next.accounts[k].alias = catalog.accounts[k].alias
            /\ catalog.accounts[k].shared => next.accounts[k].shared
      BY <1>7, <1>9, <2>1 DEF Accounts
    <3>2. \A b \in DOMAIN catalog.apps :
            LET kept == catalog.apps[b].policy \cap next.apps[b].available
            IN kept # {} => next.apps[b].policy \subseteq kept
      BY <1>1, <1>3, <1>7, <2>1 DEF Consistent, Apps
    <3>3. QED
      BY <1>7, <2>1, <3>1, <3>2 DEF Extends
  <2>4. plan' = [plan EXCEPT ![p] = PlanFor(p, i, next)]
    BY <1>9
  <2> HIDE DEF next
  <2>5. /\ job[p].op # "app"
        /\ i \in issued' /\ i \in DOMAIN next.accounts
        /\ next.accounts[i].app = source[p].app /\ next.accounts[i].shared
        /\ source[p].users = {next.accounts[i].user}
    BY <1>1, <1>6, <1>9, <2>1
  <2>6. QED
    BY <1>5, <1>9, <2>1, <2>2, <2>3, <2>4, <2>5, LoadKeeps
<1>10. CASE \E i \in Holders(a, u) :
              /\ plan' = [plan EXCEPT ![p] = PlanFor(p, i, WithAccount(with, i, Shared(i)))]
              /\ UNCHANGED issued
  <2>1. PICK i \in Holders(a, u) :
          /\ plan' = [plan EXCEPT ![p] = PlanFor(p, i, WithAccount(with, i, Shared(i)))]
          /\ UNCHANGED issued
    BY <1>10
  <2>2. /\ i \in Accounts /\ i \in Account /\ catalog.accounts[i] \in AccountRec
        /\ catalog.accounts[i].app = a /\ catalog.accounts[i].user = u
    BY <1>1, CatalogFields DEF Holders, Known, Identity, Accounts
  <2>3. /\ Shared(i) \in AccountRec /\ Shared(i).app = a /\ Shared(i).user = u
        /\ Shared(i).alias = catalog.accounts[i].alias /\ Shared(i).shared
    BY <2>2, MadeShared DEF Shared
  <2>4. QED
    BY <1>1, <1>9, <2>1, <2>2, <2>3
<1>11. CASE \E i \in Account \ issued :
              /\ Holders(a, u) = {}
              /\ plan' = [plan EXCEPT ![p] =
                            PlanFor(p, i, WithAccount(with, i,
                              [app |-> a, user |-> u, alias |-> None, shared |-> TRUE]))]
              /\ issued' = issued \cup {i}
  <2> DEFINE new == [app |-> a, user |-> u, alias |-> None, shared |-> TRUE]
  <2>1. PICK i \in Account \ issued :
          /\ Holders(a, u) = {}
          /\ plan' = [plan EXCEPT ![p] = PlanFor(p, i, WithAccount(with, i, new))]
          /\ issued' = issued \cup {i}
    BY <1>11
  <2>2. /\ new \in AccountRec /\ new.app = a /\ new.user = u /\ new.alias = None
        /\ new.shared
    BY <1>2, <1>6 DEF AccountRec
  <2> HIDE DEF new
  <2>3. QED
    BY <1>1, <1>9, <2>1, <2>2 DEF Holders
<1>12. QED
  BY <1>4, <1>10, <1>11

-----------------------------------------------------------------------------
(* The writes of imports, and their rollback.                                *)

LEMMA WhileGated ==
  ASSUME IInv, NEW p \in Proc, pc[p] \in Gated
  PROVE  /\ gate = p /\ \A q \in Proc \ {p} : pc[q] \notin Gated
         /\ job[p] \in Job /\ job[p].op \in {"import", "app"}
         /\ source[p] \in Config /\ source[p].app \in App
         /\ plan[p] \in Plan
         /\ plan[p].found \in Catalog /\ plan[p].next \in Catalog
         /\ PlanSound(p) /\ StoreAt(p) /\ WrittenAt(p) /\ SharedSince(plan[p].found)
<1>1. Fits(p)
  BY Parts
<1>2. gate = p /\ \A q \in Proc \ {p} : pc[q] \notin Gated
  BY DEF IInv, GateHeld
<1>3. PlanSound(p) /\ StoreAt(p) /\ WrittenAt(p) /\ SharedSince(plan[p].found)
  BY <1>1 DEF Fits, PlanAt
<1>4. job[p] \in Job /\ job[p].op \in {"import", "app"}
  BY <1>1, NoneApart DEF IInv, TypeOK, Fits, JobAt, Gated, Undoing
<1>5. source[p] \in Config /\ source[p].app \in App
  BY <1>1, ConfigFields DEF IInv, TypeOK, Fits, SourceAt
<1>6. plan[p] \in Plan
  BY <1>3 DEF IInv, TypeOK, PlanSound
<1>7. QED
  BY <1>2, <1>3, <1>4, <1>5, <1>6, PlanFields

\* A plan stays sound, clean or not.
LEMMA PlanStays ==
  ASSUME IInv, NEW p \in Proc, pc[p] \in Gated, UNCHANGED <<job, source, issued>>,
         plan'[p] \in {plan[p], [plan[p] EXCEPT !.clean = FALSE]}
  PROVE  /\ PlanSound(p)' /\ plan'[p] \in Plan
         /\ plan'[p].found = plan[p].found /\ plan'[p].next = plan[p].next
         /\ plan'[p].active = plan[p].active /\ plan'[p].account = plan[p].account
         /\ plan'[p].base = plan[p].base /\ plan'[p].config = plan[p].config
<1>1. PlanSound(p) /\ plan[p] \in Plan
  BY WhileGated
<1>2. /\ plan'[p] \in Plan /\ plan'[p] # None
      /\ plan'[p].found = plan[p].found /\ plan'[p].next = plan[p].next
      /\ plan'[p].active = plan[p].active /\ plan'[p].account = plan[p].account
      /\ plan'[p].base = plan[p].base /\ plan'[p].config = plan[p].config
  <2> DEFINE new == [plan[p] EXCEPT !.clean = FALSE]
  <2>1. /\ new \in Plan
        /\ new.found = plan[p].found /\ new.next = plan[p].next
        /\ new.active = plan[p].active /\ new.account = plan[p].account
        /\ new.base = plan[p].base /\ new.config = plan[p].config
    BY <1>1, PlanFields
  <2>2. plan'[p] \in {plan[p], new}
    OBVIOUS
  <2> HIDE DEF new
  <2>3. QED
    BY <1>1, <2>1, <2>2, AccountRecordsAssumption
<1>3. PlanSound(p)'
  BY <1>1, <1>2 DEF PlanSound
<1>4. QED
  BY <1>2, <1>3

\* A catalog that an import may leave has no account but those it found and its own.
LEMMA PlanRooted ==
  ASSUME IInv, NEW p \in Proc, pc[p] \in Gated
  PROVE  /\ Rooted(plan[p].found) /\ Rooted(plan[p].next) /\ Rooted(catalog)
         /\ DOMAIN plan[p].found.accounts \subseteq issued
         /\ DOMAIN plan[p].next.accounts \subseteq issued
         /\ SharedSince(plan[p].next)
<1>1. PlanSound(p) /\ StoreAt(p) /\ SharedSince(plan[p].found) /\ plan[p].next \in Catalog
  BY WhileGated
<1>2. /\ DOMAIN plan[p].found.accounts \subseteq DOMAIN plan[p].next.accounts
      /\ DOMAIN plan[p].next.accounts \subseteq DOMAIN plan[p].found.accounts \cup {plan[p].account}
      /\ \A k \in DOMAIN plan[p].found.accounts :
           /\ plan[p].next.accounts[k].app = plan[p].found.accounts[k].app
           /\ plan[p].found.accounts[k].shared => plan[p].next.accounts[k].shared
  BY <1>1 DEF PlanSound, Extends
<1>3. Rooted(plan[p].next) /\ Rooted(catalog)
  BY DEF Rooted, Accounts
<1>4. Rooted(plan[p].found)
  BY <1>2 DEF Rooted
<1>5. DOMAIN plan[p].found.accounts \subseteq issued
  BY <1>1, <1>2 DEF StoreAt, IInv, IdsIssued, Accounts
<1>6. DOMAIN plan[p].next.accounts \subseteq Account
  BY <1>1, CatalogFields
<1>7. plan[p].account \in issued \/ plan[p].account = None
  BY <1>1, WhileGated DEF PlanSound
<1>8. DOMAIN plan[p].next.accounts \subseteq issued
  BY <1>2, <1>5, <1>6, <1>7, NoneApart
<1>9. SharedSince(plan[p].next)
  <2>1. plan[p].account \in DOMAIN plan[p].next.accounts =>
          plan[p].next.accounts[plan[p].account].shared
    BY <1>1, <1>6, WhileGated, NoneApart DEF PlanSound
  <2>2. QED
    BY <1>1, <1>2, <2>1 DEF SharedSince
<1>10. QED
  BY <1>3, <1>4, <1>5, <1>8, <1>9

\* Such a step keeps the invariant if it keeps the files and its import sound.
LEMMA WriteKeeps ==
  ASSUME IInv, NEW p \in Proc, pc[p] \in Gated,
         MemoryTyped', GateHeld', Alone(p), FilesSound', Fits(p)', SameSubject(p),
         UNCHANGED issued, catalog' \in {catalog, plan[p].found, plan[p].next},
         pc'[p] \in Gated => plan'[p].next = plan[p].next
  PROVE  IInv'
<1>1. Rooted(catalog')
  BY PlanRooted
<1>2. ASSUME NEW q \in Proc, pc'[q] \in Gated
      PROVE  Rooted(plan'[q].next)
  <2>1. q = p
    BY <1>2, WhileGated DEF Alone
  <2>2. QED
    BY <1>2, <2>1, PlanRooted
<1>3. ReauthsAgree'
  BY <1>1, <1>2, ReauthsStay
<1>4. gate = p
  BY WhileGated
<1>5. QED
  BY <1>3, <1>4, OneStep

\* The files are sound if the configurations serve the catalog.
LEMMA WrittenSound ==
  ASSUME IInv, NEW p \in Proc, pc[p] \in Gated,
         UNCHANGED <<issued, jobs, loggedOut>>,
         catalog' \in {catalog, plan[p].found, plan[p].next},
         active' \in Account \cup {None},
         base' \in [App -> Config \cup {None}],
         config' \in [Account -> Config \cup {None}],
         \A i \in Account : config'[i] # None => i \in issued,
         Backed(catalog)',
         imported' = imported
           \/ /\ imported' = imported \cup {plan[p].account} /\ catalog' = plan[p].next
              /\ job[p].op = "import"
  PROVE  FilesSound'
<1>1. /\ plan[p].found \in Catalog /\ plan[p].next \in Catalog /\ PlanSound(p)
  BY WhileGated
<1>2. /\ Consistent(plan[p].found) /\ Consistent(plan[p].next)
      /\ job[p].op = "import" => /\ plan[p].account \in issued
                                 /\ plan[p].next.accounts[plan[p].account].shared
  BY <1>1 DEF PlanSound
<1>3. catalog' \in Catalog /\ Consistent(catalog')
  BY <1>1, <1>2 DEF IInv, TypeOK
<1>4. DOMAIN catalog'.accounts \subseteq issued
  BY PlanRooted DEF IInv, IdsIssued, Accounts
<1>5. SharedSince(catalog)'
  <2>1. SharedSince(catalog) /\ SharedSince(plan[p].found) /\ SharedSince(plan[p].next)
    BY PlanRooted, WhileGated DEF IInv, ImportedShare
  <2>2. QED
    BY <1>2, <2>1 DEF SharedSince
<1>6. imported' \subseteq issued /\ issued \subseteq Account
  BY <1>2 DEF IInv, IdsIssued, TypeOK
<1>7. QED
  BY <1>3, <1>4, <1>5, <1>6
  DEF FilesSound, FilesTyped, IdsIssued, Accounts, ConfigsBacked, IInv, TypeOK

\* A write that fails.
LEMMA FailKeeps ==
  ASSUME IInv, NEW p \in Proc, pc[p] \in {"base", "config", "catalog", "active"}, Fail(p),
         UNCHANGED <<files, issued, jobs, history>>
  PROVE  IInv'
<1>1. CASE Exit(p)
  BY <1>1, ExitKeeps
<1>2. CASE job[p].op = "import" /\ Proceed(p, "undoCatalog")
  <2>1. pc[p] \in Gated /\ "undoCatalog" \in Gated /\ "undoCatalog" \in Steps
    BY DEF Gated, Undoing, Steps
  <2>2. /\ MemoryTyped' /\ GateHeld' /\ Alone(p) /\ pc'[p] = "undoCatalog"
        /\ UNCHANGED <<job, seen, target, source, plan>> /\ SameSubject(p)
    BY <1>2, <2>1, ProceedFits DEF Asked
  <2>3. FilesSound'
    BY FilesStay DEF IInv, TypeOK, history
  <2>4. PlanSound(p)'
    BY <2>1, <2>2, PlanStays
  <2>5. StoreAt(p)'
    BY <2>1, <2>2, WhileGated DEF StoreAt, Backed, files
  <2>6. Fits(p)'
    <3>1. JobAt(p)' /\ SourceAt(p)' /\ WrittenAt(p)'
      BY <1>2, <2>1, <2>2, Parts, NoneApart
      DEF Fits, JobAt, SourceAt, WrittenAt, Asked, Gated, Undoing
    <3>2. SharedSince(plan[p].found)'
      BY <2>1, <2>2, WhileGated DEF SharedSince, history
    <3>3. QED
      BY <2>2, <2>4, <2>5, <3>1, <3>2 DEF Fits, PlanAt
  <2>7. QED
    BY <2>1, <2>2, <2>3, <2>6, WriteKeeps DEF files
<1>3. QED
  BY <1>1, <1>2 DEF Fail

\* An import that keeps the gate is sound if its files are.
LEMMA WriteFits ==
  ASSUME IInv, NEW p \in Proc, pc[p] \in Gated, pc'[p] \in Gated,
         UNCHANGED <<job, source, issued, imported>>,
         plan'[p] \in {plan[p], [plan[p] EXCEPT !.clean = FALSE]},
         pc'[p] \in {"config", "active"} \cup Undoing => job[p].op = "import",
         StoreAt(p)', WrittenAt(p)'
  PROVE  Fits(p)'
<1>1. /\ PlanSound(p)' /\ plan'[p].found = plan[p].found
  BY PlanStays
<1>2. SharedSince(plan[p].found)'
  BY <1>1, WhileGated DEF SharedSince
<1>3. JobAt(p)' /\ SourceAt(p)'
  BY Parts, WhileGated, NoneApart DEF Fits, JobAt, SourceAt, Asked, Gated, Undoing
<1>4. pc'[p] # "begin"
  BY DEF Gated, Undoing
<1>5. QED
  BY <1>1, <1>2, <1>3, <1>4 DEF Fits, PlanAt

\* A step that moves on while it has the gate.
LEMMA MoveKeeps ==
  ASSUME IInv, NEW p \in Proc, pc[p] \in Gated,
         NEW step \in {"config", "catalog", "active"} \cup Undoing, Proceed(p, step),
         step \in {"config", "active"} \cup Undoing => job[p].op = "import",
         FilesSound', StoreAt(p)', WrittenAt(p)', UNCHANGED <<issued, imported>>,
         catalog' \in {catalog, plan[p].found, plan[p].next}
  PROVE  IInv'
<1>1. step \in Steps /\ step \in Gated /\ step \notin Asked
  BY DEF Steps, Gated, Undoing, Asked
<1>2. /\ MemoryTyped' /\ GateHeld' /\ Alone(p) /\ pc'[p] = step
      /\ UNCHANGED <<job, seen, target, source, plan>> /\ SameSubject(p)
  BY <1>1, ProceedFits
<1>3. Fits(p)'
  BY <1>1, <1>2, WriteFits
<1>4. QED
  BY <1>1, <1>2, <1>3, WriteKeeps

LEMMA WriteBaseKeeps ==
  ASSUME IInv, NEW p \in Proc, WriteBase(p)
  PROVE  IInv'
<1> DEFINE a == source[p].app
           step == IF job[p].op = "import" THEN "config" ELSE "catalog"
<1>1. /\ pc[p] = "base" /\ pc[p] \in Gated
      /\ UNCHANGED <<catalog, active, config, issued, jobs, history>>
  BY DEF WriteBase, Gated
<1>2. CASE Fail(p) /\ UNCHANGED base
  BY <1>1, <1>2, FailKeeps DEF files
<1>3. CASE base' = [base EXCEPT ![a] = Sanitized(source[p])] /\ Proceed(p, step)
  <2>1. a \in App /\ Sanitized(source[p]) \in Config /\ IsBase(Sanitized(source[p]), a)
    BY <1>1, WhileGated, ConfigFields, NoneApart DEF IsBase
  <2>2. /\ base' \in [App -> Config \cup {None}] /\ IsBase(base'[a], a)
        /\ \A b \in App \ {a} : base'[b] = base[b]
    BY <1>3, <2>1 DEF IInv, TypeOK
  <2>3. \A c \in Catalog : Backed(c) => Backed(c)'
    BY <1>1, <2>2, CatalogFields DEF Backed
  <2>4. StoreAt(p)'
    BY <1>1, <1>3, <2>3, WhileGated DEF StoreAt, Proceed, Goto, memory, IInv, TypeOK
  <2>5. WrittenAt(p)'
    <3>1. /\ pc'[p] = step /\ source' = source /\ job' = job
      BY <1>3 DEF Proceed, Goto, memory, IInv, TypeOK
    <3>2. QED
      BY <1>1, <2>2, <3>1 DEF WrittenAt, Undoing
  <2>6. FilesSound'
    <3>1. Backed(catalog)'
      BY <1>1, <2>3 DEF IInv, TypeOK, ConfigsBacked
    <3>2. QED
      BY <1>1, <2>2, <3>1, WrittenSound DEF IInv, TypeOK, IdsIssued, history
  <2>7. QED
    BY <1>1, <1>3, <2>4, <2>5, <2>6, MoveKeeps DEF history, Undoing
<1>4. QED
  BY <1>2, <1>3 DEF WriteBase

LEMMA WriteConfigKeeps ==
  ASSUME IInv, NEW p \in Proc, WriteConfig(p)
  PROVE  IInv'
<1> DEFINE i == plan[p].account
           new == Isolated(source[p])
<1>1. /\ pc[p] = "config" /\ pc[p] \in Gated /\ job[p].op = "import"
      /\ UNCHANGED <<catalog, active, base, issued, jobs, history>>
  BY Parts DEF WriteConfig, Gated, Fits, JobAt
<1>2. CASE Fail(p) /\ UNCHANGED config
  BY <1>1, <1>2, FailKeeps DEF files
<1>3. CASE config' = [config EXCEPT ![i] = new] /\ Proceed(p, "catalog")
  <2>1. /\ i \in issued /\ i \in Account /\ PlanSound(p) /\ StoreAt(p) /\ WrittenAt(p)
        /\ plan[p].found \in Catalog
    BY <1>1, WhileGated DEF PlanSound, IInv, TypeOK
  <2>2. new \in Config /\ IsConfig(new, plan[p].next.accounts[i])
    <3>1. /\ plan[p].next.accounts[i].app = source[p].app
          /\ source[p].users = {plan[p].next.accounts[i].user}
      BY <1>1, <2>1 DEF PlanSound
    <3>2. /\ new \in Config /\ new.app = source[p].app /\ new.users = source[p].users
      BY <1>1, WhileGated, ConfigFields
    <3>3. QED
      BY <3>1, <3>2, NoneApart DEF IsConfig
  <2>3. i \in DOMAIN plan[p].found.accounts => IsConfig(new, plan[p].found.accounts[i])
    BY <2>1, <2>2 DEF PlanSound, Extends, IsConfig
  <2> HIDE DEF new
  <2>4. /\ config' \in [Account -> Config \cup {None}] /\ config'[i] = new
        /\ \A k \in Account \ {i} : config'[k] = config[k]
    BY <1>3, <2>1, <2>2 DEF IInv, TypeOK
  <2>5. Backed(plan[p].found)'
    <3>1. Backed(plan[p].found) /\ DOMAIN plan[p].found.accounts \subseteq Account
      BY <2>1, CatalogFields DEF StoreAt
    <3>2. UNCHANGED plan
      BY <1>3 DEF Proceed, memory
    <3>3. QED
      BY <1>1, <2>3, <2>4, <3>1, <3>2 DEF Backed
  <2>6. /\ pc'[p] = "catalog" /\ UNCHANGED <<source, job, plan>>
    BY <1>3 DEF Proceed, Goto, memory, IInv, TypeOK
  <2>7. catalog = plan[p].found /\ StoreAt(p)'
    BY <1>1, <2>1, <2>5, <2>6 DEF StoreAt
  <2>8. WrittenAt(p)'
    BY <1>1, <2>1, <2>2, <2>4, <2>6 DEF WrittenAt, Undoing
  <2>9. FilesSound'
    <3>1. Backed(catalog)'
      BY <1>1, <2>5, <2>6, <2>7 DEF Backed
    <3>2. QED
      BY <1>1, <2>1, <2>4, <3>1, WrittenSound DEF IInv, TypeOK, IdsIssued, history
  <2>10. QED
    BY <1>1, <1>3, <2>7, <2>8, <2>9, MoveKeeps DEF history, Undoing
<1>4. QED
  BY <1>2, <1>3 DEF WriteConfig

LEMMA SaveCatalogKeeps ==
  ASSUME IInv, NEW p \in Proc, SaveCatalog(p)
  PROVE  IInv'
<1> DEFINE i == plan[p].account
           a == source[p].app
           next == plan[p].next
           found == plan[p].found
<1>1. /\ pc[p] = "catalog" /\ pc[p] \in Gated /\ job[p].op \in {"import", "app"}
      /\ UNCHANGED <<active, base, config, issued, jobs, loggedOut>>
  BY WhileGated DEF SaveCatalog, Gated
<1>2. CASE Fail(p) /\ UNCHANGED <<catalog, imported>>
  BY <1>1, <1>2, FailKeeps DEF files, history
<1>3. CASE /\ catalog' = next
           /\ \/ Exit(p) /\ (UNCHANGED imported
                               \/ (imported' = imported \cup {i} /\ job[p].op = "import"))
              \/ Proceed(p, "active") /\ UNCHANGED imported /\ job[p].op = "import"
  <2>1. /\ PlanSound(p) /\ StoreAt(p) /\ WrittenAt(p) /\ next \in Catalog /\ found \in Catalog
    BY <1>1, WhileGated
  <2>2. Backed(next)
    <3>1. IsBase(base[a], a) /\ Backed(found)
      BY <1>1, <2>1 DEF WrittenAt, StoreAt
    <3>2. \A b \in DOMAIN next.apps : IsBase(base[b], b)
      BY <2>1, <3>1 DEF PlanSound, Extends, Backed
    <3>3. \A k \in DOMAIN found.accounts : IsConfig(config[k], next.accounts[k])
      BY <2>1, <3>1 DEF PlanSound, Extends, Backed, IsConfig
    <3>4. i \in DOMAIN next.accounts => IsConfig(config[i], next.accounts[i])
      <4>1. CASE job[p].op = "import"
        BY <1>1, <2>1, <4>1 DEF WrittenAt
      <4>2. CASE job[p].op = "app"
        <5>1. i = None
          BY <2>1, <4>2 DEF PlanSound
        <5>2. DOMAIN next.accounts \subseteq Account
          BY <2>1, CatalogFields
        <5>3. QED
          BY <5>1, <5>2, NoneApart
      <4>3. QED
        BY <1>1, <4>1, <4>2
    <3>5. DOMAIN next.accounts \subseteq DOMAIN found.accounts \cup {i}
      BY <2>1 DEF PlanSound, Extends
    <3>6. \A k \in DOMAIN next.accounts : IsConfig(config[k], next.accounts[k])
      BY <3>3, <3>4, <3>5
    <3>7. QED
      BY <3>2, <3>6 DEF Backed
  <2>3. Backed(catalog)'
    BY <1>1, <1>3, <2>2 DEF Backed
  <2>4. ASSUME \/ UNCHANGED imported
               \/ imported' = imported \cup {i} /\ job[p].op = "import"
        PROVE  FilesSound'
    BY <1>1, <1>3, <2>3, <2>4, WrittenSound DEF IInv, TypeOK, IdsIssued
  <2>5. CASE Exit(p) /\ (UNCHANGED imported
                           \/ (imported' = imported \cup {i} /\ job[p].op = "import"))
    BY <1>1, <1>3, <2>4, <2>5, ExitFits, WriteKeeps
  <2>6. CASE Proceed(p, "active") /\ UNCHANGED imported /\ job[p].op = "import"
    <3>1. /\ pc'[p] = "active" /\ UNCHANGED <<source, job, plan>>
      BY <2>6 DEF Proceed, Goto, memory, IInv, TypeOK
    <3>2. StoreAt(p)'
      BY <1>1, <1>3, <2>1, <3>1 DEF StoreAt, Backed
    <3>3. WrittenAt(p)'
      BY <1>1, <2>1, <3>1 DEF WrittenAt, Undoing
    <3>4. QED
      BY <1>1, <1>3, <2>4, <2>6, <3>2, <3>3, MoveKeeps
  <2>7. QED
    BY <1>3, <2>5, <2>6
<1>4. ASSUME catalog' = next,
             IF job[p].op = "app" THEN Exit(p) /\ UNCHANGED imported
             ELSE IF plan[p].active = None THEN Proceed(p, "active") /\ UNCHANGED imported
             ELSE Imported(p)
      PROVE  IInv'
  <2>1. CASE job[p].op = "app"
    <3>1. Exit(p) /\ UNCHANGED imported
      BY <1>4, <2>1
    <3>2. QED
      BY <1>3, <1>4, <3>1
  <2>2. CASE job[p].op # "app" /\ plan[p].active = None
    BY <1>1, <1>3, <1>4, <2>2
  <2>3. CASE job[p].op # "app" /\ plan[p].active # None
    BY <1>1, <1>3, <1>4, <2>3 DEF Imported
  <2>4. QED
    BY <2>1, <2>2, <2>3
<1>5. QED
  BY <1>2, <1>4 DEF SaveCatalog

LEMMA SaveActiveKeeps ==
  ASSUME IInv, NEW p \in Proc, SaveActive(p)
  PROVE  IInv'
<1>1. /\ pc[p] = "active" /\ pc[p] \in Gated /\ job[p].op = "import"
      /\ UNCHANGED <<catalog, base, config, issued, jobs, loggedOut>>
  BY Parts DEF SaveActive, Gated, Fits, JobAt
<1>2. CASE Fail(p) /\ UNCHANGED <<active, imported>>
  BY <1>1, <1>2, FailKeeps DEF files, history
<1>3. CASE active' = plan[p].account /\ Imported(p)
  <2>1. PlanSound(p) /\ StoreAt(p) /\ plan[p] \in Plan
    BY <1>1, WhileGated
  <2>2. catalog = plan[p].next /\ plan[p].account \in Account \cup {None}
    BY <1>1, <2>1, PlanFields DEF StoreAt
  <2>3. Backed(catalog)'
    BY <1>1 DEF Backed, IInv, ConfigsBacked
  <2>4. FilesSound'
    BY <1>1, <1>3, <2>2, <2>3, WrittenSound DEF Imported, IInv, TypeOK, IdsIssued
  <2>5. QED
    BY <1>1, <1>3, <2>4, ExitFits, WriteKeeps DEF Imported
<1>4. QED
  BY <1>2, <1>3 DEF SaveActive

\* A restore that fails, while the rollback goes on.
LEMMA UncleanKeeps ==
  ASSUME IInv, NEW p \in Proc, NEW step \in {"undoBase", "undoConfig", "undoDirs"},
         pc[p] \in {"undoActive", "undoBase", "undoConfig"}, Unclean(p, step),
         UNCHANGED <<files, issued, jobs, history>>
  PROVE  IInv'
<1> USE NoneApart DEF Goto
<1>1. /\ pc[p] \in Gated /\ step \in Gated /\ step \in Steps /\ step \notin Asked
      /\ plan[p] \in Plan /\ job[p].op = "import"
      /\ StoreAt(p) /\ plan[p].found \in Catalog
  BY WhileGated, Parts DEF Fits, JobAt, Gated, Undoing, Steps, Asked
<1> DEFINE new == [plan[p] EXCEPT !.clean = FALSE]
<1>2. new \in Plan /\ new.clean = FALSE
  BY <1>1, PlanFields
<1>3. plan' = [plan EXCEPT ![p] = new]
  BY DEF Unclean
<1> HIDE DEF new
<1>4. /\ pc' = [pc EXCEPT ![p] = step] /\ UNCHANGED <<gate, job, seen, target, source>>
  BY DEF Unclean
<1>5. MemoryTyped'
  BY <1>1, <1>2, <1>3, <1>4 DEF IInv, TypeOK, MemoryTyped
<1>6. GateHeld'
  BY <1>1, <1>4 DEF IInv, TypeOK, GateHeld
<1>7. Alone(p)
  BY <1>3, <1>4 DEF IInv, TypeOK, Alone
<1>8. pc'[p] = step /\ plan'[p] = new
  BY <1>3, <1>4 DEF IInv, TypeOK
<1>9. /\ PlanSound(p)' /\ plan'[p].found = plan[p].found
      /\ plan'[p].next = plan[p].next /\ plan'[p].active = plan[p].active
  BY <1>1, <1>4, <1>8, PlanStays DEF new
<1>10. StoreAt(p)'
  BY <1>1, <1>8, <1>9 DEF StoreAt, Backed, files
<1>11. WrittenAt(p)'
  BY <1>2, <1>8 DEF WrittenAt
<1>12. Fits(p)'
  BY <1>1, <1>4, <1>8, <1>10, <1>11, WriteFits DEF new, history
<1>13. FilesSound'
  BY FilesStay DEF IInv, TypeOK, history
<1>14. SameSubject(p)
  BY <1>1, <1>8 DEF SameSubject
<1>15. QED
  BY <1>1, <1>5, <1>6, <1>7, <1>9, <1>12, <1>13, <1>14, WriteKeeps DEF files

LEMMA UndoCatalogKeeps ==
  ASSUME IInv, NEW p \in Proc, UndoCatalog(p)
  PROVE  IInv'
<1>1. /\ pc[p] = "undoCatalog" /\ pc[p] \in Gated /\ job[p].op = "import"
      /\ UNCHANGED <<active, base, config, issued, jobs, history>>
  BY Parts DEF UndoCatalog, Gated, Undoing, Fits, JobAt
<1>2. CASE Exit(p) /\ UNCHANGED catalog
  BY <1>1, <1>2, ExitKeeps DEF files
<1>3. CASE catalog' = plan[p].found /\ Proceed(p, "undoActive")
  <2>1. StoreAt(p) /\ UNCHANGED <<plan, job, source>> /\ pc'[p] = "undoActive"
    BY <1>1, <1>3, WhileGated DEF Proceed, Goto, memory, IInv, TypeOK
  <2>2. StoreAt(p)' /\ Backed(catalog)'
    BY <1>1, <1>3, <2>1 DEF StoreAt, Backed
  <2>3. WrittenAt(p)'
    BY <2>1 DEF WrittenAt
  <2>4. FilesSound'
    BY <1>1, <1>3, <2>2, WrittenSound DEF IInv, TypeOK, IdsIssued, history
  <2>5. QED
    BY <1>1, <1>3, <2>2, <2>3, <2>4, MoveKeeps DEF history, Undoing
<1>4. QED
  BY <1>2, <1>3 DEF UndoCatalog

LEMMA UndoActiveKeeps ==
  ASSUME IInv, NEW p \in Proc, UndoActive(p)
  PROVE  IInv'
<1>1. /\ pc[p] = "undoActive" /\ pc[p] \in Gated /\ job[p].op = "import"
      /\ StoreAt(p) /\ UNCHANGED <<catalog, base, config, issued, jobs, history>>
  BY Parts, WhileGated DEF UndoActive, Gated, Undoing, Fits, JobAt
<1>2. CASE Unclean(p, "undoBase") /\ UNCHANGED active
  BY <1>1, <1>2, UncleanKeeps DEF files
<1>3. CASE active' = plan[p].active /\ Proceed(p, "undoBase")
  <2>1. UNCHANGED <<active, plan, job, source>> /\ pc'[p] = "undoBase"
    BY <1>1, <1>3 DEF Proceed, Goto, memory, IInv, TypeOK, StoreAt
  <2>2. StoreAt(p)' /\ WrittenAt(p)'
    BY <1>1, <2>1 DEF StoreAt, Backed, WrittenAt
  <2>3. FilesSound'
    BY <1>1, <2>1, FilesStay DEF IInv, TypeOK, history, files
  <2>4. QED
    BY <1>1, <1>3, <2>2, <2>3, MoveKeeps DEF history, Undoing
<1>4. QED
  BY <1>2, <1>3 DEF UndoActive

LEMMA UndoBaseKeeps ==
  ASSUME IInv, NEW p \in Proc, UndoBase(p)
  PROVE  IInv'
<1> DEFINE a == source[p].app
<1>1. /\ pc[p] = "undoBase" /\ pc[p] \in Gated /\ job[p].op = "import"
      /\ PlanSound(p) /\ StoreAt(p) /\ a \in App
      /\ plan[p].base \in Config \cup {None} /\ plan[p].found \in Catalog
      /\ UNCHANGED <<catalog, active, config, issued, jobs, history>>
  BY Parts, WhileGated, PlanFields DEF UndoBase, Gated, Undoing, Fits, JobAt
<1>2. CASE Unclean(p, "undoConfig") /\ UNCHANGED base
  BY <1>1, <1>2, UncleanKeeps DEF files
<1>3. CASE base' = [base EXCEPT ![a] = plan[p].base] /\ Proceed(p, "undoConfig")
  <2>1. UNCHANGED <<plan, job, source>> /\ pc'[p] = "undoConfig"
    BY <1>3 DEF Proceed, Goto, memory, IInv, TypeOK
  <2>2. /\ base' \in [App -> Config \cup {None}] /\ base'[a] = plan[p].base
        /\ \A b \in App \ {a} : base'[b] = base[b]
    BY <1>1, <1>3 DEF IInv, TypeOK
  <2>3. catalog = plan[p].found /\ Backed(plan[p].found)
    BY <1>1 DEF StoreAt
  <2>4. /\ a \in DOMAIN plan[p].found.apps => IsBase(plan[p].base, a)
        /\ DOMAIN plan[p].found.apps \subseteq App
    BY <1>1, CatalogFields DEF PlanSound
  <2>5. Backed(catalog)'
    BY <1>1, <2>2, <2>3, <2>4 DEF Backed
  <2>6. StoreAt(p)'
    BY <1>1, <2>1, <2>3, <2>5 DEF StoreAt, Backed
  <2>7. WrittenAt(p)'
    BY <2>1, <2>2 DEF WrittenAt
  <2>8. FilesSound'
    BY <1>1, <2>2, <2>5, WrittenSound DEF IInv, TypeOK, IdsIssued, history
  <2>9. QED
    BY <1>1, <1>3, <2>6, <2>7, <2>8, MoveKeeps DEF history, Undoing
<1>4. QED
  BY <1>2, <1>3 DEF UndoBase

LEMMA UndoConfigKeeps ==
  ASSUME IInv, NEW p \in Proc, UndoConfig(p)
  PROVE  IInv'
<1> DEFINE i == plan[p].account
<1>1. /\ pc[p] = "undoConfig" /\ pc[p] \in Gated /\ job[p].op = "import"
      /\ PlanSound(p) /\ StoreAt(p) /\ WrittenAt(p) /\ i \in issued /\ i \in Account
      /\ plan[p].config \in Config \cup {None} /\ plan[p].found \in Catalog
      /\ UNCHANGED <<catalog, active, base, issued, jobs, history>>
  <2>1. pc[p] = "undoConfig" /\ pc[p] \in Gated /\ job[p].op = "import"
    BY Parts DEF UndoConfig, Gated, Undoing, Fits, JobAt
  <2>2. /\ PlanSound(p) /\ StoreAt(p) /\ WrittenAt(p) /\ plan[p].found \in Catalog
        /\ plan[p].config \in Config \cup {None}
    BY <2>1, WhileGated, PlanFields
  <2>3. i \in issued /\ i \in Account
    BY <2>1, <2>2 DEF PlanSound, IInv, TypeOK
  <2>4. QED
    BY <2>1, <2>2, <2>3 DEF UndoConfig
<1>2. CASE Unclean(p, "undoDirs") /\ UNCHANGED config
  BY <1>1, <1>2, UncleanKeeps DEF files
<1>3. CASE config' = [config EXCEPT ![i] = plan[p].config] /\ Proceed(p, "undoDirs")
  <2>1. UNCHANGED <<plan, job, source>> /\ pc'[p] = "undoDirs"
    BY <1>3 DEF Proceed, Goto, memory, IInv, TypeOK
  <2>2. /\ config' \in [Account -> Config \cup {None}] /\ config'[i] = plan[p].config
        /\ \A k \in Account \ {i} : config'[k] = config[k]
    BY <1>1, <1>3 DEF IInv, TypeOK
  <2>3. catalog = plan[p].found /\ Backed(plan[p].found)
    BY <1>1 DEF StoreAt
  <2>4. /\ i \in DOMAIN plan[p].found.accounts =>
             IsConfig(plan[p].config, plan[p].found.accounts[i])
        /\ DOMAIN plan[p].found.accounts \subseteq Account
    <3>1. i \in DOMAIN plan[p].found.accounts =>
            /\ IsConfig(plan[p].config, plan[p].next.accounts[i])
            /\ plan[p].next.accounts[i].app = plan[p].found.accounts[i].app
            /\ plan[p].next.accounts[i].user = plan[p].found.accounts[i].user
      BY <1>1 DEF PlanSound, Extends
    <3>2. QED
      BY <1>1, <3>1, CatalogFields DEF IsConfig
  <2>5. Backed(catalog)'
    BY <1>1, <2>2, <2>3, <2>4 DEF Backed
  <2>6. StoreAt(p)'
    BY <1>1, <2>1, <2>3, <2>5 DEF StoreAt, Backed
  <2>7. WrittenAt(p)'
    BY <1>1, <2>1, <2>2 DEF WrittenAt
  <2>8. \A k \in Account : config'[k] # None => k \in issued
    BY <1>1, <2>2 DEF IInv, IdsIssued
  <2>9. FilesSound'
    BY <1>1, <2>2, <2>5, <2>8, WrittenSound DEF IInv, TypeOK, history
  <2>10. QED
    BY <1>1, <1>3, <2>6, <2>7, <2>9, MoveKeeps DEF history, Undoing
<1>4. QED
  BY <1>2, <1>3 DEF UndoConfig

LEMMA UndoDirsKeeps ==
  ASSUME IInv, NEW p \in Proc, UndoDirs(p)
  PROVE  IInv'
<1> DEFINE a == source[p].app
           i == plan[p].account
<1>1. /\ pc[p] = "undoDirs" /\ pc[p] \in Gated /\ job[p].op = "import"
      /\ PlanSound(p) /\ StoreAt(p) /\ WrittenAt(p) /\ i \in Account /\ a \in App
      /\ plan[p].found \in Catalog
  <2>1. pc[p] = "undoDirs" /\ pc[p] \in Gated /\ job[p].op = "import"
    BY Parts DEF UndoDirs, Gated, Undoing, Fits, JobAt
  <2>2. /\ PlanSound(p) /\ StoreAt(p) /\ WrittenAt(p) /\ plan[p].found \in Catalog /\ a \in App
    BY <2>1, WhileGated
  <2>3. i \in Account
    BY <2>1, <2>2 DEF PlanSound, IInv, TypeOK
  <2>4. QED
    BY <2>1, <2>2, <2>3
<1>2. /\ config' \in {config} \cup
           (IF i \in Accounts THEN {} ELSE {[config EXCEPT ![i] = None]})
      /\ base' \in {base} \cup (IF a \in Apps THEN {} ELSE {[base EXCEPT ![a] = None]})
      /\ Proceed(p, "failed")
      /\ UNCHANGED <<catalog, active, issued, jobs, history>>
  BY DEF UndoDirs
<1>3. /\ config' \in [Account -> Config \cup {None}]
      /\ \A k \in Account : config'[k] = config[k] \/ (k = i /\ i \notin Accounts /\ config'[k] = None)
  BY <1>1, <1>2 DEF IInv, TypeOK
<1>4. /\ base' \in [App -> Config \cup {None}]
      /\ \A b \in App : base'[b] = base[b] \/ (b = a /\ a \notin Apps /\ base'[b] = None)
  BY <1>1, <1>2 DEF IInv, TypeOK
<1>5. /\ catalog = plan[p].found /\ Backed(plan[p].found) /\ active = plan[p].active
      /\ DOMAIN catalog.apps \subseteq App /\ DOMAIN catalog.accounts \subseteq Account
  BY <1>1, CatalogFields DEF StoreAt
<1>6. Backed(catalog)'
  BY <1>2, <1>3, <1>4, <1>5 DEF Backed, Apps, Accounts
<1>7. UNCHANGED <<plan, job, source>> /\ pc'[p] = "failed"
  BY <1>2 DEF Proceed, Goto, memory, IInv, TypeOK
<1>8. StoreAt(p)'
  BY <1>2, <1>5, <1>6, <1>7 DEF StoreAt, Backed
<1>9. WrittenAt(p)'
  <2>1. plan[p].clean => base[a] = plan[p].base /\ config[i] = plan[p].config
    BY <1>1 DEF WrittenAt
  <2>2. /\ a \notin Apps => plan[p].base = None
        /\ i \notin Accounts => plan[p].config = None
    BY <1>1, <1>5 DEF PlanSound, Apps, Accounts
  <2>3. plan[p].clean => base'[a] = plan[p].base /\ config'[i] = plan[p].config
    BY <1>1, <1>3, <1>4, <2>1, <2>2
  <2>4. QED
    BY <1>7, <2>3 DEF WrittenAt
<1>10. \A k \in Account : config'[k] # None => k \in issued
  BY <1>3 DEF IInv, IdsIssued
<1>11. FilesSound'
  BY <1>1, <1>2, <1>3, <1>4, <1>6, <1>10, WrittenSound DEF IInv, TypeOK, history
<1>12. QED
  BY <1>1, <1>2, <1>8, <1>9, <1>11, MoveKeeps DEF history, Undoing

-----------------------------------------------------------------------------
(* The invariant.                                                            *)

LEMMA InitInv ==
  ASSUME Init
  PROVE  IInv
<1> USE NoneApart
<1>1. catalog \in Catalog /\ Consistent(catalog)
  BY AccountRecordsAssumption DEF Init
<1>2. /\ Apps \subseteq App /\ Accounts \subseteq Account
      /\ \A i \in Accounts : catalog.accounts[i] \in AccountRec
  BY <1>1, CatalogFields DEF Apps, Accounts
<1>3. \A a \in App : Draft(a, {}) \in Config /\ IsBase(Draft(a, {}), a)
  BY ConfigFields DEF IsBase
<1>4. \A i \in Accounts :
        LET rec == catalog.accounts[i]
        IN Draft(rec.app, {rec.user}) \in Config /\ IsConfig(Draft(rec.app, {rec.user}), rec)
  BY <1>2, AccountFields, ConfigFields DEF IsConfig
<1>5. base \in [App -> Config \cup {None}]
  BY <1>3 DEF Init
<1>6. config \in [Account -> Config \cup {None}]
  BY <1>4 DEF Init
<1>7. TypeOK
  BY <1>1, <1>2, <1>5, <1>6, AccountRecordsAssumption DEF Init, TypeOK, Steps
<1>8. Backed(catalog)
  <2>1. \A a \in Apps : base[a] = Draft(a, {})
    BY <1>2 DEF Init
  <2>2. \A i \in Accounts :
          config[i] = Draft(catalog.accounts[i].app, {catalog.accounts[i].user})
    BY <1>2 DEF Init
  <2>3. QED
    BY <1>2, <1>3, <1>4, <2>1, <2>2 DEF Backed, Apps, Accounts
<1>9. IdsIssued
  BY DEF Init, IdsIssued
<1>10. GateHeld
  BY DEF Init, GateHeld, Gated, Undoing
<1>11. ASSUME NEW p \in Proc
       PROVE  JobAt(p) /\ SourceAt(p) /\ PlanAt(p) /\ WrittenAt(p)
  <2>1. pc[p] = "off" /\ job[p] = None
    BY DEF Init
  <2>2. QED
    BY <2>1 DEF JobAt, SourceAt, PlanAt, WrittenAt, Asked, Gated, Undoing
<1>12. ImportedShare
  BY DEF Init, ImportedShare, SharedSince, Gated, Undoing
<1>13. LoginCanAsk
  BY DEF Init, LoginCanAsk
<1>14. ReauthsAgree
  BY DEF Init, ReauthsAgree, Asked
<1>15. QED
  BY <1>1, <1>7, <1>8, <1>9, <1>10, <1>11, <1>12, <1>13, <1>14 DEF IInv, ConfigsBacked

LEMMA StepKeeps ==
  ASSUME IInv, Next
  PROVE  IInv'
<1>1. PICK p \in Proc :
        \/ \E j \in Jobs : Start(p, j)
        \/ Prepare(p) \/ Observe(p) \/ Boundary(p) \/ BeginLogin(p) \/ Authorize(p)
        \/ Refuse(p) \/ Register(p) \/ Reauthorize(p) \/ SetPolicy(p) \/ SetAlias(p)
        \/ Remove(p) \/ Normalize(p)
        \/ LoadAccount(p) \/ LoadApp(p)
        \/ WriteBase(p) \/ WriteConfig(p) \/ SaveCatalog(p) \/ SaveActive(p)
        \/ UndoCatalog(p) \/ UndoActive(p) \/ UndoBase(p) \/ UndoConfig(p) \/ UndoDirs(p)
        \/ Report(p)
        \/ Crash(p)
  BY DEF Next
<1>2. CASE Refuse(p) \/ Report(p) \/ Crash(p)
  BY <1>2, ExitKeeps DEF Refuse, Report, Crash
<1>3. QED
  BY <1>1, <1>2, StartKeeps, PrepareKeeps, ObserveKeeps, BoundaryKeeps, BeginLoginKeeps,
     AuthorizeKeeps, RegisterKeeps, ReauthorizeKeeps, SetPolicyKeeps, SetAliasKeeps,
     RemoveKeeps, NormalizeKeeps, LoadAccountKeeps, LoadAppKeeps, WriteBaseKeeps,
     WriteConfigKeeps, SaveCatalogKeeps, SaveActiveKeeps, UndoCatalogKeeps, UndoActiveKeeps,
     UndoBaseKeeps, UndoConfigKeeps, UndoDirsKeeps

LEMMA StutterKeeps ==
  ASSUME IInv, UNCHANGED vars
  PROVE  IInv'
<1>1. /\ UNCHANGED <<catalog, active, base, config, gate, pc, job>>
      /\ UNCHANGED <<seen, target, source, plan, issued, jobs, imported, loggedOut>>
  BY DEF vars, files, memory, history
<1>2. TypeOK' /\ GateHeld' /\ IdsIssued' /\ Consistent(catalog') /\ ConfigsBacked'
  BY <1>1 DEF IInv, TypeOK, GateHeld, IdsIssued, Accounts, ConfigsBacked, Backed
<1>3. \A p \in Proc : JobAt(p)' /\ SourceAt(p)' /\ WrittenAt(p)'
  BY <1>1 DEF IInv, JobAt, SourceAt, WrittenAt
<1>4. \A p \in Proc : PlanAt(p)'
  BY <1>1 DEF IInv, PlanAt, PlanSound, StoreAt, Backed
<1>5. ImportedShare' /\ LoginCanAsk' /\ ReauthsAgree'
  BY <1>1 DEF IInv, ImportedShare, SharedSince, LoginCanAsk, ReauthsAgree, InAppOf
<1>6. QED
  BY <1>2, <1>3, <1>4, <1>5 DEF IInv

\* In every state the files and what every process has in memory agree, at every step
\* of every job and of every rollback (account.rs).
THEOREM Invariant == Spec => []IInv
<1>1. IInv /\ [Next]_vars => IInv'
  BY StepKeeps, StutterKeeps
<1>2. QED
  BY InitInv, <1>1, PTL DEF Spec

-----------------------------------------------------------------------------
(* What follows for every state.                                             *)

\* A catalog on disk never names a configuration that is missing or another's, however
\* far an import or its rollback has come (import_existing_account_config).
THEOREM NoDanglingPath == Spec => []ConfigsBacked
<1>1. IInv => ConfigsBacked
  BY DEF IInv
<1>2. QED
  BY <1>1, Invariant, PTL

\* An import that fails with no more than its own error has undone what it did
\* (rollback_existing_account_import).
THEOREM FailedImportUndone == Spec => []ImportUndone
<1>1. ASSUME IInv, NEW p \in Proc, pc[p] = "failed", plan[p].clean
      PROVE  /\ catalog = plan[p].found /\ active = plan[p].active
             /\ base[source[p].app] = plan[p].base
             /\ config[plan[p].account] = plan[p].config
  <2>1. pc[p] \in Gated
    BY <1>1 DEF Gated, Undoing
  <2>2. StoreAt(p) /\ WrittenAt(p)
    BY <1>1, <2>1, WhileGated
  <2>3. QED
    BY <1>1, <2>2 DEF StoreAt, WrittenAt
<1>2. IInv => ImportUndone
  BY <1>1 DEF ImportUndone
<1>3. QED
  BY <1>2, Invariant, PTL

\* A login is never set up with no scope to ask for, or one beyond what it has seen,
\* if the app has a core scope (refresh_app_boundary, begin_login).
THEOREM LoginsCanAsk == Spec => []LoginCanAsk
<1>1. IInv => LoginCanAsk
  BY DEF IInv
<1>2. QED
  BY <1>1, Invariant, PTL

\* No two accounts are of one identity, although every job looks for the identity
\* under the gate only after it has asked the CLI (finish_login, imports).
THEOREM IdentitiesOnce == Spec => []NoDuplicates
<1>1. IInv => NoDuplicates
  BY DEF IInv, Consistent, NoDuplicates, Identity, Accounts
<1>2. QED
  BY <1>1, Invariant, PTL

-----------------------------------------------------------------------------
(* What a step may never do.                                                 *)

LEMMA WhoChangesTheCatalog ==
  ASSUME IInv, Next, catalog' # catalog
  PROVE  \E p \in Proc :
           \/ Boundary(p) \/ Register(p) \/ SetPolicy(p) \/ SetAlias(p)
           \/ Remove(p) \/ Normalize(p) \/ SaveCatalog(p) \/ UndoCatalog(p)
<1>1. PICK p \in Proc :
        \/ \E j \in Jobs : Start(p, j)
        \/ Prepare(p) \/ Observe(p) \/ Boundary(p) \/ BeginLogin(p) \/ Authorize(p)
        \/ Refuse(p) \/ Register(p) \/ Reauthorize(p) \/ SetPolicy(p) \/ SetAlias(p)
        \/ Remove(p) \/ Normalize(p)
        \/ LoadAccount(p) \/ LoadApp(p)
        \/ WriteBase(p) \/ WriteConfig(p) \/ SaveCatalog(p) \/ SaveActive(p)
        \/ UndoCatalog(p) \/ UndoActive(p) \/ UndoBase(p) \/ UndoConfig(p) \/ UndoDirs(p)
        \/ Report(p)
        \/ Crash(p)
  BY DEF Next
<1>2. CASE \/ \E j \in Jobs : Start(p, j)
           \/ Prepare(p) \/ Observe(p) \/ BeginLogin(p) \/ Authorize(p)
           \/ Refuse(p) \/ Report(p) \/ Crash(p) \/ LoadAccount(p) \/ LoadApp(p)
  BY <1>2 DEF Start, Prepare, Observe, BeginLogin, Authorize, Refuse, Report, Crash,
              LoadAccount, LoadApp, files
<1>3. CASE \/ Reauthorize(p) \/ WriteBase(p) \/ WriteConfig(p) \/ SaveActive(p)
           \/ UndoActive(p) \/ UndoBase(p) \/ UndoConfig(p) \/ UndoDirs(p)
  BY <1>3 DEF Reauthorize, WriteBase, WriteConfig, SaveActive, UndoActive, UndoBase,
              UndoConfig, UndoDirs
<1>4. QED
  BY <1>1, <1>2, <1>3

\* From one catalog to another, no policy of which something is left gets more, and
\* what is recorded of the accounts stays.
Narrows(c, d) ==
  \A a \in DOMAIN c.apps \cap DOMAIN d.apps :
    \/ d.apps[a].policy \subseteq c.apps[a].policy
    \/ c.apps[a].policy \cap d.apps[a].available = {}
KeepsIdentities(c, d) ==
  \A i \in DOMAIN c.accounts \cap DOMAIN d.accounts :
    /\ d.accounts[i].app = c.accounts[i].app /\ d.accounts[i].user = c.accounts[i].user
    /\ c.accounts[i].shared => d.accounts[i].shared
KeepsAliases(c, d) ==
  \A i \in DOMAIN c.accounts \cap DOMAIN d.accounts : d.accounts[i].alias = c.accounts[i].alias

LEMMA BoundaryNarrows ==
  ASSUME IInv, NEW p \in Proc, Boundary(p), catalog' # catalog
  PROVE  Narrows(catalog, catalog') /\ catalog'.accounts = catalog.accounts
<1> DEFINE a == source[p].app
           rec == Bounded(catalog.apps[a], seen[p])
<1>1. /\ a \in Apps /\ catalog' = WithApp(catalog, a, rec)
      /\ catalog \in Catalog /\ seen[p] \in SUBSET Scope
  BY DEF Boundary, IInv, TypeOK
<1>2. /\ a \in App /\ catalog.apps[a] \in AppRec /\ catalog.apps[a].policy \in SUBSET Scope
  BY <1>1, CatalogFields, AppFields DEF Apps
<1>3. /\ rec \in AppRec /\ rec.available = seen[p]
      /\ rec.policy = Narrowed(catalog.apps[a].policy, seen[p])
  BY <1>1, <1>2, BoundaryChanged
<1>4. \/ rec.policy \subseteq catalog.apps[a].policy
      \/ catalog.apps[a].policy \cap rec.available = {}
  BY <1>1, <1>2, <1>3, NarrowedFits
<1> HIDE DEF rec
<1>5. /\ catalog'.accounts = catalog.accounts /\ catalog'.apps[a] = rec
      /\ \A b \in DOMAIN catalog.apps \ {a} : catalog'.apps[b] = catalog.apps[b]
  BY <1>1, <1>2, <1>3, AppAdded
<1>6. QED
  BY <1>4, <1>5 DEF Narrows

LEMMA NormalizeNarrows ==
  ASSUME IInv, NEW p \in Proc, Normalize(p)
  PROVE  Narrows(catalog, catalog') /\ catalog'.accounts = catalog.accounts
<1> DEFINE f == [a \in Apps |-> [catalog.apps[a] EXCEPT
                                   !.policy = Narrowed(@, catalog.apps[a].available)]]
<1>1. catalog' = [catalog EXCEPT !.apps = f] /\ catalog \in Catalog
  BY DEF Normalize, IInv, TypeOK
<1>2. ASSUME NEW a \in Apps
      PROVE  \/ f[a].policy \subseteq catalog.apps[a].policy
             \/ catalog.apps[a].policy \cap f[a].available = {}
  <2>1. catalog.apps[a] \in AppRec
    BY <1>1, CatalogFields DEF Apps
  <2>2. /\ catalog.apps[a].policy \in SUBSET Scope
        /\ catalog.apps[a].available \in SUBSET Scope
    BY <2>1, AppFields
  <2>3. LET policy == Narrowed(catalog.apps[a].policy, catalog.apps[a].available)
        IN /\ policy \in SUBSET Scope
           /\ \/ policy \subseteq catalog.apps[a].policy
              \/ catalog.apps[a].policy \cap catalog.apps[a].available = {}
    BY <2>2, NarrowedFits
  <2>4. QED
    BY <2>1, <2>3, PolicyChanged
<1>3. DOMAIN f = Apps
  OBVIOUS
<1> HIDE DEF f
<1>4. catalog'.apps = f /\ catalog'.accounts = catalog.accounts
  BY <1>1, CatalogFields
<1>5. QED
  BY <1>2, <1>3, <1>4 DEF Narrows, Apps

LEMMA RegisterAdds ==
  ASSUME IInv, NEW p \in Proc, Register(p), catalog' # catalog
  PROVE  /\ catalog'.apps = catalog.apps
         /\ KeepsIdentities(catalog, catalog') /\ KeepsAliases(catalog, catalog')
<1> DEFINE s == source[p]
<1>1. PICK u \in s.users, i \in Account \ issued :
        catalog' = WithAccount(catalog, i, [app |-> s.app, user |-> u,
                                            alias |-> None, shared |-> FALSE])
  BY DEF Register
<1> DEFINE rec == [app |-> s.app, user |-> u, alias |-> None, shared |-> FALSE]
<1>2. /\ catalog \in Catalog /\ i \notin Accounts /\ s \in Config
  BY Parts DEF Register, Commit, IInv, TypeOK, SourceAt, Asked, IdsIssued
<1>3. rec \in AccountRec /\ catalog' = WithAccount(catalog, i, rec)
  BY <1>1, <1>2, ConfigFields DEF AccountRec
<1> HIDE DEF rec
<1>4. /\ catalog'.apps = catalog.apps
      /\ \A k \in DOMAIN catalog.accounts \ {i} : catalog'.accounts[k] = catalog.accounts[k]
  BY <1>2, <1>3, AccountAdded
<1>5. QED
  BY <1>2, <1>4 DEF KeepsIdentities, KeepsAliases, Accounts

LEMMA SetAliasKeepsIdentities ==
  ASSUME IInv, NEW p \in Proc, SetAlias(p)
  PROVE  catalog'.apps = catalog.apps /\ KeepsIdentities(catalog, catalog')
<1> DEFINE j == job[p]
           i == j.account
           rec == [catalog.accounts[i] EXCEPT !.alias = j.alias]
<1>1. /\ catalog \in Catalog /\ j \in Job /\ j.op = "alias" /\ i \in Accounts
      /\ catalog' = WithAccount(catalog, i, rec)
  BY Parts DEF SetAlias, Commit, IInv, TypeOK, JobAt
<1>2. /\ i \in Account /\ j.alias \in Alias \cup {None} /\ catalog.accounts[i] \in AccountRec
  BY <1>1, JobFields, CatalogFields DEF Accounts
<1>3. /\ rec \in AccountRec /\ rec.app = catalog.accounts[i].app
      /\ rec.user = catalog.accounts[i].user /\ rec.shared = catalog.accounts[i].shared
  BY <1>2, AliasChanged
<1> HIDE DEF rec
<1>4. /\ catalog'.apps = catalog.apps /\ catalog'.accounts[i] = rec
      /\ \A k \in DOMAIN catalog.accounts \ {i} : catalog'.accounts[k] = catalog.accounts[k]
  BY <1>1, <1>2, <1>3, AccountAdded
<1>5. QED
  BY <1>3, <1>4 DEF KeepsIdentities

LEMMA RemoveKeepsTheRest ==
  ASSUME IInv, NEW p \in Proc, Remove(p), catalog' # catalog
  PROVE  /\ catalog'.apps = catalog.apps
         /\ KeepsIdentities(catalog, catalog') /\ KeepsAliases(catalog, catalog')
<1> DEFINE rest == [catalog EXCEPT !.accounts = Without(@, job[p].account)]
<1>1. catalog' = rest /\ catalog \in Catalog
  BY DEF Remove, IInv, TypeOK
<1>2. /\ rest.apps = catalog.apps
      /\ \A k \in DOMAIN rest.accounts : rest.accounts[k] = catalog.accounts[k]
  BY <1>1, AccountRemoved
<1> HIDE DEF rest
<1>3. QED
  BY <1>1, <1>2 DEF KeepsIdentities, KeepsAliases

LEMMA SaveExtends ==
  ASSUME IInv, NEW p \in Proc, SaveCatalog(p), catalog' # catalog
  PROVE  /\ Narrows(catalog, catalog')
         /\ KeepsIdentities(catalog, catalog') /\ KeepsAliases(catalog, catalog')
<1>1. pc[p] = "catalog" /\ pc[p] \in Gated /\ catalog' = plan[p].next
  BY DEF SaveCatalog, Gated
<1>2. PlanSound(p) /\ StoreAt(p)
  BY <1>1, WhileGated
<1>3. catalog = plan[p].found /\ Extends(catalog', catalog, source[p].app, plan[p].account)
  BY <1>1, <1>2 DEF PlanSound, StoreAt
<1>4. Narrows(catalog, catalog')
  BY <1>3 DEF Narrows, Extends
<1>5. KeepsIdentities(catalog, catalog') /\ KeepsAliases(catalog, catalog')
  BY <1>3 DEF KeepsIdentities, KeepsAliases, Extends
<1>6. QED
  BY <1>4, <1>5

LEMMA SetPolicyKeepsAccounts ==
  ASSUME IInv, NEW p \in Proc, SetPolicy(p)
  PROVE  catalog'.accounts = catalog.accounts
  BY CatalogFields DEF SetPolicy, WithApp, IInv, TypeOK

LEMMA SameApps ==
  ASSUME NEW c, NEW d, d.apps = c.apps
  PROVE  Narrows(c, d)
  BY DEF Narrows

LEMMA SameAccounts ==
  ASSUME NEW c, NEW d, d.accounts = c.accounts
  PROVE  KeepsIdentities(c, d) /\ KeepsAliases(c, d)
  BY DEF KeepsIdentities, KeepsAliases

\* No refresh, login, import or opening of the store widens a policy the user has cut
\* down, whatever boundary it has read and whatever came in between.
THEOREM PoliciesOnlyNarrow == Spec => PolicyOnlyNarrows
<1>1. ASSUME IInv, [Next]_vars, catalog' # catalog
      PROVE  \A a \in Apps \cap Apps' :
               \/ catalog'.apps[a].policy \subseteq catalog.apps[a].policy
               \/ catalog.apps[a].policy \cap catalog'.apps[a].available = {}
               \/ \E p \in Proc : pc[p] = "commit" /\ job[p].op = "policy"
               \/ \E p \in Proc : pc[p] = "undoCatalog"
  <2>1. Next
    BY <1>1 DEF vars, files
  <2>2. PICK p \in Proc :
          \/ Boundary(p) \/ Register(p) \/ SetPolicy(p) \/ SetAlias(p)
          \/ Remove(p) \/ Normalize(p) \/ SaveCatalog(p) \/ UndoCatalog(p)
    BY <1>1, <2>1, WhoChangesTheCatalog
  <2>3. CASE SetPolicy(p)
    BY <2>3 DEF SetPolicy, Commit
  <2>4. CASE UndoCatalog(p)
    BY <2>4 DEF UndoCatalog
  <2>5. CASE ~SetPolicy(p) /\ ~UndoCatalog(p)
    <3>1. Narrows(catalog, catalog')
      BY <1>1, <2>2, <2>5, BoundaryNarrows, RegisterAdds, SetAliasKeepsIdentities,
         RemoveKeepsTheRest, NormalizeNarrows, SaveExtends, SameApps
    <3>2. QED
      BY <3>1 DEF Narrows, Apps
  <2>6. QED
    BY <2>3, <2>4, <2>5
<1>2. IInv /\ [Next]_vars =>
        [ \A a \in Apps \cap Apps' :
            \/ catalog'.apps[a].policy \subseteq catalog.apps[a].policy
            \/ catalog.apps[a].policy \cap catalog'.apps[a].available = {}
            \/ \E p \in Proc : pc[p] = "commit" /\ job[p].op = "policy"
            \/ \E p \in Proc : pc[p] = "undoCatalog" ]_catalog
  BY <1>1
<1>3. QED
  BY <1>2, Invariant, PTL DEF Spec, PolicyOnlyNarrows

\* An account stays the account of its user, under its alias, and sharing its login, at
\* every step of every job.
THEOREM RecordsStay == Spec => RecordsKept
<1>1. ASSUME IInv, [Next]_vars, catalog' # catalog
      PROVE  \A i \in Accounts \cap Accounts' :
               LET old == catalog.accounts[i]
                   new == catalog'.accounts[i]
               IN /\ new.app = old.app /\ new.user = old.user
                  /\ \/ new.alias = old.alias
                     \/ \E p \in Proc : pc[p] = "commit" /\ job[p].op = "alias"
                  /\ \/ old.shared => new.shared
                     \/ \E p \in Proc : pc[p] = "undoCatalog"
  <2>1. Next
    BY <1>1 DEF vars, files
  <2>2. PICK p \in Proc :
          \/ Boundary(p) \/ Register(p) \/ SetPolicy(p) \/ SetAlias(p)
          \/ Remove(p) \/ Normalize(p) \/ SaveCatalog(p) \/ UndoCatalog(p)
    BY <1>1, <2>1, WhoChangesTheCatalog
  <2>3. CASE SetAlias(p)
    <3>1. KeepsIdentities(catalog, catalog')
      BY <1>1, <2>3, SetAliasKeepsIdentities
    <3>2. pc[p] = "commit" /\ job[p].op = "alias"
      BY <2>3 DEF SetAlias, Commit
    <3>3. QED
      BY <3>1, <3>2 DEF KeepsIdentities, Accounts
  <2>4. CASE UndoCatalog(p)
    <3>1. pc[p] = "undoCatalog" /\ pc[p] \in Gated /\ catalog' = plan[p].found
      BY <1>1, <2>4 DEF UndoCatalog, Gated, Undoing
    <3>2. /\ catalog = plan[p].next
          /\ Extends(plan[p].next, plan[p].found, source[p].app, plan[p].account)
      BY <1>1, <3>1, WhileGated DEF StoreAt, PlanSound
    <3>3. \A i \in DOMAIN catalog'.accounts :
            /\ catalog.accounts[i].app = catalog'.accounts[i].app
            /\ catalog.accounts[i].user = catalog'.accounts[i].user
            /\ catalog.accounts[i].alias = catalog'.accounts[i].alias
      BY <3>1, <3>2 DEF Extends
    <3>4. QED
      BY <3>1, <3>3 DEF Accounts
  <2>5. CASE ~SetAlias(p) /\ ~UndoCatalog(p)
    <3>1. KeepsIdentities(catalog, catalog') /\ KeepsAliases(catalog, catalog')
      BY <1>1, <2>2, <2>5, BoundaryNarrows, RegisterAdds, SetPolicyKeepsAccounts,
         RemoveKeepsTheRest, NormalizeNarrows, SaveExtends, SameAccounts
    <3>2. QED
      BY <3>1 DEF KeepsIdentities, KeepsAliases, Accounts
  <2>6. QED
    BY <2>3, <2>4, <2>5
<1>2. IInv /\ [Next]_vars =>
        [ \A i \in Accounts \cap Accounts' :
            LET old == catalog.accounts[i]
                new == catalog'.accounts[i]
            IN /\ new.app = old.app /\ new.user = old.user
               /\ \/ new.alias = old.alias
                  \/ \E p \in Proc : pc[p] = "commit" /\ job[p].op = "alias"
               /\ \/ old.shared => new.shared
                  \/ \E p \in Proc : pc[p] = "undoCatalog" ]_catalog
  BY <1>1
<1>3. QED
  BY <1>2, Invariant, PTL DEF Spec, RecordsKept

\* Nothing that is done to an imported account logs its existing login out, nor does
\* what is done to another account (remove_account).
THEOREM SharedLoginsStay == Spec => SharedLoginsKept
<1>1. ASSUME IInv, [Next]_vars, loggedOut' # loggedOut,
             NEW i \in imported \cap Accounts, Identity(i) \in loggedOut'
      PROVE  Identity(i) \in loggedOut
  <2>1. Next
    BY <1>1 DEF vars, history
  <2>2. PICK p \in Proc : Prepare(p) \/ Authorize(p) \/ Remove(p)
    <3>1. PICK p \in Proc :
            \/ \E j \in Jobs : Start(p, j)
            \/ Prepare(p) \/ Observe(p) \/ Boundary(p) \/ BeginLogin(p) \/ Authorize(p)
            \/ Refuse(p) \/ Register(p) \/ Reauthorize(p) \/ SetPolicy(p) \/ SetAlias(p)
            \/ Remove(p) \/ Normalize(p)
            \/ LoadAccount(p) \/ LoadApp(p)
            \/ WriteBase(p) \/ WriteConfig(p) \/ SaveCatalog(p) \/ SaveActive(p)
            \/ UndoCatalog(p) \/ UndoActive(p) \/ UndoBase(p) \/ UndoConfig(p) \/ UndoDirs(p)
            \/ Report(p)
            \/ Crash(p)
      BY <2>1 DEF Next
    <3>2. \/ Prepare(p) \/ Authorize(p) \/ Remove(p)
          \/ \E j \in Jobs : Start(p, j)
          \/ Observe(p) \/ Boundary(p) \/ BeginLogin(p) \/ Refuse(p) \/ Register(p)
          \/ Reauthorize(p) \/ SetPolicy(p) \/ SetAlias(p) \/ Normalize(p)
          \/ LoadAccount(p) \/ LoadApp(p)
          \/ WriteBase(p) \/ WriteConfig(p) \/ SaveCatalog(p) \/ SaveActive(p)
          \/ UndoCatalog(p) \/ UndoActive(p) \/ UndoBase(p) \/ UndoConfig(p) \/ UndoDirs(p)
          \/ Report(p) \/ Crash(p)
      BY <3>1
    <3>3. CASE \/ \E j \in Jobs : Start(p, j)
               \/ Observe(p) \/ Boundary(p) \/ BeginLogin(p) \/ Refuse(p) \/ Register(p)
               \/ Reauthorize(p) \/ SetPolicy(p) \/ SetAlias(p) \/ Normalize(p)
               \/ LoadAccount(p) \/ LoadApp(p)
      BY <1>1, <3>3 DEF Start, Observe, Boundary, BeginLogin, Refuse, Register, Reauthorize,
         SetPolicy, SetAlias, Normalize, LoadAccount, LoadApp, history
    <3>4. CASE \/ WriteBase(p) \/ WriteConfig(p) \/ SaveCatalog(p) \/ SaveActive(p)
               \/ UndoCatalog(p) \/ UndoActive(p) \/ UndoBase(p) \/ UndoConfig(p)
               \/ UndoDirs(p) \/ Report(p) \/ Crash(p)
      BY <1>1, <3>4 DEF WriteBase, WriteConfig, SaveCatalog, SaveActive, UndoCatalog,
         UndoActive, UndoBase, UndoConfig, UndoDirs, Report, Crash, history
    <3>5. QED
      BY <3>2, <3>3, <3>4
  <2>3. CASE Prepare(p) \/ Authorize(p)
    BY <1>1, <2>3 DEF Prepare, Authorize
  <2>4. CASE Remove(p)
    <3> DEFINE k == job[p].account
    <3>1. /\ k \in Accounts
          /\ loggedOut' = IF catalog.accounts[k].shared THEN loggedOut
                          ELSE loggedOut \cup {Identity(k)}
      BY <2>4 DEF Remove
    <3>2. catalog.accounts[i].shared
      BY <1>1 DEF IInv, ImportedShare, SharedSince, Accounts
    <3>3. ~catalog.accounts[k].shared => Identity(k) # Identity(i)
      BY <1>1, <3>1, <3>2 DEF IInv, Consistent, Identity, Accounts
    <3>4. QED
      BY <1>1, <3>1, <3>3
  <2>5. QED
    BY <2>2, <2>3, <2>4
<1>2. IInv /\ [Next]_vars =>
        [ \A i \in imported \cap Accounts :
            Identity(i) \in loggedOut' => Identity(i) \in loggedOut ]_loggedOut
  BY <1>1
<1>3. QED
  BY <1>2, Invariant, PTL DEF Spec, SharedLoginsKept

LEMMA AtMostOne ==
  ASSUME NEW S, \A x, y \in S : x = y
  PROVE  Cardinality(S) <= 1
<1>1. CASE S = {}
  BY <1>1, FS_EmptySet
<1>2. CASE S # {}
  <2>1. PICK x \in S : TRUE
    BY <1>2
  <2>2. S = {x}
    BY <2>1
  <2>3. Cardinality({x}) = 1
    BY FS_Singleton, Zenon
  <2>4. QED
    BY <2>2, <2>3
<1>3. QED
  BY <1>1, <1>2

\* Selecting an account by its id or by its alias is never ambiguous, and the id of an
\* app means that app even if another one is labelled with it (selector.rs).
THEOREM SelectorsAreDefinite ==
  ASSUME IsFiniteSet(App)
  PROVE  Spec => []SelectorsResolve
<1>1. ASSUME IInv, NEW sel \in Selector, sel.by = "id"
      PROVE  Cardinality(Matches(catalog, sel)) <= 1
  <2>1. \A i, k \in Matches(catalog, sel) : i = k
    BY <1>1 DEF Matches
  <2>2. QED
    BY <2>1, AtMostOne
<1>2. ASSUME IInv, NEW sel \in Selector, sel.by = "alias"
      PROVE  Cardinality(Matches(catalog, sel)) <= 1
  <2>1. sel.value # None
    BY <1>2, NoneApart DEF Selector
  <2>2. \A i, k \in Matches(catalog, sel) :
          /\ i \in Accounts /\ k \in Accounts
          /\ catalog.accounts[i].alias = sel.value /\ catalog.accounts[k].alias = sel.value
    BY <1>2 DEF Matches, Aliased, InScope, Accounts
  <2>3. \A i, k \in Matches(catalog, sel) : i = k
    BY <1>2, <2>1, <2>2 DEF IInv, Consistent, Accounts
  <2>4. QED
    BY <2>3, AtMostOne
<1>3. ASSUME IInv, NEW sel \in Selector, sel.app \in Apps,
             NEW i \in Matches(catalog, sel)
      PROVE  catalog.accounts[i].app = sel.app
  <2>1. i \in InScope(catalog, sel.app)
    BY <1>3 DEF Matches, Aliased, Bare, Named, Selector
  <2>2. catalog.accounts[i].app \in AppsOf(catalog, sel.app) /\ sel.app \in App
    BY <1>3, <2>1, CatalogFields DEF InScope, IInv, TypeOK, Apps
  <2> DEFINE found == {a \in DOMAIN catalog.apps :
                         a = sel.app \/ catalog.apps[a].label = sel.app}
  <2>3. sel.app \in found /\ sel.app # None
    BY <1>3, <2>2, NoneApart DEF Apps
  <2>4. found \in SUBSET App
    BY <1>3, CatalogFields DEF IInv, TypeOK
  <2>5. AppsOf(catalog, sel.app) = IF Cardinality(found) > 1 THEN found \cap {sel.app} ELSE found
    BY <2>3 DEF AppsOf
  <2> HIDE DEF found
  <2>6. CASE Cardinality(found) > 1
    BY <2>2, <2>5, <2>6
  <2>7. CASE ~(Cardinality(found) > 1)
    <3>1. IsFiniteSet(found)
      BY <2>4, FS_Subset
    <3>2. {sel.app} \in SUBSET found
      BY <2>3
    <3>3. /\ Cardinality(found) \in Nat /\ Cardinality({sel.app}) <= Cardinality(found)
          /\ Cardinality(found) = Cardinality({sel.app}) => found = {sel.app}
      BY <3>1, <3>2, FS_Subset, FS_CardinalityType
    <3>4. Cardinality({sel.app}) = 1
      BY FS_Singleton, Zenon
    <3>5. found = {sel.app}
      BY <2>7, <3>3, <3>4
    <3>6. QED
      BY <2>2, <2>5, <2>7, <3>5
  <2>8. QED
    BY <2>6, <2>7
<1>4. IInv => SelectorsResolve
  BY <1>1, <1>2, <1>3 DEF SelectorsResolve
<1>5. QED
  BY <1>4, Invariant, PTL
=============================================================================
