---------------------------- MODULE HealthRounds ----------------------------
(***************************************************************************)
(* The health of the accounts: the desktop's round every 15 minutes        *)
(* (main.rs), a check that the user asks for, and the watch over the       *)
(* number of slots in the official CLI's keychain (keychain_watch.rs).     *)
(*                                                                         *)
(* A check runs the official CLI without the gate and writes what it saw   *)
(* under the gate later.  The official CLI and the server behind it are    *)
(* external: an account's slot holds a token that is due (20 minutes or    *)
(* less to live) or not, and that the server accepts or not.  Only a       *)
(* verification asks the server; it renews the token, and a token that is  *)
(* rejected is deleted by the official CLI.                                *)
(***************************************************************************)
EXTENDS Integers, FiniteSets

CONSTANTS
  Account,   \* the accounts of the catalog, in its order
  MaxOthers, \* the other slots of the keychain: the Apps' secrets
  MaxEvents, \* bound: what happens to the keychain, restarts
  MaxFaults, \* bound: checks and observations that fail
  None

ASSUME HealthRoundsAssumption ==
  /\ Account \subseteq Nat /\ IsFiniteSet(Account) /\ MaxOthers \in Nat
  /\ MaxEvents \in Nat /\ MaxFaults \in Nat
  /\ None \notin Nat

Checker == {"round", "user"}
Token == [due: BOOLEAN, ok: BOOLEAN]
Health == {"ready", "reauth", "failure"} \* a temporary failure, or of the official CLI
Job == [account: Account, step: {"verify", "write"}, result: Health \cup {None}]
ASSUME NoneAssumption == None \notin Token /\ None \notin Job

VARIABLES
  slot,      \* the token in an account's slot, or None
  others,    \* the other slots
  health,    \* AccountRecord.health in the catalog
  watch,     \* the count in keychain-watch.json, or None
  phase,     \* where the desktop's round is
  left,      \* the accounts of its first pass
  retry,     \* the ones that its second pass comes back to
  force,     \* the ones to verify whatever the quick look says
  job,       \* the check a checker runs, or None
  renewed,   \* the accounts whose login has been renewed but not yet recorded
  events,    \* events so far
  faults,    \* faults so far
  desk,      \* history: the count at the desktop's last look, when it starts or in a round
  owed,      \* history: the accounts shown as logged out when a round found more
             \* slots than there were at the desktop's last look
  disturbed  \* history: accounts that others have changed since the round began,
             \* or of which it could learn nothing

keychain == <<slot, others>>
round == <<phase, left, retry, force>>
bounds == <<events, faults>>
vars == <<keychain, health, watch, round, job, renewed, bounds, desk, owed, disturbed>>

\* inspect_keychain counts the slots and reads none.
Count == others + Cardinality({a \in Account : slot[a] # None})
MaxCount == MaxOthers + Cardinality(Account)

TypeOK ==
  /\ slot \in [Account -> Token \cup {None}]
  /\ others \in 0..MaxOthers
  /\ health \in [Account -> Health]
  /\ watch \in 0..MaxCount \cup {None}
  /\ phase \in {"asleep", "checking", "over"}
  /\ left \in SUBSET Account /\ retry \in SUBSET Account /\ force \in SUBSET Account
  /\ job \in [Checker -> Job \cup {None}]
  /\ renewed \in SUBSET Account
  /\ events \in 0..MaxEvents /\ faults \in 0..MaxFaults
  /\ desk \in 0..MaxCount \cup {None}
  /\ owed \in SUBSET Account /\ disturbed \in SUBSET Account

Good == [due |-> FALSE, ok |-> TRUE]

Init ==
  /\ slot = [a \in Account |-> Good]
  /\ others = MaxOthers
  /\ health = [a \in Account |-> "ready"]
  /\ watch = None /\ desk = None
  /\ phase = "asleep" /\ left = {} /\ retry = {} /\ force = {}
  /\ job = [c \in Checker |-> None]
  /\ renewed = {}
  /\ events = 0 /\ faults = 0
  /\ owed = {} /\ disturbed = {}

-----------------------------------------------------------------------------
(* The keychain and the server. *)

Event == events < MaxEvents /\ events' = events + 1
Fault == faults < MaxFaults /\ faults' = faults + 1

\* A token comes within 20 minutes of its end.
Expire(a) ==
  /\ slot[a] # None /\ ~slot[a].due
  /\ slot' = [slot EXCEPT ![a].due = TRUE]
  /\ disturbed' = disturbed \cup {a}
  /\ UNCHANGED <<others, health, watch, round, job, renewed, bounds, desk, owed>>

\* The server gives up an account's token.
Revoke(a) ==
  /\ Event
  /\ slot[a] # None
  /\ slot' = [slot EXCEPT ![a].ok = FALSE]
  /\ disturbed' = disturbed \cup {a}
  /\ UNCHANGED <<others, health, watch, round, job, renewed, faults, desk, owed>>

\* Somebody deletes slots.
Wipe ==
  /\ Event
  /\ \E lost \in SUBSET Account :
       /\ slot' = [a \in Account |-> IF a \in lost THEN None ELSE slot[a]]
       /\ disturbed' = disturbed \cup lost
  /\ others' \in 0..others
  /\ UNCHANGED <<health, watch, round, job, renewed, faults, desk, owed>>

\* Slots that are missing are written back from a snapshot; the server may have
\* replaced their tokens since.
WriteBack ==
  /\ Event
  /\ \E back \in SUBSET {a \in Account : slot[a] = None} :
       /\ slot' \in {f \in [Account -> Token \cup {None}] :
                       \A a \in Account : IF a \in back THEN f[a] \in Token ELSE f[a] = slot[a]}
       /\ disturbed' = disturbed \cup back
  /\ others' \in others..MaxOthers
  /\ UNCHANGED <<health, watch, round, job, renewed, faults, desk, owed>>

\* The user logs in again: the official CLI stores the token ...
Login(a) ==
  /\ Event
  /\ slot' = [slot EXCEPT ![a] = Good]
  /\ renewed' = renewed \cup {a}
  /\ disturbed' = disturbed \cup {a}
  /\ UNCHANGED <<others, health, watch, round, job, faults, desk, owed>>

\* ... and the record follows, under the gate.
RecordLogin(a) ==
  /\ a \in renewed
  /\ renewed' = renewed \ {a}
  /\ health' = [health EXCEPT ![a] = "ready"]
  /\ disturbed' = disturbed \cup {a}
  /\ UNCHANGED <<keychain, watch, round, job, bounds, desk, owed>>

-----------------------------------------------------------------------------
(* keychain_watch.rs *)

\* is_mass_cliff
MassCliff(from, to) ==
  /\ to < from
  /\ to = 0 \/ from - to >= 3 \/ 2 * to < from

\* classify_keychain_delta
Delta(from, to) ==
  IF from = None THEN "firstSight"
  ELSE IF to > from THEN "rose"
  ELSE IF MassCliff(from, to) THEN "cliff"
  ELSE "unchanged"

\* should_skip_scheduled_verify
Skips(from, to) == Delta(from, to) = "cliff" \/ to = 0

\* Mutant of Persisted: a cliff is not written down, to be found again next time.
PersistedUnlessCliff(who) ==
  IF who = "doctor" \/ Delta(watch, Count) = "cliff" THEN watch ELSE Count

\* Mutant of Persisted: whoever observes writes it down, doctor too.
PersistedByAll(who) == Count

\* observe_keychain_slots writes the new count for the desktop and not for doctor.
Persisted(who) == IF who = "doctor" THEN watch ELSE Count

\* lpcctl doctor looks, as often as somebody wants.
Doctor ==
  /\ watch' = Persisted("doctor")
  /\ UNCHANGED <<keychain, health, round, job, renewed, bounds, desk, owed, disturbed>>

-----------------------------------------------------------------------------
(* The desktop's round. *)

\* After a rise, the accounts that the catalog shows as logged out are verified.
Forced == {a \in Account : Delta(watch, Count) = "rose" /\ health[a] = "reauth"}

\* What a round that sees more slots than the desktop has seen owes to the user.
Owed == {a \in Account : desk # None /\ Count > desk /\ health[a] = "reauth"}

\* The loop wakes up, and goes to sleep again after a cliff, or with no slots.
Begin ==
  /\ phase = "asleep"
  /\ watch' = Persisted("desktop")
  /\ desk' = Count
  /\ IF Skips(watch, Count)
       THEN UNCHANGED <<round, owed, disturbed>>
       ELSE /\ phase' = "checking"
            /\ left' = Account /\ retry' = {} /\ force' = Forced
            /\ owed' = Owed /\ disturbed' = {}
  /\ UNCHANGED <<keychain, health, job, renewed, bounds>>

\* The catalog cannot be loaded: the round has no accounts (unwrap_or_default), and
\* what the count says is used up.
BeginEmpty ==
  /\ phase = "asleep" /\ Fault
  /\ watch' = Persisted("desktop")
  /\ desk' = Count
  /\ ~Skips(watch, Count)
  /\ phase' = "checking"
  /\ left' = {} /\ retry' = {} /\ force' = {}
  /\ owed' = {} /\ disturbed' = Account
  /\ UNCHANGED <<keychain, health, job, renewed, events>>

\* keychain-watch.json cannot be read or not be written: what the count says is
\* lost to this round, also when only the writing failed, and the round goes on.
BeginBlind ==
  /\ phase = "asleep" /\ Fault
  /\ phase' = "checking"
  /\ left' = Account /\ retry' = {} /\ force' = {}
  /\ owed' = {} /\ disturbed' = {}
  /\ UNCHANGED <<keychain, health, watch, job, renewed, events, desk>>

\* rebuild_tray, and the window is told.
Finish ==
  /\ phase = "checking" /\ job["round"] = None /\ left = {} /\ retry = {}
  /\ phase' = "over"
  /\ UNCHANGED <<keychain, health, watch, left, retry, force, job, renewed, bounds,
                 desk, owed, disturbed>>

Sleep ==
  /\ phase = "over"
  /\ phase' = "asleep"
  /\ left' = {} /\ retry' = {} /\ force' = {} /\ owed' = {} /\ disturbed' = {}
  /\ UNCHANGED <<keychain, health, watch, job, renewed, bounds, desk>>

\* The desktop dies and is started again.  It looks at the count, and raises the
\* alarm after a cliff; the look fails if the catalog or keychain-watch.json cannot
\* be read or written.  The first round follows at once, and compares the count with
\* what this look has written down: it verifies after a cliff, and does not insist
\* after a rise, that happened while no desktop looked.
Restart ==
  /\ Event
  /\ \/ watch' = Persisted("desktop") /\ desk' = Count /\ UNCHANGED faults
     \/ Fault /\ UNCHANGED <<watch, desk>>
  /\ phase' = "asleep" /\ left' = {} /\ retry' = {} /\ force' = {}
  /\ job' = [job EXCEPT !["round"] = None]
  /\ owed' = {} /\ disturbed' = {}
  /\ UNCHANGED <<keychain, health, renewed>>

-----------------------------------------------------------------------------
(* refresh_account_health_with *)

First(accounts) == CHOOSE a \in accounts : \A b \in accounts : a <= b

\* Whose turn it is: in a round the accounts come in the catalog's order, and then
\* those that were busy; the user asks for any (check_account, lpcctl account
\* check), where the second attempt after an answer that did not come is a check
\* like the first.
Turn(c) ==
  IF c = "user" THEN Account
  ELSE IF phase # "checking" \/ left \cup retry = {} THEN {}
  ELSE {First(IF left # {} THEN left ELSE retry)}

Forces(c, a) == c = "round" /\ a \in force

At(c, step) == job[c] # None /\ job[c].step = step

Doing(c, a, step, result) ==
  job' = [job EXCEPT ![c] = [account |-> a, step |-> step, result |-> result]]

\* needs_verify: there is no valid token, or it is due.
NeedsVerify(a) == slot[a] = None \/ slot[a].due

\* auth status, which does not ask the server: good news ends the check.
Look(c, a) ==
  /\ job[c] = None /\ a \in Turn(c)
  /\ IF Forces(c, a) \/ NeedsVerify(a)
       THEN Doing(c, a, "verify", None)
       ELSE Doing(c, a, "write", "ready")
  /\ UNCHANGED <<keychain, health, watch, round, renewed, bounds, desk, owed, disturbed>>

\* Another one than the round has changed something of the account.
Disturbed(c, a) == disturbed' = IF c = "round" THEN disturbed ELSE disturbed \cup {a}

\* auth status --verify
Verify(c) ==
  /\ At(c, "verify")
  /\ LET a == job[c].account
         renews == slot[a] # None /\ slot[a].ok IN
       /\ slot' = [slot EXCEPT ![a] = IF renews THEN Good ELSE None]
       /\ Doing(c, a, "write", IF renews THEN "ready" ELSE "reauth")
       /\ Disturbed(c, a)
  /\ UNCHANGED <<others, health, watch, round, renewed, bounds, desk, owed>>

\* The round is through with an account.
Tick(c, a) ==
  IF c = "round"
    THEN left' = left \ {a} /\ retry' = retry \ {a} /\ UNCHANGED <<phase, force>>
    ELSE UNCHANGED round

\* Nothing could be learnt of the account.
Vague(c, a) == disturbed' = IF c = "round" THEN disturbed \cup {a} ELSE disturbed

\* What a checker is asking the official CLI about.
Asking(c) ==
  IF job[c] = None THEN Turn(c)
  ELSE IF job[c].step = "verify" THEN {job[c].account} ELSE {}

\* The official CLI reports that the server could not be reached, or fails.
Unsure(c) ==
  /\ Fault
  /\ \E a \in Asking(c) :
       /\ Doing(c, a, "write", "failure")
       /\ Vague(c, a)
  /\ UNCHANGED <<keychain, health, watch, round, renewed, events, desk, owed>>

\* Mutant of Inconclusive: what was busy once is left for the next round.
InconclusiveOnce(c, a) == Tick(c, a) /\ UNCHANGED disturbed

\* SkippedBusy: the first time, the round comes back to the account at its end.
Inconclusive(c, a) ==
  IF c = "round" /\ a \in left
    THEN left' = left \ {a} /\ retry' = retry \cup {a} /\ UNCHANGED <<phase, force, disturbed>>
    ELSE Tick(c, a) /\ Vague(c, a)

\* The keychain lock is busy or the official CLI does not answer in time: nothing
\* is written.
Busy(c) ==
  /\ Fault
  /\ \E a \in Asking(c) : Inconclusive(c, a)
  /\ job' = [job EXCEPT ![c] = None]
  /\ UNCHANGED <<keychain, health, watch, renewed, events, desk, owed>>

\* What was seen is written under the gate, over what others have written since.
Write(c) ==
  /\ At(c, "write")
  /\ LET a == job[c].account IN
       /\ health' = [health EXCEPT ![a] = job[c].result]
       /\ Tick(c, a)
       /\ Disturbed(c, a)
  /\ job' = [job EXCEPT ![c] = None]
  /\ UNCHANGED <<keychain, watch, renewed, bounds, desk, owed>>

\* The gate is not to be had within its 30 s, or the catalog cannot be read.
WriteFails(c) ==
  /\ At(c, "write") /\ Fault
  /\ Tick(c, job[c].account)
  /\ Vague(c, job[c].account)
  /\ job' = [job EXCEPT ![c] = None]
  /\ UNCHANGED <<keychain, health, watch, renewed, events, desk, owed>>

Next ==
  \/ Wipe \/ WriteBack \/ Doctor
  \/ Begin \/ BeginEmpty \/ BeginBlind \/ Finish \/ Sleep \/ Restart
  \/ \E a \in Account :
       Expire(a) \/ Revoke(a) \/ Login(a) \/ RecordLogin(a)
  \/ \E c \in Checker :
       \/ \E a \in Account : Look(c, a)
       \/ Verify(c) \/ Write(c) \/ Unsure(c) \/ Busy(c) \/ WriteFails(c)

Spec == Init /\ [][Next]_vars

Round ==
  \/ Begin \/ Finish \/ Sleep \/ Verify("round") \/ Write("round")
  \/ \E a \in Account : Look("round", a)

\* The desktop's thread runs, wakes up and finds the services free; the official
\* CLI answers or is killed; time passes.
Fairness ==
  /\ WF_vars(Round)
  /\ WF_vars(Verify("user") \/ Write("user"))
  /\ \A a \in Account : WF_vars(Expire(a)) /\ WF_vars(RecordLogin(a))

FairSpec == Spec /\ Fairness

-----------------------------------------------------------------------------
(* Properties. *)

Alive(a) == slot[a] # None /\ slot[a].ok
Truth(a) == IF Alive(a) THEN "ready" ELSE "reauth"

\* What a check can find out: whether the server accepts the token.  Of one that is
\* not due it takes the official CLI's word, except after slots have been written
\* back, for the accounts shown as logged out.
Told(a) ==
  \/ health[a] = Truth(a)
  \/ a \notin force /\ slot[a] # None /\ ~slot[a].due

\* When a round is over, the catalog tells the truth about every account that
\* nobody else has changed since the round began and of which something could be
\* learnt, at once or on coming back to it.
RoundTells == phase = "over" => \A a \in Account \ disturbed : Told(a)

\* "After the slots rise from the last look, the control plane forces status --verify
\* on the accounts that still need a login" (KEYCHAIN-DURABILITY.md:125): when a round
\* that found more slots than the desktop had seen is over, each account that was
\* shown as logged out tells what the server says, and not what the official CLI says
\* by itself; also one that was busy at first, and whoever else has looked at the
\* count in between.  Exempt are accounts that others have changed or of which nothing
\* could be learnt, a round without the catalog or keychain-watch.json, and slots that
\* came back before a look at the start of the desktop (see Restart).
RiseVerified == phase = "over" => \A a \in owed \ disturbed : health[a] = Truth(a)

\* Once things are left alone, the catalog comes to tell the truth about every
\* account and stays with it, whatever was wiped, written back, renewed, revoked
\* or written late by an old check; or the keychain is empty.
HealthConverges == \A a \in Account : <>[](Count = 0 \/ health[a] = Truth(a))

-----------------------------------------------------------------------------
(* The inductive invariant. *)

\* The file holds what the desktop saw last: nobody else writes it.
WatchSeen == watch = desk

\* A round insists on every account that it owes it to.
OwedForced == owed \subseteq force

\* What is about to be written is a result.
ResultKnown == \A c \in Checker : At(c, "write") => job[c].result \in Health

\* The round works on an account that it is not through with.
RoundPlace ==
  /\ job["round"] # None =>
       phase = "checking" /\ job["round"].account \in left \cup retry
  /\ phase # "checking" => left = {} /\ retry = {}

\* What the round is about to write is what can be found out.
ResultTells(a) ==
  \/ job["round"].result = Truth(a)
  \/ job["round"].result = "ready" /\ a \notin force /\ slot[a] # None /\ ~slot[a].due

\* The accounts that the round is through with are told, and the one it works on
\* is going to be.
RoundSoFar ==
  phase # "asleep" =>
    \A a \in Account \ disturbed :
      /\ a \notin left \cup retry => Told(a)
      /\ At("round", "write") /\ job["round"].account = a => ResultTells(a)

IInv == TypeOK /\ WatchSeen /\ OwedForced /\ ResultKnown /\ RoundPlace /\ RoundSoFar
=============================================================================
