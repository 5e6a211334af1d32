-------------------------- MODULE HealthRoundsProofs --------------------------
(***************************************************************************)
(* What the rounds of health checks guarantee, for any accounts of the     *)
(* catalog and any bounds: a round that comes to its end has told the      *)
(* truth, and after a rise in the number of slots it has asked the server. *)
(*                                                                         *)
(* Both rest on an invariant over the whole round (RoundSoFar): a check    *)
(* that was looked at, verified and written at different moments only      *)
(* tells what is still so because everybody else leaves a mark.            *)
(***************************************************************************)
EXTENDS HealthRounds, FiniteSetTheorems, WellFoundedInduction, TLAPS

\* The catalog's order has a first account.
LEMMA FirstExists ==
  ASSUME NEW S \in SUBSET Account, S # {}
  PROVE  First(S) \in S
<1>1. S \subseteq Nat
  BY HealthRoundsAssumption
<1>2. PICK a \in S : \A b \in S : <<b, a>> \notin OpToRel(<, Nat)
  BY <1>1, NatLessThanWellFounded, WFMin
<1>3. ASSUME NEW b \in S PROVE a <= b
  <2>1. a \in Nat /\ b \in Nat
    BY <1>1
  <2>2. OpToRel(<, Nat) = {ss \in Nat \X Nat : ss[1] < ss[2]}
    BY DEF OpToRel
  <2>3. b < a => <<b, a>> \in OpToRel(<, Nat)
    BY <2>1, <2>2
  <2>4. ~(b < a)
    BY <1>2, <2>3, Zenon
  <2>5. QED
    BY <2>1, <2>4
<1>4. QED
  BY <1>3 DEF First

\* Slots are counted by a number.
LEMMA CountInRange ==
  ASSUME TypeOK
  PROVE  Count \in 0..MaxCount
<1> DEFINE Filled == {a \in Account : slot[a] # None}
<1>1. /\ Cardinality(Filled) \in Nat /\ Cardinality(Account) \in Nat
      /\ Cardinality(Filled) <= Cardinality(Account)
  BY HealthRoundsAssumption, FS_Subset, FS_CardinalityType
<1>2. others \in 0..MaxOthers /\ MaxOthers \in Nat
  BY HealthRoundsAssumption DEF TypeOK
<1> HIDE DEF Filled
<1>3. others + Cardinality(Filled) \in 0..(MaxOthers + Cardinality(Account))
  BY <1>1, <1>2
<1>4. QED
  BY <1>3 DEF Count, MaxCount, Filled

\* Whose turn it is in a round is an account that the round is not through with.
LEMMA TurnIsLeft ==
  ASSUME TypeOK, NEW a \in Turn("round")
  PROVE  phase = "checking" /\ a \in left \cup retry /\ a \in Account
  BY FirstExists DEF Turn, TypeOK

LEMMA Initially == Init => IInv
<1> SUFFICES ASSUME Init PROVE IInv
  OBVIOUS
<1> USE HealthRoundsAssumption DEF Init
<1>1. TypeOK
  BY DEF TypeOK, Good, Token, Health
<1>2. QED
  BY <1>1 DEF IInv, WatchSeen, OwedForced, ResultKnown, RoundPlace, RoundSoFar, At, Checker

-----------------------------------------------------------------------------
(* Steps of the others.                                                    *)

\* What the round knows of an account stays if the account does.
LEMMA SameAccount ==
  ASSUME NEW a \in Account, slot'[a] = slot[a], health'[a] = health[a], force' = force
  PROVE  /\ Told(a) => Told(a)'
         /\ job'["round"] = job["round"] /\ ResultTells(a) => ResultTells(a)'
  BY DEF Told, ResultTells, Truth, Alive

\* Whoever changes something of an account marks it.
LEMMA OthersKeep ==
  ASSUME RoundSoFar, UNCHANGED <<phase, left, retry, force>>, job'["round"] = job["round"],
         disturbed \subseteq disturbed',
         \A a \in Account \ disturbed' : slot'[a] = slot[a] /\ health'[a] = health[a]
  PROVE  RoundSoFar'
<1> SUFFICES ASSUME phase # "asleep", NEW a \in Account \ disturbed'
             PROVE  /\ a \notin left \cup retry => Told(a)'
                    /\ At("round", "write")' /\ job["round"].account = a => ResultTells(a)'
  BY DEF RoundSoFar
<1>1. /\ a \notin left \cup retry => Told(a)
      /\ At("round", "write") /\ job["round"].account = a => ResultTells(a)
  BY DEF RoundSoFar
<1>2. At("round", "write")' = At("round", "write")
  BY DEF At
<1>3. QED
  BY <1>1, <1>2, SameAccount

LEMMA KeychainKeeps ==
  ASSUME IInv,
         \/ Wipe \/ WriteBack \/ Doctor
         \/ \E a \in Account : Expire(a) \/ Revoke(a) \/ Login(a) \/ RecordLogin(a)
  PROVE  IInv'
<1> USE HealthRoundsAssumption, NoneAssumption DEF IInv, TypeOK, round, bounds, keychain
<1> DEFINE Others ==
      /\ UNCHANGED <<watch, round, job, desk, owed>>
      /\ disturbed \subseteq disturbed'
      /\ \A a \in Account \ disturbed' : slot'[a] = slot[a] /\ health'[a] = health[a]
<1>1. CASE Wipe
  <2>1. TypeOK' /\ Others
    BY <1>1 DEF Wipe, Event
  <2>2. QED
    BY <2>1, OthersKeep DEF WatchSeen, OwedForced, ResultKnown, RoundPlace, At
<1>2. CASE WriteBack
  <2>1. TypeOK' /\ Others
    BY <1>2 DEF WriteBack, Event
  <2>2. QED
    BY <2>1, OthersKeep DEF WatchSeen, OwedForced, ResultKnown, RoundPlace, At
<1>3. CASE Doctor
  <2>1. TypeOK' /\ Others
    BY <1>3 DEF Doctor, Persisted
  <2>2. QED
    BY <2>1, OthersKeep DEF WatchSeen, OwedForced, ResultKnown, RoundPlace, At
<1>4. ASSUME NEW a \in Account, Expire(a) \/ Revoke(a) \/ Login(a) \/ RecordLogin(a)
      PROVE  IInv'
  <2>1. CASE Expire(a) \/ Revoke(a) \/ Login(a)
    <3>1. slot' \in [Account -> Token \cup {None}]
      <4>1. CASE Login(a)
        BY <4>1 DEF Login, Token, Good
      <4>2. CASE Expire(a) \/ Revoke(a)
        <5>1. slot[a] \in Token
          BY <4>2 DEF Expire, Revoke
        <5>2. /\ [slot[a] EXCEPT !.due = TRUE] \in Token
              /\ [slot[a] EXCEPT !.ok = FALSE] \in Token
          BY <5>1 DEF Token
        <5>3. \E t \in Token : slot' = [slot EXCEPT ![a] = t]
          BY <4>2, <5>2 DEF Expire, Revoke
        <5>4. QED
          BY <5>3
      <4>3. QED
        BY <2>1, <4>1, <4>2
    <3>2. QED
      BY <2>1, <3>1, OthersKeep
      DEF Expire, Revoke, Login, Event, WatchSeen, OwedForced, ResultKnown, RoundPlace, At
  <2>2. CASE RecordLogin(a)
    BY <2>2, OthersKeep
    DEF RecordLogin, Health, WatchSeen, OwedForced, ResultKnown, RoundPlace, At
  <2>3. QED
    BY <1>4, <2>1, <2>2
<1>5. QED
  BY <1>1, <1>2, <1>3, <1>4

LEMMA LoopKeeps ==
  ASSUME IInv, Begin \/ BeginEmpty \/ BeginBlind \/ Finish \/ Sleep \/ Restart
  PROVE  IInv'
<1> USE HealthRoundsAssumption, NoneAssumption DEF IInv, round, bounds, keychain
<1>1. Count \in 0..MaxCount
  BY CountInRange
<1>2. CASE Begin \/ BeginEmpty \/ BeginBlind
  <2> USE <1>2 DEF Begin, BeginEmpty, BeginBlind
  <2>1. TypeOK'
    <3>1. watch' \in 0..MaxCount \cup {None} /\ desk' \in 0..MaxCount \cup {None}
      BY <1>1 DEF TypeOK, Persisted
    <3>2. faults' \in 0..MaxFaults /\ events' \in 0..MaxEvents
      BY DEF TypeOK, Fault
    <3>3. /\ phase' \in {"asleep", "checking", "over"} /\ disturbed' \in SUBSET Account
          /\ left' \in SUBSET Account /\ retry' \in SUBSET Account
          /\ force' \in SUBSET Account /\ owed' \in SUBSET Account
      BY DEF TypeOK, Forced, Owed
    <3>4. QED
      BY <3>1, <3>2, <3>3 DEF TypeOK
  <2>2. WatchSeen' /\ ResultKnown'
    BY DEF WatchSeen, ResultKnown, Persisted, At
  <2>3. job["round"] = None
    BY DEF RoundPlace
  <2>4. RoundPlace' /\ OwedForced'
    <3>1. Owed \subseteq Forced
      BY DEF WatchSeen, Owed, Forced, Delta
    <3>2. OwedForced'
      BY <3>1 DEF OwedForced
    <3>3. QED
      BY <2>3, <3>2 DEF RoundPlace
  <2>5. RoundSoFar'
    BY <2>3 DEF RoundSoFar, At, TypeOK
  <2>6. QED
    BY <2>1, <2>2, <2>4, <2>5
<1>3. CASE Finish \/ Sleep
  <2> USE <1>3 DEF Finish, Sleep
  <2>1. TypeOK'
    BY DEF TypeOK
  <2>2. WatchSeen' /\ OwedForced' /\ ResultKnown' /\ RoundPlace'
    BY DEF WatchSeen, OwedForced, ResultKnown, RoundPlace, At
  <2>3. RoundSoFar'
    BY DEF RoundSoFar, At, Told, Truth, Alive
  <2>4. QED
    BY <2>1, <2>2, <2>3
<1>4. CASE Restart
  <2> USE <1>4 DEF Restart
  <2>1. TypeOK'
    <3>1. watch' \in 0..MaxCount \cup {None} /\ desk' \in 0..MaxCount \cup {None}
      BY <1>1 DEF TypeOK, Persisted
    <3>2. events' \in 0..MaxEvents /\ faults' \in 0..MaxFaults
      BY DEF TypeOK, Event, Fault
    <3>3. job' \in [Checker -> Job \cup {None}]
      BY DEF TypeOK
    <3>4. QED
      BY <3>1, <3>2, <3>3 DEF TypeOK
  <2>2. WatchSeen' /\ OwedForced' /\ ResultKnown' /\ RoundPlace' /\ RoundSoFar'
    BY DEF WatchSeen, OwedForced, ResultKnown, RoundPlace, RoundSoFar, Persisted, At, TypeOK,
           Checker
  <2>3. QED
    BY <2>1, <2>2
<1>5. QED
  BY <1>2, <1>3, <1>4

-----------------------------------------------------------------------------
(* Steps of a check.                                                       *)

\* A check of the user is to the round like anything else that happens.
LEMMA UserKeeps ==
  ASSUME IInv,
         \/ \E a \in Account : Look("user", a)
         \/ Verify("user") \/ Write("user") \/ Unsure("user") \/ Busy("user")
         \/ WriteFails("user")
  PROVE  IInv'
<1> USE HealthRoundsAssumption, NoneAssumption
<1> DEFINE Others ==
      /\ UNCHANGED <<watch, phase, left, retry, force, desk, owed>>
      /\ job'["round"] = job["round"]
      /\ disturbed \subseteq disturbed'
      /\ \A a \in Account \ disturbed' : slot'[a] = slot[a] /\ health'[a] = health[a]
    Typed ==
      /\ slot' \in [Account -> Token \cup {None}] /\ health' \in [Account -> Health]
      /\ job' \in [Checker -> Job \cup {None}] /\ disturbed' \in SUBSET Account
      /\ faults' \in 0..MaxFaults /\ UNCHANGED <<others, renewed, events>>
      /\ job'["user"] # None /\ job'["user"].step = "write" => job'["user"].result \in Health
<1>1. TypeOK /\ ResultKnown
  BY DEF IInv
<1>2. ASSUME NEW a \in Account, Look("user", a)
      PROVE  Typed /\ Others
  BY <1>1, <1>2
  DEF Look, Doing, Job, Checker, TypeOK, Health, keychain, round, bounds
<1>3. ASSUME Verify("user")
      PROVE  Typed /\ Others
  <2>1. job["user"] \in Job
    BY <1>1, <1>3 DEF Verify, At, TypeOK, Checker
  <2>2. job["user"].account \in Account /\ Good \in Token
    BY <2>1 DEF Job, Good, Token
  <2>3. QED
    BY <1>1, <1>3, <2>2
    DEF Verify, Job, Doing, Disturbed, Health, TypeOK, Checker, round, bounds
<1>4. ASSUME Write("user") \/ WriteFails("user")
      PROVE  Typed /\ Others
  <2>1. job["user"] \in Job /\ job["user"].result \in Health
    BY <1>1, <1>4 DEF Write, WriteFails, At, TypeOK, Checker, ResultKnown
  <2>2. job["user"].account \in Account
    BY <2>1 DEF Job
  <2>3. /\ UNCHANGED <<keychain, watch, renewed, events, desk, owed, round>>
        /\ job' = [job EXCEPT !["user"] = None]
        /\ faults' \in 0..MaxFaults
    BY <1>1, <1>4 DEF Write, WriteFails, Tick, Fault, TypeOK, keychain, round, bounds
  <2>4. CASE Write("user")
    <3>1. /\ health' = [health EXCEPT ![job["user"].account] = job["user"].result]
          /\ disturbed' = disturbed \cup {job["user"].account}
      BY <2>4 DEF Write, Disturbed
    <3>2. QED
      BY <1>1, <2>1, <2>2, <2>3, <3>1 DEF TypeOK, Checker, keychain, round
  <2>5. CASE WriteFails("user")
    <3>1. health' = health /\ disturbed' = disturbed
      BY <2>5 DEF WriteFails, Vague
    <3>2. QED
      BY <1>1, <2>3, <3>1 DEF TypeOK, Checker, keychain, round
  <2>6. QED
    BY <1>4, <2>4, <2>5
<1>5. ASSUME Unsure("user") \/ Busy("user")
      PROVE  Typed /\ Others
  <2>1. Asking("user") \subseteq Account
    BY <1>1 DEF Asking, Turn, Job, TypeOK, Checker
  <2>2. faults' \in 0..MaxFaults /\ UNCHANGED <<disturbed, events, round>>
    BY <1>1, <1>5 DEF Unsure, Busy, Inconclusive, Tick, Vague, Fault, TypeOK
  <2>3. \E j \in Job \cup {None} :
          /\ job' = [job EXCEPT !["user"] = j]
          /\ j # None => j.result \in Health
    BY <1>5, <2>1 DEF Unsure, Busy, Doing, Job, Health
  <2>4. UNCHANGED <<keychain, health, watch, renewed, desk, owed>>
    BY <1>5 DEF Unsure, Busy, keychain
  <2>5. /\ job' \in [Checker -> Job \cup {None}] /\ job'["round"] = job["round"]
        /\ job'["user"] # None => job'["user"].result \in Health
    <3>1. PICK j \in Job \cup {None} :
            /\ job' = [job EXCEPT !["user"] = j]
            /\ j # None => j.result \in Health
      BY <2>3
    <3>2. QED
      BY <1>1, <3>1 DEF TypeOK, Checker
  <2>6. QED
    BY <1>1, <2>2, <2>4, <2>5 DEF TypeOK, keychain, round
<1>6. Typed /\ Others
  BY <1>2, <1>3, <1>4, <1>5
<1>7. TypeOK'
  BY <1>1, <1>6 DEF TypeOK
<1>8. WatchSeen' /\ OwedForced' /\ RoundPlace' /\ ResultKnown'
  BY <1>1, <1>6 DEF IInv, WatchSeen, OwedForced, RoundPlace, ResultKnown, At, Checker
<1>9. RoundSoFar'
  BY <1>6, OthersKeep DEF IInv
<1>10. QED
  BY <1>7, <1>8, <1>9 DEF IInv

\* A look, a verification or a failure of the round changes at most the slot of
\* the account it works on, and knows what it has done.
LEMMA RoundLearns ==
  ASSUME IInv,
         \/ \E a \in Account : Look("round", a)
         \/ Verify("round") \/ Unsure("round")
  PROVE  IInv'
<1> USE HealthRoundsAssumption, NoneAssumption
<1> DEFINE Learns(a, j) ==
      /\ phase = "checking" /\ a \in left \cup retry /\ a \in Account
      /\ j \in Job /\ j.account = a
      /\ j.step = "write" => j.result \in Health
      /\ job' = [job EXCEPT !["round"] = j]
      /\ slot' \in [Account -> Token \cup {None}]
      /\ \A b \in Account \ {a} : slot'[b] = slot[b]
      /\ UNCHANGED <<others, health, watch, round, renewed, events, desk, owed>>
      /\ faults' \in 0..MaxFaults
      /\ disturbed' \in {disturbed, disturbed \cup {a}}
      /\ a \in Account \ disturbed' /\ j.step = "write" => ResultTells(a)'
<1>1. TypeOK /\ RoundPlace
  BY DEF IInv
<1>2. ASSUME NEW a \in Account, Look("round", a)
      PROVE  \E j \in Job : Learns(a, j)
  <2>1. phase = "checking" /\ a \in left \cup retry
    BY <1>1, <1>2, TurnIsLeft DEF Look
  <2>2. PICK j \in Job :
          /\ j.account = a /\ job' = [job EXCEPT !["round"] = j]
          /\ j.step = "write" => /\ j.result = "ready"
                                 /\ a \notin force /\ slot[a] # None /\ ~slot[a].due
    <3>1. CASE Forces("round", a) \/ NeedsVerify(a)
      <4> DEFINE j == [account |-> a, step |-> "verify", result |-> None]
      <4>1. j \in Job /\ j.account = a /\ job' = [job EXCEPT !["round"] = j]
            /\ j.step = "verify"
        BY <1>2, <3>1 DEF Look, Doing, Job
      <4>2. QED
        BY <4>1
    <3>2. CASE ~(Forces("round", a) \/ NeedsVerify(a))
      <4> DEFINE j == [account |-> a, step |-> "write", result |-> "ready"]
      <4>1. j \in Job /\ j.account = a /\ job' = [job EXCEPT !["round"] = j]
            /\ j.result = "ready"
        BY <1>2, <3>2 DEF Look, Doing, Job, Health
      <4>2. a \notin force /\ slot[a] # None /\ ~slot[a].due
        BY <3>2 DEF Forces, NeedsVerify
      <4>3. QED
        BY <4>1, <4>2
    <3>3. QED
      BY <3>1, <3>2
  <2>3. UNCHANGED <<keychain, health, watch, round, renewed, bounds, desk, owed, disturbed>>
    BY <1>2 DEF Look
  <2>4. job'["round"] = j
    BY <1>1, <2>2 DEF TypeOK, Checker
  <2>5. j.step = "write" => ResultTells(a)'
    BY <2>2, <2>3, <2>4 DEF ResultTells, keychain, round
  <2>6. Learns(a, j)
    BY <1>1, <2>1, <2>2, <2>3, <2>5 DEF TypeOK, keychain, bounds, Health
  <2>7. QED
    BY <2>6
<1>3. ASSUME Verify("round")
      PROVE  \E a \in Account, j \in Job : Learns(a, j)
  <2> PICK a : a = job["round"].account
    OBVIOUS
  <2> DEFINE renews == slot[a] # None /\ slot[a].ok
             j == [account |-> a, step |-> "write",
                   result |-> IF renews THEN "ready" ELSE "reauth"]
  <2>1. job["round"] \in Job /\ job["round"] # None
    BY <1>1, <1>3 DEF Verify, At, TypeOK, Checker
  <2>2. phase = "checking" /\ a \in left \cup retry /\ a \in Account
    BY <1>1, <2>1 DEF RoundPlace, Job
  <2>3. /\ slot' = [slot EXCEPT ![a] = IF renews THEN Good ELSE None]
        /\ job' = [job EXCEPT !["round"] = j]
        /\ disturbed' = disturbed
        /\ UNCHANGED <<others, health, watch, round, renewed, bounds, desk, owed>>
    BY <1>3 DEF Verify, Doing, Disturbed
  <2>4. j \in Job /\ j.account = a /\ j.result \in Health /\ Good \in Token
    BY <2>2 DEF Job, Health, Good, Token
  <2>5. job'["round"] = j /\ slot'[a] = IF renews THEN Good ELSE None
    BY <1>1, <2>2, <2>3 DEF TypeOK, Checker
  <2>6. ResultTells(a)'
    <3>1. /\ renews => slot'[a] = Good /\ job'["round"].result = "ready"
          /\ ~renews => slot'[a] = None /\ job'["round"].result = "reauth"
      BY <2>5
    <3> HIDE DEF j, renews
    <3>2. Good # None /\ Good.ok
      BY <2>4 DEF Good
    <3>3. job'["round"].result = Truth(a)'
      BY <3>1, <3>2 DEF Truth, Alive
    <3>4. QED
      BY <3>3 DEF ResultTells
  <2> HIDE DEF j, renews
  <2>7. Learns(a, j)
    BY <1>1, <2>2, <2>3, <2>4, <2>6 DEF TypeOK, bounds
  <2>8. QED
    BY <2>2, <2>4, <2>7
<1>4. ASSUME Unsure("round")
      PROVE  \E a \in Account, j \in Job : Learns(a, j)
  <2>1. PICK a \in Asking("round") :
          /\ job' = [job EXCEPT !["round"] =
                       [account |-> a, step |-> "write", result |-> "failure"]]
          /\ disturbed' = disturbed \cup {a}
    BY <1>4 DEF Unsure, Doing, Vague
  <2>2. phase = "checking" /\ a \in left \cup retry /\ a \in Account
    BY <1>1, TurnIsLeft DEF Asking, RoundPlace, TypeOK
  <2> DEFINE j == [account |-> a, step |-> "write", result |-> "failure"]
  <2>3. j \in Job /\ j.account = a /\ j.result \in Health
    BY <2>2 DEF Job, Health
  <2>4. /\ UNCHANGED <<keychain, health, watch, round, renewed, events, desk, owed>>
        /\ faults' \in 0..MaxFaults
    BY <1>1, <1>4 DEF Unsure, Fault, TypeOK
  <2>5. Learns(a, j)
    BY <1>1, <2>1, <2>2, <2>3, <2>4 DEF TypeOK, keychain
  <2>6. QED
    BY <2>2, <2>3, <2>5
<1>5. PICK a \in Account, j \in Job : Learns(a, j)
  BY <1>2, <1>3, <1>4
<1>6. job'["round"] = j /\ job'["user"] = job["user"]
  BY <1>1, <1>5 DEF TypeOK, Checker
<1>7. TypeOK'
  BY <1>1, <1>5 DEF TypeOK, round, Checker
<1>8. WatchSeen' /\ OwedForced' /\ ResultKnown' /\ RoundPlace'
  BY <1>1, <1>5, <1>6
  DEF IInv, WatchSeen, OwedForced, ResultKnown, RoundPlace, At, Checker, round
<1>9. RoundSoFar'
  <2> SUFFICES ASSUME NEW b \in Account \ disturbed'
               PROVE  /\ b \notin left \cup retry => Told(b)'
                      /\ At("round", "write")' /\ j.account = b => ResultTells(b)'
    BY <1>5, <1>6 DEF RoundSoFar, round
  <2>1. CASE b = a
    BY <1>5, <1>6, <2>1 DEF At
  <2>2. CASE b # a
    <3>1. b \notin left \cup retry => Told(b)
      BY <1>5 DEF IInv, RoundSoFar
    <3>2. QED
      BY <1>5, <2>2, <3>1, SameAccount DEF round
  <2>3. QED
    BY <2>1, <2>2
<1>10. QED
  BY <1>7, <1>8, <1>9 DEF IInv

\* The round is through with an account: what it wrote is what can be found out,
\* or it could learn nothing.
LEMMA RoundTicks ==
  ASSUME IInv, Write("round") \/ WriteFails("round") \/ Busy("round")
  PROVE  IInv'
<1> USE HealthRoundsAssumption, NoneAssumption
<1> DEFINE Ticks(a) ==
      /\ phase = "checking" /\ a \in left \cup retry /\ a \in Account
      /\ job["round"] # None => job["round"].account = a
      /\ job' = [job EXCEPT !["round"] = None]
      /\ health' \in [Account -> Health]
      /\ \A b \in Account \ {a} : health'[b] = health[b]
      /\ left' = left \ {a} /\ retry' \in {retry \ {a}, retry \cup {a}}
      /\ UNCHANGED <<keychain, watch, phase, force, renewed, events, desk, owed>>
      /\ faults' \in 0..MaxFaults
      /\ disturbed' \in {disturbed, disturbed \cup {a}}
      /\ a \in Account \ disturbed' => a \in retry' \/ Told(a)'
<1>1. TypeOK /\ RoundPlace /\ ResultKnown /\ RoundSoFar
  BY DEF IInv
<1>2. ASSUME Write("round") \/ WriteFails("round")
      PROVE  \E a \in Account : Ticks(a)
  <2> PICK a : a = job["round"].account
    OBVIOUS
  <2>1. job["round"] \in Job /\ job["round"] # None /\ job["round"].result \in Health
    BY <1>1, <1>2 DEF Write, WriteFails, At, TypeOK, Checker, ResultKnown
  <2>2. phase = "checking" /\ a \in left \cup retry /\ a \in Account
    BY <1>1, <2>1 DEF RoundPlace, Job
  <2>3. /\ job' = [job EXCEPT !["round"] = None]
        /\ left' = left \ {a} /\ retry' = retry \ {a}
        /\ UNCHANGED <<keychain, watch, phase, force, renewed, events, desk, owed>>
        /\ faults' \in 0..MaxFaults
    BY <1>1, <1>2 DEF Write, WriteFails, Tick, Fault, TypeOK, bounds
  <2>4. CASE Write("round")
    <3>1. health' = [health EXCEPT ![a] = job["round"].result] /\ disturbed' = disturbed
      BY <2>4 DEF Write, Disturbed
    <3>2. a \in Account \ disturbed => ResultTells(a)
      BY <1>1, <2>2, <2>4 DEF RoundSoFar, Write
    <3>3. health'[a] = job["round"].result
      BY <1>1, <2>2, <3>1 DEF TypeOK
    <3>4. a \in Account \ disturbed => Told(a)'
      BY <2>3, <3>2, <3>3 DEF ResultTells, Told, Truth, Alive, keychain
    <3>5. health' \in [Account -> Health] /\ \A b \in Account \ {a} : health'[b] = health[b]
      BY <1>1, <2>1, <3>1 DEF TypeOK
    <3>6. Ticks(a)
      BY <2>2, <2>3, <3>1, <3>4, <3>5
    <3>7. QED
      BY <2>2, <3>6
  <2>5. CASE WriteFails("round")
    <3>1. health' = health /\ disturbed' = disturbed \cup {a}
      BY <2>5 DEF WriteFails, Vague
    <3>2. Ticks(a)
      BY <1>1, <2>2, <2>3, <3>1 DEF TypeOK
    <3>3. QED
      BY <2>2, <3>2
  <2>6. QED
    BY <1>2, <2>4, <2>5
<1>3. ASSUME Busy("round")
      PROVE  \E a \in Account : Ticks(a)
  <2>1. PICK a \in Asking("round") : Inconclusive("round", a)
    BY <1>3 DEF Busy
  <2>2. phase = "checking" /\ a \in left \cup retry /\ a \in Account
    BY <1>1, TurnIsLeft DEF Asking, RoundPlace, TypeOK
  <2>3. job["round"] # None => job["round"].account = a
    BY DEF Asking
  <2>4. /\ job' = [job EXCEPT !["round"] = None] /\ faults' \in 0..MaxFaults
        /\ UNCHANGED <<keychain, health, watch, renewed, events, desk, owed>>
    BY <1>1, <1>3 DEF Busy, Fault, TypeOK
  <2>5. /\ left' = left \ {a} /\ UNCHANGED <<phase, force>>
        /\ \/ retry' = retry \cup {a} /\ disturbed' = disturbed
           \/ retry' = retry \ {a} /\ disturbed' = disturbed \cup {a}
    BY <2>1 DEF Inconclusive, Tick, Vague
  <2>6. Ticks(a)
    BY <1>1, <2>2, <2>3, <2>4, <2>5 DEF TypeOK
  <2>7. QED
    BY <2>2, <2>6
<1>4. PICK a \in Account : Ticks(a)
  BY <1>2, <1>3
<1>5. job'["round"] = None /\ job'["user"] = job["user"]
  BY <1>1, <1>4 DEF TypeOK, Checker
<1>6. TypeOK'
  BY <1>1, <1>4 DEF TypeOK, keychain, Checker
<1>7. WatchSeen' /\ OwedForced' /\ ResultKnown' /\ RoundPlace'
  BY <1>1, <1>4, <1>5 DEF IInv, WatchSeen, OwedForced, ResultKnown, RoundPlace, At, Checker
<1>8. RoundSoFar'
  <2> SUFFICES ASSUME NEW b \in Account \ disturbed', b \notin left' \cup retry'
               PROVE  Told(b)'
    BY <1>5 DEF RoundSoFar, At
  <2>1. CASE b = a
    BY <1>4, <2>1
  <2>2. CASE b # a
    <3>1. b \notin left \cup retry /\ b \notin disturbed
      BY <1>4, <2>2
    <3>2. Told(b)
      BY <1>1, <1>4, <3>1 DEF RoundSoFar
    <3>3. QED
      BY <1>4, <2>2, <3>2, SameAccount DEF keychain
  <2>3. QED
    BY <2>1, <2>2
<1>9. QED
  BY <1>6, <1>7, <1>8 DEF IInv

-----------------------------------------------------------------------------
(* The theorems.                                                           *)

LEMMA StepKeeps == IInv /\ [Next]_vars => IInv'
<1> SUFFICES ASSUME IInv, [Next]_vars PROVE IInv'
  OBVIOUS
<1>1. CASE Wipe \/ WriteBack \/ Doctor
  BY <1>1, KeychainKeeps
<1>2. ASSUME NEW a \in Account, Expire(a) \/ Revoke(a) \/ Login(a) \/ RecordLogin(a)
      PROVE  IInv'
  BY <1>2, KeychainKeeps
<1>3. CASE Begin \/ BeginEmpty \/ BeginBlind \/ Finish \/ Sleep \/ Restart
  BY <1>3, LoopKeeps
<1>4. ASSUME NEW c \in Checker,
             \/ \E a \in Account : Look(c, a)
             \/ Verify(c) \/ Write(c) \/ Unsure(c) \/ Busy(c) \/ WriteFails(c)
      PROVE  IInv'
  <2>1. CASE c = "user"
    BY <1>4, <2>1, UserKeeps
  <2>2. CASE c = "round"
    BY <1>4, <2>2, RoundLearns, RoundTicks
  <2>3. QED
    BY <2>1, <2>2 DEF Checker
<1>5. CASE UNCHANGED vars
  BY <1>5
  DEF vars, keychain, round, bounds, IInv, TypeOK, WatchSeen, OwedForced, ResultKnown,
      RoundPlace, RoundSoFar, At, Told, ResultTells, Truth, Alive
<1>6. QED
  BY <1>1, <1>2, <1>3, <1>4, <1>5 DEF Next

\* The inductive invariant holds in every state that can be reached, in particular
\* the type invariant.
THEOREM Invariant == Spec => []IInv
  BY Initially, StepKeeps, PTL DEF Spec

\* A round that is over has told the truth about every account that nobody else
\* has changed meanwhile and of which it could learn something, however the checks
\* of the user, logins, wipes and failures fall between its steps.
THEOREM RoundsTell == Spec => []RoundTells
<1>1. IInv => RoundTells
  BY DEF IInv, RoundPlace, RoundSoFar, RoundTells
<1>2. QED
  BY <1>1, Invariant, PTL

\* After slots have come back the round that sees it asks the server about every
\* account shown as logged out, and what it has written is the server's answer, whoever
\* else has looked at the count since the desktop did.
THEOREM RisesAreVerified == Spec => []RiseVerified
<1>1. IInv => RiseVerified
  <2> SUFFICES ASSUME IInv, phase = "over", NEW a \in owed \ disturbed
               PROVE  health[a] = Truth(a)
    BY DEF RiseVerified
  <2>1. a \in Account /\ a \in force
    BY DEF IInv, TypeOK, OwedForced
  <2>2. left = {} /\ retry = {}
    BY DEF IInv, RoundPlace
  <2>3. Told(a)
    BY <2>1, <2>2 DEF IInv, RoundSoFar
  <2>4. QED
    BY <2>1, <2>3 DEF Told
<1>2. QED
  BY <1>1, Invariant, PTL
-----------------------------------------------------------------------------
(* What HealthConverges rests on: once the question is decided and nobody  *)
(* is about to write an old answer, every check writes the truth, and the  *)
(* truth stays written.  (That a check comes is liveness.)                 *)

\* The server would accept an account's token, or there is none and no login that is
\* yet to be recorded.
Decided(a) == IF slot[a] = None THEN a \notin renewed ELSE slot[a].ok

\* It is decided, and no old answer is about to be written.
Settled(a) ==
  /\ Decided(a)
  /\ \A c \in Checker : At(c, "write") /\ job[c].account = a => job[c].result = Truth(a)

\* A check of the account ends, or the catalog has told the truth before.
ToldAgain(a) ==
  health[a] = Truth(a) \/ (\E c \in Checker : Write(c) /\ job[c].account = a)
    => (health[a] = Truth(a))'

\* Without events and faults, what happens is one of these.
LEMMA QuietStep ==
  ASSUME TypeOK, Next, UNCHANGED bounds
  PROVE  \/ Doctor \/ Begin \/ Finish \/ Sleep
         \/ \E a \in Account : Expire(a) \/ RecordLogin(a)
         \/ \E c \in Checker : (\E a \in Account : Look(c, a)) \/ Verify(c) \/ Write(c)
<1>1. events \in Int /\ faults \in Int /\ events' = events /\ faults' = faults
  BY HealthRoundsAssumption DEF TypeOK, bounds
<1>2. ~Event /\ ~Fault
  BY <1>1 DEF Event, Fault
<1>3. QED
  BY <1>2
  DEF Next, Wipe, WriteBack, BeginEmpty, BeginBlind, Restart, Revoke, Login, Unsure, Busy,
      WriteFails

LEMMA SettledKeeps ==
  ASSUME TypeOK, Next, UNCHANGED bounds, NEW a \in Account, Settled(a)
  PROVE  Settled(a)' /\ ToldAgain(a)
<1> USE HealthRoundsAssumption, NoneAssumption DEF TypeOK, round, bounds, keychain
<1> DEFINE Same ==
      /\ Decided(a)' /\ Truth(a)' = Truth(a)
      /\ health'[a] = health[a] \/ health'[a] = Truth(a)
<1>1. Truth(a) = IF slot[a] = None THEN "reauth" ELSE "ready"
  BY DEF Settled, Decided, Truth, Alive
<1>2. ASSUME Same, job' = job, \A c \in Checker : ~Write(c)
      PROVE  Settled(a)' /\ ToldAgain(a)
  BY <1>2 DEF Settled, ToldAgain, At
<1>3. ASSUME Doctor \/ Begin \/ Finish \/ Sleep
      PROVE  Settled(a)' /\ ToldAgain(a)
  <2>1. Same /\ job' = job
    BY <1>3 DEF Doctor, Begin, Finish, Sleep, Settled, Decided, Truth, Alive
  <2>2. \A c \in Checker : ~Write(c)
    BY <2>1 DEF Write, At
  <2>3. QED
    BY <1>2, <2>1, <2>2
<1>4. ASSUME NEW b \in Account, Expire(b) \/ RecordLogin(b)
      PROVE  Settled(a)' /\ ToldAgain(a)
  <2>1. Same /\ job' = job
    <3>1. CASE Expire(b)
      <4>1. slot[b] \in Token /\ [slot[b] EXCEPT !.due = TRUE] \in Token
        BY <3>1 DEF Expire, Token
      <4>2. [slot[b] EXCEPT !.due = TRUE].ok = slot[b].ok
        BY <4>1 DEF Token
      <4>3. /\ slot'[a] = None <=> slot[a] = None
            /\ slot[a] # None => slot'[a].ok = slot[a].ok
        BY <3>1, <4>1, <4>2 DEF Expire
      <4>4. QED
        BY <3>1, <4>3 DEF Expire, Settled, Decided, Truth, Alive
    <3>2. CASE RecordLogin(b)
      BY <1>1, <3>2 DEF RecordLogin, Settled, Decided, Truth, Alive
    <3>3. QED
      BY <1>4, <3>1, <3>2
  <2>2. \A c \in Checker : ~Write(c)
    BY <2>1 DEF Write, At
  <2>3. QED
    BY <1>2, <2>1, <2>2
<1>5. ASSUME NEW c \in Checker, NEW b \in Account, Look(c, b)
      PROVE  Settled(a)' /\ ToldAgain(a)
  <2>1. Same
    BY <1>5 DEF Look, Settled, Decided, Truth, Alive
  <2>2. /\ job[c] = None
        /\ \A d \in Checker \ {c} : job'[d] = job[d]
        /\ \/ job'[c] = [account |-> b, step |-> "verify", result |-> None]
           \/ /\ slot[b] # None
              /\ job'[c] = [account |-> b, step |-> "write", result |-> "ready"]
    BY <1>5 DEF Look, Doing, NeedsVerify
  <2>3. \A d \in Checker : At(d, "write")' /\ job'[d].account = a => job'[d].result = Truth(a)
    BY <1>1, <2>2 DEF Settled, At
  <2>4. health' = health
    BY <1>5 DEF Look
  <2>5. \A d \in Checker : Write(d) => FALSE
    BY <2>2 DEF Write, At
  <2>6. QED
    BY <2>1, <2>3, <2>4, <2>5 DEF Settled, ToldAgain
<1>6. ASSUME NEW c \in Checker, Verify(c)
      PROVE  Settled(a)' /\ ToldAgain(a)
  <2> DEFINE b == job[c].account
             renews == slot[b] # None /\ slot[b].ok
  <2>1. /\ At(c, "verify") /\ b \in Account
        /\ slot' = [slot EXCEPT ![b] = IF renews THEN Good ELSE None]
        /\ job' = [job EXCEPT ![c] = [account |-> b, step |-> "write",
                                      result |-> IF renews THEN "ready" ELSE "reauth"]]
        /\ UNCHANGED <<health, renewed>>
    BY <1>6 DEF Verify, Doing, At, Job
  <2>2. Same
    <3>1. Good # None /\ Good.ok
      <4>1. Good \in Token /\ Good.ok
        BY DEF Good, Token
      <4>2. QED
        BY <4>1, NoneAssumption, Zenon
    <3>2. slot'[a] = IF a # b THEN slot[a] ELSE IF slot[a] = None THEN None ELSE Good
      BY <2>1 DEF Settled, Decided
    <3>3. /\ slot'[a] = None <=> slot[a] = None
          /\ slot[a] # None => slot'[a].ok
      BY <3>1, <3>2 DEF Settled, Decided
    <3>4. QED
      BY <2>1, <3>3 DEF Settled, Decided, Truth, Alive
  <2>3. \A d \in Checker : At(d, "write")' /\ job'[d].account = a => job'[d].result = Truth(a)
    <3> SUFFICES ASSUME NEW d \in Checker, At(d, "write")', job'[d].account = a
                 PROVE  job'[d].result = Truth(a)
      OBVIOUS
    <3>1. CASE d = c
      BY <2>1, <3>1 DEF Settled, Decided, Truth, Alive
    <3>2. CASE d # c
      BY <2>1, <3>2 DEF Settled, At
    <3>3. QED
      BY <3>1, <3>2
  <2>4. \A d \in Checker : ~Write(d)
    BY <2>1 DEF Write, At
  <2>5. QED
    BY <2>1, <2>2, <2>3, <2>4 DEF Settled, ToldAgain
<1>7. ASSUME NEW c \in Checker, Write(c)
      PROVE  Settled(a)' /\ ToldAgain(a)
  <2>1. /\ At(c, "write") /\ job[c].account \in Account
        /\ health' = [health EXCEPT ![job[c].account] = job[c].result]
        /\ job' = [job EXCEPT ![c] = None]
        /\ UNCHANGED <<slot, renewed>>
    BY <1>7 DEF Write, At, Job
  <2>2. Decided(a)' /\ Truth(a)' = Truth(a)
    BY <2>1 DEF Settled, Decided, Truth, Alive
  <2>3. \A d \in Checker : At(d, "write")' /\ job'[d].account = a => job'[d].result = Truth(a)
    BY <2>1 DEF Settled, At
  <2>4. health'[a] = IF job[c].account = a THEN Truth(a) ELSE health[a]
    BY <2>1 DEF Settled
  <2>5. \A d \in Checker : Write(d) => d = c
    BY <2>1 DEF Write, At
  <2>6. QED
    BY <2>2, <2>3, <2>4, <2>5 DEF Settled, ToldAgain
<1>8. QED
  BY QuietStep, <1>3, <1>4, <1>5, <1>6, <1>7

\* From the moment an account is settled, as long as there are no events and no
\* faults, every check of it writes the truth, and once the truth is written it stays:
\* neither a token that is renewed, nor a login that is recorded late, nor the user's
\* check beside the round's can make the catalog say otherwise.
THEOREM TruthStays ==
  Spec => \A a \in Account :
            [](Settled(a) /\ [][UNCHANGED bounds]_vars => [][ToldAgain(a)]_vars)
<1> SUFFICES ASSUME NEW a \in Account
             PROVE  Spec => [](Settled(a) /\ [][UNCHANGED bounds]_vars => [][ToldAgain(a)]_vars)
  OBVIOUS
<1>1. TypeOK /\ Settled(a) /\ [Next]_vars /\ [UNCHANGED bounds]_vars
        => Settled(a)' /\ [ToldAgain(a)]_vars
  <2>1. TypeOK /\ Settled(a) /\ Next /\ UNCHANGED bounds => Settled(a)' /\ ToldAgain(a)
    BY SettledKeeps
  <2>2. Settled(a) /\ UNCHANGED vars => Settled(a)'
    BY DEF Settled, Decided, Truth, Alive, At, vars, keychain
  <2>3. QED
    BY <2>1, <2>2
<1>2. IInv => TypeOK
  BY DEF IInv
<1>3. QED
  BY <1>1, <1>2, Invariant, PTL DEF Spec
-----------------------------------------------------------------------------
(* What a round has still to do, at most: six steps for an account it has  *)
(* not come to, three for one it is to come back to.                       *)

RoundRank ==
  6 * Cardinality(left) + 3 * Cardinality(retry)
    + (IF job["round"] = None THEN 2 ELSE IF job["round"].step = "verify" THEN 1 ELSE 0)

\* The accounts are counted by numbers, and one less is less.
LEMMA PassCounted ==
  ASSUME NEW S \in SUBSET Account
  PROVE  /\ Cardinality(S) \in Nat
         /\ \A a \in S : Cardinality(S \ {a}) = Cardinality(S) - 1
         /\ \A a \in Account : Cardinality(S \cup {a}) <= Cardinality(S) + 1
<1>1. IsFiniteSet(S)
  BY HealthRoundsAssumption, FS_Subset
<1>2. Cardinality(S) \in Nat
  BY <1>1, FS_CardinalityType
<1>3. \A a \in S : Cardinality(S \ {a}) = Cardinality(S) - 1
  BY <1>1, FS_RemoveElement
<1>4. ASSUME NEW a \in Account
      PROVE  Cardinality(S \cup {a}) <= Cardinality(S) + 1
  <2>1. Cardinality(S \cup {a}) = IF a \in S THEN Cardinality(S) ELSE Cardinality(S) + 1
    BY <1>1, FS_AddElement
  <2>2. QED
    BY <1>2, <2>1
<1>5. QED
  BY <1>2, <1>3, <1>4

\* What a step that gets on with an account does to the passes.
LEMMA PassShrinks ==
  ASSUME TypeOK, NEW a \in left \cup retry,
         \/ left' = left \ {a} /\ retry' = retry \ {a}
         \/ a \in left /\ left' = left \ {a} /\ retry' = retry \cup {a}
  PROVE  /\ Cardinality(left) \in Nat /\ Cardinality(retry) \in Nat
         /\ Cardinality(left') \in Nat /\ Cardinality(retry') \in Nat
         /\ 6 * Cardinality(left') + 3 * Cardinality(retry') + 3
              <= 6 * Cardinality(left) + 3 * Cardinality(retry)
<1>1. left \in SUBSET Account /\ retry \in SUBSET Account /\ a \in Account
  BY DEF TypeOK
<1>2. left' \in SUBSET Account /\ retry' \in SUBSET Account
  BY <1>1
<1>3. /\ Cardinality(left) \in Nat /\ Cardinality(retry) \in Nat
      /\ Cardinality(left') \in Nat /\ Cardinality(retry') \in Nat
  BY <1>1, <1>2, PassCounted
<1>4. /\ a \in left => Cardinality(left \ {a}) = Cardinality(left) - 1
      /\ a \notin left => left \ {a} = left
      /\ a \in retry => Cardinality(retry \ {a}) = Cardinality(retry) - 1
      /\ a \notin retry => retry \ {a} = retry
      /\ Cardinality(retry \cup {a}) <= Cardinality(retry) + 1
  BY <1>1, PassCounted
<1>5. CASE a \in left
  <2>1. left' = left \ {a}
    BY <1>5
  <2>2. retry' = retry \ {a} \/ retry' = retry \cup {a}
    BY <1>5
  <2>3. Cardinality(retry') <= Cardinality(retry) + 1
    <3>1. Cardinality(retry \ {a}) <= Cardinality(retry) + 1
      <4>1. CASE a \in retry
        BY <1>3, <1>4, <4>1
      <4>2. CASE a \notin retry
        <5>1. Cardinality(retry \ {a}) = Cardinality(retry)
          BY <1>4, <4>2, Zenon
        <5>2. QED
          BY <1>3, <5>1
      <4>3. QED
        BY <4>1, <4>2
    <3>2. \/ Cardinality(retry') = Cardinality(retry \ {a})
          \/ Cardinality(retry') = Cardinality(retry \cup {a})
      BY <2>2, Zenon
    <3>3. QED
      BY <1>4, <3>1, <3>2
  <2>4. Cardinality(left') = Cardinality(left \ {a})
    BY <2>1, Zenon
  <2>5. Cardinality(left \ {a}) = Cardinality(left) - 1
    BY <1>4, <1>5
  <2>6. QED
    BY <1>3, <2>3, <2>4, <2>5
<1>6. CASE a \notin left
  <2>1. left' = left /\ Cardinality(retry') = Cardinality(retry) - 1
    BY <1>4, <1>6
  <2>2. QED
    BY <1>3, <2>1
<1>7. QED
  BY <1>5, <1>6

\* A round makes at most six steps for each account and two more: it comes back to a
\* busy one only once (SkippedBusy), and neither the user's checks nor anything that
\* happens to the keychain give it more to do.
THEOREM RoundsAdvance ==
  Spec => [][ /\ phase = "asleep" /\ phase' = "checking" =>
                   RoundRank' \in Nat /\ RoundRank' <= 6 * Cardinality(Account) + 2
              /\ phase = "checking" /\ phase' = "checking" =>
                   \/ UNCHANGED <<left, retry>> /\ job'["round"] = job["round"]
                   \/ RoundRank' \in Nat /\ RoundRank' < RoundRank ]_vars
<1> DEFINE Begins == phase = "asleep" /\ phase' = "checking" =>
                       /\ RoundRank' \in Nat
                       /\ RoundRank' <= 6 * Cardinality(Account) + 2
           Rests == UNCHANGED <<left, retry>> /\ job'["round"] = job["round"]
           Goes == phase = "checking" /\ phase' = "checking" =>
                     \/ Rests
                     \/ RoundRank' \in Nat /\ RoundRank' < RoundRank
<1>1. IInv /\ Next => Begins /\ Goes
  <2> SUFFICES ASSUME IInv, Next PROVE Begins /\ Goes
    OBVIOUS
  <2> USE HealthRoundsAssumption, NoneAssumption DEF round, Checker
  <2>0. TypeOK
    BY DEF IInv
  <2>1. CASE UNCHANGED phase /\ Rests
    BY <2>1
  <2>2. CASE Begin \/ BeginEmpty \/ BeginBlind
    <3>1. phase' = "checking" => left' \in {Account, {}} /\ retry' = {} /\ job' = job
      BY <2>2 DEF Begin, BeginEmpty, BeginBlind
    <3>2. phase = "asleep" /\ job["round"] = None
      BY <2>2 DEF Begin, BeginEmpty, BeginBlind, IInv, RoundPlace
    <3>3. Cardinality({}) = 0 /\ Cardinality(Account) \in Nat
      BY FS_EmptySet, PassCounted
    <3>4. ASSUME phase' = "checking"
          PROVE  RoundRank' \in Nat /\ RoundRank' <= 6 * Cardinality(Account) + 2
      <4>1. Cardinality(left') \in {Cardinality(Account), 0} /\ Cardinality(retry') = 0
        BY <3>1, <3>3, <3>4, Zenon
      <4>2. job'["round"] = None
        BY <3>1, <3>2, <3>4
      <4>3. QED
        BY <3>3, <4>1, <4>2 DEF RoundRank
    <3>5. QED
      BY <3>2, <3>4
  <2>3. CASE Finish \/ Sleep \/ Restart
    BY <2>3 DEF Finish, Sleep, Restart
  <2>4. CASE Verify("round") \/ Unsure("round") \/ \E a \in Account : Look("round", a)
    <3>1. UNCHANGED <<left, retry, phase>>
      BY <2>4 DEF Verify, Unsure, Look
    <3>2. /\ job["round"] = None \/ At("round", "verify")
          /\ \E a \in Account, k \in {"verify", "write"}, r \in Health \cup {None} :
               /\ job'["round"] = [account |-> a, step |-> k, result |-> r]
               /\ job["round"] = None \/ k = "write"
      <4>1. CASE \E a \in Account : Look("round", a)
        BY <2>0, <4>1 DEF Look, Doing, Health, TypeOK
      <4>2. CASE Verify("round")
        BY <2>0, <4>2 DEF Verify, Doing, At, Health, TypeOK, Job
      <4>3. CASE Unsure("round")
        BY <2>0, <4>3, TurnIsLeft DEF Unsure, Asking, Doing, At, Health, TypeOK, Job
      <4>4. QED
        BY <2>4, <4>1, <4>2, <4>3
    <3>3. job'["round"] # None /\ job'["round"].step \in {"verify", "write"}
      BY <3>2 DEF Job
    <3>4. Cardinality(left) \in Nat /\ Cardinality(retry) \in Nat
      BY <2>0, PassCounted DEF TypeOK
    <3>5. QED
      BY <3>1, <3>2, <3>3, <3>4 DEF RoundRank, At
  <2>5. CASE Write("round") \/ WriteFails("round") \/ Busy("round")
    <3>1. PICK a \in left \cup retry :
            \/ left' = left \ {a} /\ retry' = retry \ {a}
            \/ a \in left /\ left' = left \ {a} /\ retry' = retry \cup {a}
      <4>1. CASE Write("round") \/ WriteFails("round")
        BY <4>1 DEF Write, WriteFails, Tick, At, IInv, RoundPlace
      <4>2. CASE Busy("round")
        <5>1. PICK a \in Asking("round") : Inconclusive("round", a)
          BY <4>2 DEF Busy
        <5>2. a \in left \cup retry
          BY <2>0, <5>1, TurnIsLeft DEF Asking, IInv, RoundPlace
        <5>3. QED
          BY <5>1, <5>2 DEF Inconclusive, Tick
      <4>3. QED
        BY <2>5, <4>1, <4>2
    <3>2. UNCHANGED phase /\ job'["round"] = None
      BY <2>0, <2>5 DEF Write, WriteFails, Busy, Inconclusive, Tick, TypeOK
    <3>3. /\ Cardinality(left) \in Nat /\ Cardinality(retry) \in Nat
          /\ Cardinality(left') \in Nat /\ Cardinality(retry') \in Nat
          /\ 6 * Cardinality(left') + 3 * Cardinality(retry') + 3
               <= 6 * Cardinality(left) + 3 * Cardinality(retry)
      BY <2>0, <3>1, PassShrinks
    <3>4. QED
      BY <3>2, <3>3 DEF RoundRank
  <2>6. QED
    <3>1. CASE \/ Wipe \/ WriteBack \/ Doctor
               \/ \E a \in Account : Expire(a) \/ Revoke(a) \/ Login(a) \/ RecordLogin(a)
      BY <2>1, <3>1 DEF Wipe, WriteBack, Doctor, Expire, Revoke, Login, RecordLogin
    <3>2. CASE \/ \E a \in Account : Look("user", a)
               \/ Verify("user") \/ Write("user") \/ Unsure("user") \/ Busy("user")
               \/ WriteFails("user")
      <4>1. UNCHANGED <<phase, left, retry>>
        BY <3>2 DEF Look, Verify, Write, Unsure, Busy, WriteFails, Inconclusive, Tick
      <4>2. job'["round"] = job["round"]
        BY <2>0, <3>2 DEF Look, Verify, Write, Unsure, Busy, WriteFails, Doing, TypeOK
      <4>3. QED
        BY <2>1, <4>1, <4>2
    <3>3. QED
      BY <2>2, <2>3, <2>4, <2>5, <3>1, <3>2 DEF Next
<1>2. UNCHANGED vars => UNCHANGED <<phase, left, retry, job>>
  BY DEF vars, round
<1>3. QED
  BY <1>1, Invariant, PTL DEF Spec
=============================================================================
