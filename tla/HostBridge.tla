----------------------------- MODULE HostBridge -----------------------------
(***************************************************************************)
(* The Windows host bridge: a lark-cli or lpcctl call that sees the wrong  *)
(* registry view does not run its command but forwards it to the desktop   *)
(* (lpc-core/src/host_bridge.rs), which starts the same program again as   *)
(* its child and sends back what it printed.  The child may see the wrong  *)
(* view too, and forward in its turn.                                      *)
(*                                                                         *)
(* A caller that cannot reach the desktop has it started and tries again.  *)
(* For lpcctl the library does this; for lark-cli the shim does            *)
(* (lpc-shim/src/main.rs), with a loop of its own around the library.      *)
(*                                                                         *)
(* The desktop may die and be started at any time; a command it has        *)
(* started outlives it.  Callers may be killed at any time.                *)
(***************************************************************************)
EXTENDS Naturals, FiniteSets

CONSTANTS
  MaxCalls, \* bound: how many processes there are in all; as a limit on those of
            \* the host, MAX_HOST_PROCESSES
  MaxUser,  \* bound: how many of them users start
  MaxHops,  \* MAX_BRIDGE_HOPS
  MaxTries, \* how often a caller tries again (60)
  None

ASSUME BridgeAssumption ==
  /\ MaxHops \in Nat \ {0}
  /\ MaxTries \in Nat \ {0}
  /\ MaxCalls \in Nat /\ MaxUser \in Nat
  /\ None \notin Nat

\* lark-cli and lpcctl processes, numbered as they start
Call == 1..MaxCalls

VARIABLES
  host,    \* does the desktop listen on its pipe?
  pc,      \* where a call is
  target,  \* "cli" (the shim) or "control" (lpcctl)
  hops,    \* LPC_HOST_BRIDGE_HOPS in its environment
  from,    \* the call whose request started it, or None
  given,   \* the standard input it was started with
  drained, \* has it read its standard input?
  payload, \* stdin_utf8 of its request
  tries,   \* its attempts since it had the desktop started, 0 before that
  child,   \* the call that serves its request, or None
  started  \* how many calls its requests have started

vars == <<host, pc, target, hops, from, given, drained, payload, tries, child, started>>
born == <<target, hops, from, given>>

Input == {"none", "data", "empty"}
Steps == {"off", "start", "send", "connect", "sent", "unavailable", "broken", "run", "done"}

TypeOK ==
  /\ host \in BOOLEAN
  /\ pc \in [Call -> Steps]
  /\ target \in [Call -> {"cli", "control"}]
  /\ hops \in [Call -> 0..MaxHops]
  /\ from \in [Call -> Call \cup {None}]
  /\ given \in [Call -> Input]
  /\ drained \in [Call -> BOOLEAN]
  /\ payload \in [Call -> Input]
  /\ tries \in [Call -> 0..MaxTries]
  /\ child \in [Call -> Call \cup {None}]
  /\ started \in [Call -> Nat]

Init ==
  /\ host \in BOOLEAN
  /\ pc = [c \in Call |-> "off"]
  /\ target = [c \in Call |-> "cli"]
  /\ hops = [c \in Call |-> 0]
  /\ from = [c \in Call |-> None]
  /\ given = [c \in Call |-> "none"]
  /\ drained = [c \in Call |-> FALSE]
  /\ payload = [c \in Call |-> "none"]
  /\ tries = [c \in Call |-> 0]
  /\ child = [c \in Call |-> None]
  /\ started = [c \in Call |-> 0]

Goto(c, step) == pc' = [pc EXCEPT ![c] = step]
IsNext(c) == \A d \in Call : pc[d] = "off" <=> d >= c

-----------------------------------------------------------------------------
(* The caller. *)

\* A user or a program calls lark-cli or lpcctl.
Invoke(c, kind, input) ==
  /\ IsNext(c)
  /\ Cardinality({d \in 1..(c - 1) : from[d] = None}) < MaxUser
  /\ Goto(c, "start")
  /\ target' = [target EXCEPT ![c] = kind]
  /\ given' = [given EXCEPT ![c] = input]
  /\ UNCHANGED <<host, hops, from, drained, payload, tries, child, started>>

\* In the verified view the command runs here; otherwise it is forwarded.
Decide(c) ==
  /\ pc[c] = "start"
  /\ Goto(c, "run") \/ Goto(c, "send")
  /\ UNCHANGED <<host, born, drained, payload, tries, child, started>>

Finish(c) ==
  /\ pc[c] = "run"
  /\ Goto(c, "done")
  /\ UNCHANGED <<host, born, drained, payload, tries, child, started>>

\* What read_requested_stdin finds: all of the standard input, up to its end.
Read(c) == IF given[c] = "data" /\ drained[c] THEN "empty" ELSE given[c]

\* A refusal to forward is the same error as a desktop that cannot be reached,
\* which the shim, but not the library, takes as a reason to try again.
Refusal(c) == IF target[c] = "cli" THEN "unavailable" ELSE "done"

\* The request is built: standard input is read, which is refused if it is longer
\* than 16 MiB or no UTF-8, and the hops are checked.
BuildRequest(c) ==
  /\ pc[c] = "send"
  /\ payload' = [payload EXCEPT ![c] = Read(c)]
  /\ drained' = [drained EXCEPT ![c] = TRUE]
  /\ \/ hops[c] < MaxHops /\ Goto(c, "connect")
     \/ (hops[c] >= MaxHops \/ given[c] = "data") /\ Goto(c, Refusal(c))
  /\ UNCHANGED <<host, born, tries, child, started>>

\* The pipe is opened, unless there is none or it stays busy for 5 s.
Connect(c) ==
  /\ pc[c] = "connect"
  /\ \/ host /\ Goto(c, "sent")
     \/ Goto(c, "unavailable")
  /\ UNCHANGED <<host, born, drained, payload, tries, child, started>>

\* Mutant of Again: the library's loop builds the whole request again.
AgainFromStdin(c) == "send"

\* The library reuses the request it has built, the shim calls the library again.
Again(c) == IF target[c] = "control" THEN "connect" ELSE "send"

\* Mutant of TryAgain: the attempts are not counted.
TryAgainForever(c) ==
  /\ tries' = [tries EXCEPT ![c] = IF @ = 0 THEN 1 ELSE @]
  /\ Goto(c, Again(c))

TryAgain(c) ==
  IF tries[c] < MaxTries
    THEN tries' = [tries EXCEPT ![c] = @ + 1] /\ Goto(c, Again(c))
    ELSE UNCHANGED tries /\ Goto(c, "done")

\* The desktop was not reached.  The first time it is started, which may fail.
Unavailable(c) ==
  /\ pc[c] = "unavailable"
  /\ \/ TryAgain(c)
     \/ tries[c] = 0 /\ Goto(c, "done") /\ UNCHANGED tries
  /\ UNCHANGED <<host, born, drained, payload, child, started>>

\* Mutant of RetriesBroken: any error is a reason to try again.
RetriesBrokenAlways(c) == tries[c] > 0

\* Once it has had the desktop started, the shim tries again after any error.
RetriesBroken(c) == target[c] = "cli" /\ tries[c] > 0

\* The connection broke after the request was sent.
Broken(c) ==
  /\ pc[c] = "broken"
  /\ IF RetriesBroken(c) THEN TryAgain(c) ELSE Goto(c, "done") /\ UNCHANGED tries
  /\ UNCHANGED <<host, born, drained, payload, child, started>>

Kill(c) ==
  /\ pc[c] \notin {"off", "done"}
  /\ Goto(c, "done")
  /\ UNCHANGED <<host, born, drained, payload, tries, child, started>>

-----------------------------------------------------------------------------
(* The desktop. *)

NextHops(c) == hops[c] + 1

\* A request is served by a child, the same program with the request's input.
Serve(c, d) ==
  /\ host /\ pc[c] = "sent" /\ child[c] = None
  /\ hops[c] < MaxHops
  /\ IsNext(d)
  /\ Goto(d, "start")
  /\ target' = [target EXCEPT ![d] = target[c]]
  /\ hops' = [hops EXCEPT ![d] = NextHops(c)]
  /\ from' = [from EXCEPT ![d] = c]
  /\ given' = [given EXCEPT ![d] = payload[c]]
  /\ child' = [child EXCEPT ![c] = d]
  /\ started' = [started EXCEPT ![c] = @ + 1]
  /\ UNCHANGED <<host, drained, payload, tries>>

\* A loop is answered with an error, and so is a request whose child cannot be
\* started (the limit on the host's processes).
Refuse(c) ==
  /\ host /\ pc[c] = "sent" /\ child[c] = None
  /\ \/ hops[c] >= MaxHops
     \/ \A d \in Call : pc[d] # "off"
  /\ Goto(c, "done")
  /\ UNCHANGED <<host, born, drained, payload, tries, child, started>>

\* The child has ended: the answer is sent, or it is too large and the connection
\* is closed without one.
Answer(c) ==
  /\ host /\ pc[c] = "sent" /\ child[c] # None
  /\ pc[child[c]] = "done"
  /\ Goto(c, "done") \/ Goto(c, "broken")
  /\ child' = [child EXCEPT ![c] = None]
  /\ UNCHANGED <<host, born, drained, payload, tries, started>>

HostStart ==
  /\ ~host
  /\ host' = TRUE
  /\ UNCHANGED <<pc, born, drained, payload, tries, child, started>>

\* Every connection breaks; the children live on.
HostCrash ==
  /\ host
  /\ host' = FALSE
  /\ pc' = [c \in Call |-> IF pc[c] = "sent" THEN "broken" ELSE pc[c]]
  /\ child' = [c \in Call |-> None]
  /\ UNCHANGED <<born, drained, payload, tries, started>>

-----------------------------------------------------------------------------
Caller(c) ==
  \/ Decide(c) \/ Finish(c) \/ BuildRequest(c) \/ Connect(c)
  \/ Unavailable(c) \/ Broken(c)

Host(c) == (\E d \in Call : Serve(c, d)) \/ Refuse(c) \/ Answer(c)

Next ==
  \/ \E c \in Call :
       \/ \E kind \in {"cli", "control"}, input \in {"none", "data"} : Invoke(c, kind, input)
       \/ Caller(c) \/ Host(c) \/ Kill(c)
  \/ HostStart \/ HostCrash

Spec == Init /\ [][Next]_vars

\* Every process is scheduled and commands end; the desktop need not be there.
FairSpec == Spec /\ \A c \in Call : WF_vars(Caller(c)) /\ WF_vars(Host(c))

-----------------------------------------------------------------------------
(* Properties. *)

\* A request that may have been executed is not sent a second time, unless the
\* shim had the desktop started for it: an lpcctl command is started at most
\* once, wherever the desktop dies and however often the caller tries.
SentOnce ==
  \A c \in Call : started[c] > 1 => target[c] = "cli" /\ tries[c] > 0

\* The program the desktop starts reads what its caller was given, unless the
\* shim had the desktop started for it.
InputKept ==
  \A d \in Call :
    from[d] # None =>
      \/ given[d] = given[from[d]]
      \/ target[d] = "cli" /\ tries[from[d]] > 0

\* Every call ends, whatever becomes of the desktop and even if no process ever
\* sees the verified view.
CallsEnd == \A c \in Call : pc[c] # "off" ~> pc[c] = "done"

-----------------------------------------------------------------------------
(* The inductive invariant. *)

\* A call whose request is built only once.
Plain(c) == target[c] = "control" \/ tries[c] = 0

\* A call that has not started yet, or not got further than its view.
Unborn ==
  \A c \in Call :
    /\ pc[c] \in {"off", "start"} => tries[c] = 0 /\ started[c] = 0 /\ ~drained[c]
    /\ pc[c] = "off" => from[c] = None /\ hops[c] = 0

\* A plain call starts nothing before it has sent its request, and then one call.
PlainStarts ==
  \A c \in Call :
    Plain(c) =>
      /\ started[c] <= 1
      /\ pc[c] \in {"send", "connect", "unavailable"} => started[c] = 0
      /\ pc[c] = "sent" /\ child[c] = None => started[c] = 0

\* A plain call reads its standard input once.
PlainReads ==
  \A c \in Call :
    Plain(c) =>
      /\ pc[c] = "send" => ~drained[c]
      /\ pc[c] \in {"connect", "sent"} => payload[c] = given[c]
      /\ pc[c] = "unavailable" /\ target[c] = "control" => payload[c] = given[c]

\* A child is the same program as its caller, one hop further.
Lineage ==
  \A d \in Call :
    from[d] # None =>
      /\ pc[from[d]] # "off"
      /\ target[d] = target[from[d]]
      /\ hops[d] = hops[from[d]] + 1
      /\ Plain(from[d]) => given[d] = given[from[d]]

IInv == TypeOK /\ Unborn /\ PlainStarts /\ PlainReads /\ Lineage
=============================================================================
