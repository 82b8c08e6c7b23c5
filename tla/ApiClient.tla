------------------------------ MODULE ApiClient ------------------------------
(***************************************************************************)
(* The connector's connection to the node: instantiateClient and           *)
(* getApiClient (blockchain-connector/shared/sdk/client.js), waitForIt     *)
(* (shared/utils/waitForIt.js) and the subscription to the node's events   *)
(* (shared/sdk/events.js, events/proxy/allEvents.js).                      *)
(*                                                                         *)
(* A caller is one pending promise of getApiClient.  JavaScript runs each  *)
(* step to its next await, so instantiateClient either returns at once or  *)
(* starts a connection and returns when that settles.  waitForIt calls it  *)
(* immediately (the "first" call) and then on every tick of an interval    *)
(* (a "poll").  Only the first call clears the interval: a poll hands      *)
(* clearInterval the module's `this', which is no timer.  When what it got  *)
(* is of no use, getApiClient calls waitForIt again: its next round.       *)
(***************************************************************************)
EXTENDS FiniteSets, Naturals

CONSTANTS
  Caller,         \* requests to the node
  Subscriber,     \* the request made by exportAllEvents when the service starts
  MaxFailures,    \* bound: connection attempts that fail
  MaxLosses       \* bound: connections that are lost

ASSUME CallerAssumption ==
  /\ Subscriber \in Caller
  /\ MaxFailures \in Nat
  /\ MaxLosses \in Nat

VARIABLES
  clientCache,      \* "none", "alive" or "dead"
  isInstantiating,  \* the flag that keeps others from connecting
  elapsed,          \* Date.now() - instantiationBeginTime > MAX_INSTANTIATION_WAIT_TIME
  connecting,       \* the connection attempts in progress
  pc,               \* what each caller is doing
  round,            \* how often each caller has started over
  timers,           \* the intervals that are running
  result,           \* what a caller got: a client, or the error object
  subscribed,       \* whether the cached client delivers the node's events
  spareSubscribed,  \* whether a replaced client that is still connected does
  failures, losses

clientVars == <<clientCache, isInstantiating, elapsed, connecting, pc, round, timers,
                result, subscribed, spareSubscribed, failures, losses>>

\* Starting over takes a failed attempt.
Round == 0..MaxFailures

\* An attempt is made by the first call or by a poll of a wait; a wait has at
\* most one of each in progress (bound).
Wait == Caller \X Round
Attempt == [wait : Wait, first : BOOLEAN]

TypeOK ==
  /\ clientCache \in {"none", "alive", "dead"}
  /\ isInstantiating \in BOOLEAN
  /\ elapsed \in BOOLEAN
  /\ connecting \subseteq Attempt
  /\ pc \in [Caller -> {"idle", "calling", "waiting", "turnedAway", "returned"}]
  /\ round \in [Caller -> Round]
  /\ timers \subseteq Wait
  /\ result \in [Caller -> {"none", "client", "error"}]
  /\ subscribed \in BOOLEAN
  /\ spareSubscribed \in BOOLEAN
  /\ failures \in 0..MaxFailures
  /\ losses \in 0..MaxLosses

ClientInit ==
  /\ clientCache = "none"
  /\ isInstantiating = FALSE
  /\ elapsed = FALSE
  /\ connecting = {}
  /\ pc = [c \in Caller |-> "idle"]
  /\ round = [c \in Caller |-> 0]
  /\ timers = {}
  /\ result = [c \in Caller |-> "none"]
  /\ subscribed = FALSE
  /\ spareSubscribed = FALSE
  /\ failures = 0
  /\ losses = 0

Alive == clientCache = "alive"

\* newApiClient has a listener once exportAllEvents has run up to its await.
Listening == pc[Subscriber] # "idle"
-----------------------------------------------------------------------------
(***************************************************************************)
(* getApiClient.                                                           *)
(***************************************************************************)
CurrentWait(c) == <<c, round[c]>>
Pending(w) == pc[w[1]] = "waiting" /\ round[w[1]] = w[2]

\* What the caller of wait w does with a result r: return it if the cached
\* client is alive (which need not be what r is), start over otherwise.  A
\* promise settles only once.
Settle(w, r, alive) ==
  LET c == w[1]
  IN  IF ~Pending(w) THEN UNCHANGED <<pc, round, result>>
      ELSE IF alive
      THEN /\ pc' = [pc EXCEPT ![c] = "returned"]
           /\ result' = [result EXCEPT ![c] = r]
           /\ UNCHANGED round
      ELSE /\ pc' = [pc EXCEPT ![c] = "calling"]
           /\ round' = [round EXCEPT ![c] = @ + 1]
           /\ UNCHANGED result

Request(c) ==
  /\ pc[c] = "idle"
  /\ pc' = [pc EXCEPT ![c] = "calling"]
  /\ UNCHANGED <<clientCache, isInstantiating, elapsed, connecting, round, timers,
                 result, subscribed, spareSubscribed, failures, losses>>

\* Mutant of CallAlive: getApiClient's test of the cached client is inverted.
CallAliveInverted(c) ==
  /\ pc[c] = "calling"
  /\ ~isInstantiating
  /\ Alive
  /\ round' = [round EXCEPT ![c] = @ + 1]
  /\ UNCHANGED <<clientCache, isInstantiating, elapsed, connecting, pc, timers,
                 result, subscribed, spareSubscribed, failures, losses>>

\* The first call finds a live client.
CallAlive(c) ==
  /\ pc[c] = "calling"
  /\ ~isInstantiating
  /\ Alive
  /\ pc' = [pc EXCEPT ![c] = "returned"]
  /\ result' = [result EXCEPT ![c] = "client"]
  /\ subscribed' = (subscribed \/ c = Subscriber)
  /\ UNCHANGED <<clientCache, isInstantiating, elapsed, connecting, round, timers,
                 spareSubscribed, failures, losses>>

\* Mutant of Connect: a client is only ever made once.
ConnectOnce(w, first) ==
  /\ ~isInstantiating
  /\ clientCache = "none"
  /\ [wait |-> w, first |-> first] \notin connecting
  /\ isInstantiating' = TRUE
  /\ elapsed' = FALSE
  /\ connecting' = connecting \cup {[wait |-> w, first |-> first]}

\* instantiateClient: no live client and nobody connecting.
Connect(w, first) ==
  /\ ~isInstantiating
  /\ ~Alive
  /\ [wait |-> w, first |-> first] \notin connecting
  /\ isInstantiating' = TRUE
  /\ elapsed' = FALSE
  /\ connecting' = connecting \cup {[wait |-> w, first |-> first]}

CallConnects(c) ==
  /\ pc[c] = "calling"
  /\ Connect(CurrentWait(c), TRUE)
  /\ pc' = [pc EXCEPT ![c] = "waiting"]
  /\ timers' = timers \cup {CurrentWait(c)}
  /\ UNCHANGED <<clientCache, round, result, subscribed, spareSubscribed, failures,
                 losses>>

\* Somebody is connecting: undefined is returned, after the flag was reset if
\* that takes too long.  waitForIt clears the interval and does not resolve, so
\* nothing ever settles this wait.
CallTurnedAway(c) ==
  /\ pc[c] = "calling"
  /\ isInstantiating
  /\ isInstantiating' = ~elapsed
  /\ pc' = [pc EXCEPT ![c] = "turnedAway"]
  /\ UNCHANGED <<clientCache, elapsed, connecting, round, timers, result, subscribed,
                 spareSubscribed, failures, losses>>
-----------------------------------------------------------------------------
(***************************************************************************)
(* A tick of the interval of wait w, also of one that has its result.      *)
(***************************************************************************)
PollAlive(w) ==
  /\ w \in timers
  /\ ~isInstantiating
  /\ Alive
  /\ Pending(w)
  /\ Settle(w, "client", TRUE)
  /\ subscribed' = (subscribed \/ w[1] = Subscriber)
  /\ UNCHANGED <<clientCache, isInstantiating, elapsed, connecting, timers,
                 spareSubscribed, failures, losses>>

PollConnects(w) ==
  /\ w \in timers
  /\ Connect(w, FALSE)
  /\ UNCHANGED <<clientCache, pc, round, timers, result, subscribed,
                 spareSubscribed, failures, losses>>

\* Mutants of PollResetsFlag: the time is not looked at; the flag is not reset.
PollResetsFlagEarly(w) ==
  /\ w \in timers
  /\ isInstantiating
  /\ isInstantiating' = FALSE
  /\ UNCHANGED <<clientCache, elapsed, connecting, pc, round, timers, result,
                 subscribed, spareSubscribed, failures, losses>>

PollKeepsFlag(w) ==
  /\ w \in timers
  /\ isInstantiating
  /\ elapsed
  /\ UNCHANGED clientVars

\* The poll finds that the attempt takes too long.
PollResetsFlag(w) ==
  /\ w \in timers
  /\ isInstantiating
  /\ elapsed
  /\ isInstantiating' = FALSE
  /\ UNCHANGED <<clientCache, elapsed, connecting, pc, round, timers, result,
                 subscribed, spareSubscribed, failures, losses>>
-----------------------------------------------------------------------------
(***************************************************************************)
(* A connection attempt settles.                                           *)
(***************************************************************************)
\* The interval stops when the first call returns.
TimersAfter(a) == IF a.first THEN timers \ {a.wait} ELSE timers

\* createWSClient or createIPCClient succeeds: the new client is cached, and
\* newApiClient is dispatched while isInstantiating is still what it was.  Its
\* listener asks for a client in turn, and is turned away if the flag is set.
ConnectionMade(a) ==
  /\ a \in connecting
  /\ connecting' = connecting \ {a}
  /\ clientCache' = "alive"
  /\ isInstantiating' = FALSE
  /\ spareSubscribed' = (spareSubscribed \/ (Alive /\ subscribed))
  /\ subscribed' = \/ Listening /\ ~isInstantiating
                   \/ a.wait[1] = Subscriber /\ Pending(a.wait)
  /\ timers' = TimersAfter(a)
  /\ Settle(a.wait, "client", TRUE)
  /\ UNCHANGED <<elapsed, failures, losses>>

\* ECONNREFUSED is thrown on: waitForIt keeps its interval and polls again.
\* The flag stays set.
ConnectionRefused(a) ==
  /\ a \in connecting
  /\ failures < MaxFailures
  /\ failures' = failures + 1
  /\ connecting' = connecting \ {a}
  /\ UNCHANGED <<clientCache, isInstantiating, elapsed, pc, round, timers, result,
                 subscribed, spareSubscribed, losses>>

\* Any other error becomes an ordinary result, { data: { error } }.  The flag
\* stays set.
ConnectionError(a) ==
  /\ a \in connecting
  /\ failures < MaxFailures
  /\ failures' = failures + 1
  /\ connecting' = connecting \ {a}
  /\ timers' = TimersAfter(a)
  /\ Settle(a.wait, "error", Alive)
  /\ UNCHANGED <<clientCache, isInstantiating, elapsed, subscribed,
                 spareSubscribed, losses>>
-----------------------------------------------------------------------------
\* The node closes a connection (external).
LoseClient ==
  /\ losses < MaxLosses
  /\ losses' = losses + 1
  /\ \/ /\ Alive
        /\ clientCache' = "dead"
        /\ subscribed' = FALSE
        /\ UNCHANGED spareSubscribed
     \/ /\ spareSubscribed
        /\ spareSubscribed' = FALSE
        /\ UNCHANGED <<clientCache, subscribed>>
  /\ UNCHANGED <<isInstantiating, elapsed, connecting, pc, round, timers, result,
                 failures>>

\* 100 ms pass since the latest attempt began.
TimePasses ==
  /\ isInstantiating
  /\ ~elapsed
  /\ elapsed' = TRUE
  /\ UNCHANGED <<clientCache, isInstantiating, connecting, pc, round, timers, result,
                 subscribed, spareSubscribed, failures, losses>>
-----------------------------------------------------------------------------
Call(c) == CallAlive(c) \/ CallConnects(c) \/ CallTurnedAway(c)
Poll(w) == PollAlive(w) \/ PollConnects(w) \/ PollResetsFlag(w)
Connection(a) == ConnectionMade(a) \/ ConnectionRefused(a) \/ ConnectionError(a)

ClientNext ==
  \/ \E c \in Caller : Request(c) \/ Call(c)
  \/ \E w \in Wait : Poll(w)
  \/ \E a \in Attempt : Connection(a)
  \/ LoseClient
  \/ TimePasses

ClientSpec == ClientInit /\ [][ClientNext]_clientVars

\* The event loop runs every due callback, time passes, and each connection
\* attempt succeeds or fails.
ClientFairness ==
  /\ \A c \in Caller : WF_clientVars(Call(c))
  /\ \A w \in Wait : WF_clientVars(Poll(w))
  /\ \A a \in Attempt : WF_clientVars(Connection(a))
  /\ WF_clientVars(TimePasses)

FairClientSpec == ClientSpec /\ ClientFairness
-----------------------------------------------------------------------------
\* While no connection is lost, isInstantiating lets a second attempt start
\* next to a pending one only when the latest has been going on for longer
\* than MAX_INSTANTIATION_WAIT_TIME, although failed attempts leave the flag
\* set and successful ones clear it for all.
OverlapOnlyAfterTimeout ==
  [][connecting # {} /\ ~(connecting' \subseteq connecting)
       => elapsed \/ losses > 0]_clientVars

\* Every caller of getApiClient gets its client, over failed attempts, lost
\* connections and starting over, unless its first call finds an instantiation in
\* progress: that is the only way to be left waiting.
ServedUnlessTurnedAway ==
  \A c \in Caller : pc[c] = "calling" ~> pc[c] \in {"returned", "turnedAway"}

\* As long as any interval is running, a lost connection is made again.
ReconnectsWhilePolled == []<>(Alive \/ timers = {})

\* A caller that finds the instantiation in progress to take too long re-attempts
\* it, as the comment at its reset of the flag says, and gets a client.
ReattemptsAfterTimeout ==
  \A c \in Caller : pc[c] = "calling" /\ isInstantiating /\ elapsed ~> pc[c] = "returned"
=============================================================================
