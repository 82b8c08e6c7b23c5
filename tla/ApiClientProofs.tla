--------------------------- MODULE ApiClientProofs ---------------------------
(***************************************************************************)
(* Proofs about the connector's client for any number of callers, failures *)
(* and lost connections: type correctness, and that isInstantiating keeps  *)
(* connection attempts apart until the wait is too long.                   *)
(***************************************************************************)
EXTENDS ApiClient, TLAPS

\* Who starts over has had a failed attempt, so rounds stay within Round: an
\* attempt that settles does so for the first time.
RoundsOK == \A c \in Caller : round[c] <= failures

\* The flag is cleared while an attempt is pending only after the timeout, or
\* because a client was made, which then lives.
FlagGuards ==
  connecting # {} /\ ~isInstantiating /\ losses = 0 => elapsed \/ Alive

\* The inductive invariant.
ClientInv == TypeOK /\ RoundsOK /\ FlagGuards

\* The connector starts without a client, and nobody is connecting.
LEMMA InitialClient == ClientInit => ClientInv
<1> SUFFICES ASSUME ClientInit
             PROVE  ClientInv
  OBVIOUS
<1>1. 0 \in Round /\ 0 \in 0..MaxFailures /\ 0 \in 0..MaxLosses
  BY CallerAssumption DEF Round
<1>2. TypeOK
  BY <1>1 DEF ClientInit, TypeOK
<1>3. RoundsOK /\ FlagGuards
  BY DEF ClientInit, RoundsOK, FlagGuards
<1> QED
  BY <1>2, <1>3 DEF ClientInv

\* A wait names a caller and one of its rounds.
LEMMA WaitParts ==
  ASSUME NEW w \in Wait
  PROVE  w[1] \in Caller /\ w[2] \in Round
  BY DEF Wait

\* The current wait of a caller is a wait.
LEMMA CurrentWaitType ==
  ASSUME TypeOK, NEW c \in Caller
  PROVE  CurrentWait(c) \in Wait
  BY DEF TypeOK, CurrentWait, Wait

\* A result with a live client ends the wait and starts no new round.
LEMMA SettleAlive ==
  ASSUME TypeOK, RoundsOK, NEW w \in Wait, NEW r \in {"client", "error"},
         Settle(w, r, TRUE)
  PROVE  /\ pc' \in [Caller -> {"idle", "calling", "waiting", "turnedAway", "returned"}]
         /\ result' \in [Caller -> {"none", "client", "error"}]
         /\ round' = round
<1>1. w[1] \in Caller
  BY WaitParts
<1> QED
  BY <1>1 DEF Settle, TypeOK

\* A step of a first call keeps the invariant.
LEMMA CallStep ==
  ASSUME ClientInv, NEW c \in Caller, Request(c) \/ Call(c)
  PROVE  ClientInv'
<1>0. CurrentWait(c) \in Wait
  BY CurrentWaitType DEF ClientInv
<1>1. CASE Request(c)
  BY <1>1 DEF Request, ClientInv, TypeOK, RoundsOK, FlagGuards, Alive
<1>2. CASE CallAlive(c)
  BY <1>2 DEF CallAlive, ClientInv, TypeOK, RoundsOK, FlagGuards, Alive
<1>3. CASE CallConnects(c)
  <2>1. [wait |-> CurrentWait(c), first |-> TRUE] \in Attempt
    BY <1>0 DEF Attempt
  <2> QED
    BY <1>0, <1>3, <2>1
    DEF CallConnects, Connect, ClientInv, TypeOK, RoundsOK, FlagGuards, Alive
<1>4. CASE CallTurnedAway(c)
  BY <1>4 DEF CallTurnedAway, ClientInv, TypeOK, RoundsOK, FlagGuards, Alive
<1> QED
  BY <1>1, <1>2, <1>3, <1>4 DEF Call

\* A poll keeps the invariant: it clears the flag only after the timeout.
LEMMA PollStep ==
  ASSUME ClientInv, NEW w \in Wait, Poll(w)
  PROVE  ClientInv'
<1>1. CASE PollAlive(w)
  <2>1. /\ pc' \in [Caller -> {"idle", "calling", "waiting", "turnedAway", "returned"}]
        /\ result' \in [Caller -> {"none", "client", "error"}]
        /\ round' = round
    BY <1>1, SettleAlive DEF PollAlive, ClientInv
  <2> QED
    BY <1>1, <2>1 DEF PollAlive, ClientInv, TypeOK, RoundsOK, FlagGuards, Alive
<1>2. CASE PollConnects(w)
  <2>1. [wait |-> w, first |-> FALSE] \in Attempt
    BY DEF Attempt
  <2> QED
    BY <1>2, <2>1
    DEF PollConnects, Connect, ClientInv, TypeOK, RoundsOK, FlagGuards, Alive
<1>3. CASE PollResetsFlag(w)
  BY <1>3 DEF PollResetsFlag, ClientInv, TypeOK, RoundsOK, FlagGuards, Alive
<1> QED
  BY <1>1, <1>2, <1>3 DEF Poll

\* A settling attempt keeps the invariant: only a success clears the flag.
LEMMA ConnectionStep ==
  ASSUME ClientInv, NEW a \in Attempt, Connection(a)
  PROVE  ClientInv'
<1>0. a.wait \in Wait /\ a.wait[1] \in Caller /\ TimersAfter(a) \subseteq Wait
  BY WaitParts DEF Attempt, TimersAfter, ClientInv, TypeOK
<1>1. CASE ConnectionMade(a)
  <2>1. /\ pc' \in [Caller -> {"idle", "calling", "waiting", "turnedAway", "returned"}]
        /\ result' \in [Caller -> {"none", "client", "error"}]
        /\ round' = round
    BY <1>0, <1>1, SettleAlive DEF ConnectionMade, ClientInv
  <2>2. TypeOK'
    BY <1>0, <1>1, <2>1 DEF ConnectionMade, ClientInv, TypeOK
  <2>3. RoundsOK' /\ FlagGuards'
    BY <1>1, <2>1 DEF ConnectionMade, ClientInv, RoundsOK, FlagGuards, Alive
  <2> QED
    BY <2>2, <2>3 DEF ClientInv
<1>2. CASE ConnectionRefused(a)
  BY <1>2, CallerAssumption
  DEF ConnectionRefused, ClientInv, TypeOK, RoundsOK, FlagGuards, Alive, Round
<1>3. CASE ConnectionError(a)
  <2>1. failures' \in 0..MaxFailures /\ failures' = failures + 1 /\ failures \in Nat
    BY <1>3, CallerAssumption DEF ConnectionError, ClientInv, TypeOK
  <2>2. /\ pc' \in [Caller -> {"idle", "calling", "waiting", "turnedAway", "returned"}]
        /\ result' \in [Caller -> {"none", "client", "error"}]
        /\ round' \in [Caller -> Nat]
        /\ \A c \in Caller : round'[c] <= failures + 1
    BY <1>0, <1>3, <2>1 DEF ConnectionError, Settle, ClientInv, TypeOK, RoundsOK, Round
  <2>3. round' \in [Caller -> Round] /\ RoundsOK'
    BY <2>1, <2>2, CallerAssumption DEF Round, RoundsOK
  <2>4. TypeOK'
    BY <1>0, <1>3, <2>1, <2>2, <2>3 DEF ConnectionError, ClientInv, TypeOK
  <2>5. FlagGuards'
    BY <1>3 DEF ConnectionError, ClientInv, FlagGuards, Alive
  <2> QED
    BY <2>3, <2>4, <2>5 DEF ClientInv
<1> QED
  BY <1>1, <1>2, <1>3 DEF Connection

\* Every step of the connector keeps the invariant.
LEMMA ClientStep == ClientInv /\ [ClientNext]_clientVars => ClientInv'
<1> SUFFICES ASSUME ClientInv, [ClientNext]_clientVars
             PROVE  ClientInv'
  OBVIOUS
<1>1. CASE \E c \in Caller : Request(c) \/ Call(c)
  BY <1>1, CallStep
<1>2. CASE \E w \in Wait : Poll(w)
  BY <1>2, PollStep
<1>3. CASE \E a \in Attempt : Connection(a)
  BY <1>3, ConnectionStep
<1>4. CASE LoseClient
  <2>1. losses' \in 0..MaxLosses /\ losses' # 0
    BY <1>4, CallerAssumption DEF LoseClient, ClientInv, TypeOK
  <2>2. TypeOK'
    BY <1>4, <2>1 DEF LoseClient, ClientInv, TypeOK
  <2>3. RoundsOK' /\ FlagGuards'
    BY <1>4, <2>1 DEF LoseClient, ClientInv, RoundsOK, FlagGuards
  <2> QED
    BY <2>2, <2>3 DEF ClientInv
<1>5. CASE TimePasses
  BY <1>5 DEF TimePasses, ClientInv, TypeOK, RoundsOK, FlagGuards, Alive
<1>6. CASE UNCHANGED clientVars
  BY <1>6 DEF clientVars, ClientInv, TypeOK, RoundsOK, FlagGuards, Alive
<1> QED
  BY <1>1, <1>2, <1>3, <1>4, <1>5, <1>6 DEF ClientNext

\* The invariant holds for ever.
LEMMA ClientInvariant == ClientSpec => []ClientInv
  BY InitialClient, ClientStep, PTL DEF ClientSpec

\* The state of the connector's client is well typed; in particular no caller
\* starts over more often than attempts fail.
THEOREM ClientTypeCorrect == ClientSpec => []TypeOK
<1>1. ClientInv => TypeOK
  BY DEF ClientInv
<1> QED
  BY <1>1, ClientInvariant, PTL

\* instantiateClient starts an attempt next to a pending one only after
\* MAX_INSTANTIATION_WAIT_TIME, as long as no connection is lost, for any
\* number of callers and failed attempts.
THEOREM AttemptsKeptApart == ClientSpec => OverlapOnlyAfterTimeout
<1>1. ASSUME ClientInv, [ClientNext]_clientVars
      PROVE  [connecting # {} /\ ~(connecting' \subseteq connecting)
                => elapsed \/ losses > 0]_clientVars
  <2> SUFFICES ASSUME connecting # {}, ~(connecting' \subseteq connecting)
               PROVE  elapsed \/ losses > 0
    OBVIOUS
  <2>1. ~isInstantiating /\ ~Alive
    <3>1. CASE \E c \in Caller : Request(c) \/ Call(c)
      BY <3>1 DEF Request, Call, CallAlive, CallConnects, CallTurnedAway, Connect
    <3>2. CASE \E w \in Wait : Poll(w)
      BY <3>2 DEF Poll, PollAlive, PollConnects, PollResetsFlag, Connect
    <3>3. CASE \E a \in Attempt : Connection(a)
      BY <3>3 DEF Connection, ConnectionMade, ConnectionRefused, ConnectionError
    <3>4. CASE LoseClient \/ TimePasses \/ UNCHANGED clientVars
      BY <3>4 DEF LoseClient, TimePasses, clientVars
    <3> QED
      BY <1>1, <3>1, <3>2, <3>3, <3>4 DEF ClientNext
  <2>2. losses \in Nat
    BY <1>1, CallerAssumption DEF ClientInv, TypeOK
  <2> QED
    BY <1>1, <2>1, <2>2 DEF ClientInv, FlagGuards
<1> QED
  BY <1>1, ClientInvariant, PTL DEF ClientSpec, OverlapOnlyAfterTimeout
=============================================================================
