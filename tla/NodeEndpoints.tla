--------------------------- MODULE NodeEndpoints ---------------------------
(***************************************************************************)
(* The connector's requests to the node (blockchain-connector/shared/sdk): *)
(* one record for each endpoint, the values it caches, the start of the    *)
(* service, the node's chain events and the list of peers.                 *)
(*                                                                         *)
(* What the node says is known by its age: the node's epoch grows with its *)
(* chain.  It may also answer with an object that holds an error (of a key *)
(* that does not exist, "missing"), fail, or not answer in time.           *)
(***************************************************************************)
EXTENDS Integers, Sequences, FiniteSets, FiniteSetsExt, SequencesExt, Functions

CONSTANTS
  NodeCall,        \* calls of the connector's methods
  Peer,            \* peers of the node
  Reload,          \* runs of the peer list's job that may overlap
  NUM_REQUEST_RETRIES,   \* how often a request is repeated
  LastHeight,      \* the height of the node's last block; 0 is the genesis block
  MaxEpoch,        \* bound: epochs of the node
  MaxNodeCalls,    \* bound: calls
  MaxNodeFailures  \* bound: errors, failures and timeouts

ASSUME NodeAssumption ==
  /\ IsFiniteSet(Peer)
  /\ NUM_REQUEST_RETRIES \in Nat
  /\ LastHeight \in Nat
  /\ MaxEpoch \in Nat
  /\ MaxNodeCalls \in Nat
  /\ MaxNodeFailures \in Nat

VARIABLES
  nodeEpoch,       \* what the node would say now
  caches,          \* the module-level variables
  nodeCalls,       \* each call: its endpoint, when it asked, its retries and its result
  changes,         \* how often each call has changed the node
  initAt,          \* how far the service has started
  prepared,        \* "rewardModule", "schemas" and "metadata", once set
  eventsAt,        \* the chain events in progress: the refresh they are at
  dispatched,      \* the chain events that were passed on
  refreshed,       \* the newest answer ever stored in the refreshed caches
  blocksAnswer,    \* the last list of blocks, and what it was asked for
  connection,      \* the node's peers that are connected to it
  peerStore,       \* peers, connected, disconnected and statistics
  reloads,         \* runs of the peer list's job
  callsMade, nodeFailures

callVars == <<caches, nodeCalls, changes, callsMade>>
eventVars == <<eventsAt, dispatched, refreshed>>
peerVars == <<connection, peerStore, reloads>>
nodeVars == <<nodeEpoch, callVars, initAt, prepared, eventVars, blocksAnswer, peerVars,
              nodeFailures>>

Cache == {"metadata", "nodeInfo", "schema", "registeredActions", "registeredEvents",
          "registeredModules", "escrowedAmounts", "feeTokenID", "minFeePerByte",
          "rewardTokenID", "mainchainID", "genesisConfig"}
Refreshed == {"nodeInfo", "escrowedAmounts"}
CheckedCache == Cache \ {"nodeInfo", "escrowedAmounts", "schema", "metadata",
                         "registeredActions", "registeredEvents"}
Undefined == [kind |-> "undefined", epoch |-> 0]
Waiting == [kind |-> "waiting", epoch |-> 0]
Failed == [kind |-> "failed", epoch |-> 0]
TimeoutException == [kind |-> "TimeoutException", epoch |-> 0]
RawTimeout == [kind |-> "timeout", epoch |-> 0]
-----------------------------------------------------------------------------
(* The endpoints.  Each asks the node and turns the message of a timeout    *)
(* into a TimeoutException, if it awaits the answer; `onError' is what it   *)
(* makes of an answer that holds an error; `caches' are its own variable    *)
(* and the one it is taken from; `format' is what its answer goes through;  *)
(* `needs' is what its request is made from.                                *)

Ask(asks) ==
  [asks |-> asks, caches |-> << >>, onError |-> "returned", awaited |-> TRUE,
   format |-> "none", needs |-> {}, changes |-> FALSE]
Formatted(asks, format) == [Ask(asks) EXCEPT !.format = format]
CachedIn(asks, names) == [Ask(asks) EXCEPT !.caches = names]

\* A transaction is encoded by its schema and that of its command's parameters.
encodeTransaction == {"schemas", "metadata"}

\* endpoints.js
getNetworkConnectedPeers == Ask("network_getConnectedPeers")
getNetworkDisconnectedPeers == Ask("network_getDisconnectedPeers")
getGeneratorStatus == Ask("generator_getStatus")
updateGeneratorStatus == [Ask("generator_updateStatus") EXCEPT !.changes = TRUE]
getLastBlock == Formatted("chain_getLastBlock", "block")
getBlockByHeight == Formatted("chain_getBlockByHeight", "block")
getBlockByID == Formatted("chain_getBlockByID", "block")
getEventsByHeight == Formatted("chain_getEvents", "event")
getTransactionByID == Formatted("chain_getTransactionByID", "transaction")
getTransactionsByIDs == Formatted("chain_getTransactionsByIDs", "transaction")
getTransactionsFromPool == Formatted("txpool_getTransactionsFromPool", "transaction")
postTransaction == [Ask("txpool_postTransaction") EXCEPT !.changes = TRUE]
dryRunTransaction ==
  [Formatted("txpool_dryRunTransaction", "event") EXCEPT !.needs = encodeTransaction]
getGenerators == Ask("chain_getGeneratorList")

\* endpoints_1.js
getSchemas == CachedIn("system_getSchema", <<"schema">>)
getRegisteredActions == CachedIn("app_getRegisteredActions", <<"registeredActions">>)
getRegisteredEvents == CachedIn("app_getRegisteredEvents", <<"registeredEvents">>)
getNodeInfo == CachedIn("system_getNodeInfo", <<"nodeInfo">>)
getSystemMetadata == CachedIn("system_getMetadata", <<"metadata">>)
getRegisteredModules == CachedIn("system_getMetadata", <<"registeredModules", "metadata">>)

\* tokens.js
getTokenBalances == Ask("token_getBalances")
getTokenBalance == Ask("token_getBalance")
getEscrowedAmounts == CachedIn("token_getEscrowedAmounts", <<"escrowedAmounts">>)
getSupportedTokens == [Ask("token_getSupportedTokens") EXCEPT !.awaited = FALSE]
getTotalSupply == [Ask("token_getTotalSupply") EXCEPT !.awaited = FALSE]
getTokenInitializationFees == [Ask("token_getInitializationFees") EXCEPT !.onError = "thrown"]
hasUserAccount == [Ask("token_hasUserAccount") EXCEPT !.awaited = FALSE]

\* pos.js
getPosValidator == Ask("pos_getValidator")
getAllPosValidators == Ask("pos_getAllValidators")
getPosValidatorsByStake == Ask("pos_getValidatorsByStake")
getPosConstants == [Ask("pos_getConstants") EXCEPT !.onError = "thrown"]
getPosPendingUnlocks == Ask("pos_getPendingUnlocks")
getStaker == [Ask("pos_getStaker") EXCEPT !.onError = "emptied"]
getPosClaimableRewards == Ask("pos_getClaimableRewards")
getPosLockedReward == Ask("pos_getLockedReward")
getPoSGenesisStakers == [Ask("chain_getBlockByHeight") EXCEPT !.onError = "thrown"]
getPoSGenesisValidators == [Ask("chain_getBlockByHeight") EXCEPT !.onError = "thrown"]

\* Mutant of cacheFeeTokenID: an answer that holds an error is stored.
cacheFeeTokenIDUnchecked == CachedIn("fee_getFeeTokenID", <<"feeTokenID">>)

\* fee.js, dynamicReward.js, auth.js, interoperability.js, legacy.js, validators.js
cacheFeeTokenID == [CachedIn("fee_getFeeTokenID", <<"feeTokenID">>) EXCEPT !.onError = "thrown"]
cacheMinFeePerByte ==
  [CachedIn("fee_getMinFeePerByte", <<"minFeePerByte">>) EXCEPT !.onError = "thrown"]
getRewardTokenID ==
  [CachedIn("reward_getRewardTokenID", <<"rewardTokenID">>)
     EXCEPT !.onError = "undefined", !.needs = {"rewardModule"}]
getAnnualInflation == [Ask("reward_getAnnualInflation") EXCEPT !.needs = {"rewardModule"}]
getDefaultRewardAtHeight ==
  [Ask("reward_getDefaultRewardAtHeight") EXCEPT !.needs = {"rewardModule"}]
getAuthAccount == Ask("auth_getAuthAccount")
getAuthMultiSigRegMsgSchema == Ask("auth_getMultiSigRegMsgSchema")
getChainAccount == Ask("interoperability_getChainAccount")
getMainchainID == CachedIn("system_getNodeInfo", <<"mainchainID", "nodeInfo">>)
getLegacyAccount == Ask("legacy_getLegacyAccount")
validateBLSKey == Ask("validators_validateBLSKey")
getValidator == Ask("validators_getValidator")
getGenesisConfig ==
  [CachedIn("system_getNodeInfo", <<"genesisConfig", "nodeInfo">>) EXCEPT !.onError = "undefined"]

nodeEndpoints ==
  {getNetworkConnectedPeers, getNetworkDisconnectedPeers, getGeneratorStatus,
   updateGeneratorStatus, getLastBlock, getBlockByHeight, getBlockByID, getEventsByHeight,
   getTransactionByID, getTransactionsByIDs, getTransactionsFromPool, postTransaction,
   dryRunTransaction, getGenerators, getSchemas, getRegisteredActions, getRegisteredEvents,
   getNodeInfo, getSystemMetadata, getRegisteredModules, getTokenBalances, getTokenBalance,
   getEscrowedAmounts, getSupportedTokens, getTotalSupply, getTokenInitializationFees,
   hasUserAccount, getPosValidator, getAllPosValidators, getPosValidatorsByStake,
   getPosConstants, getPosPendingUnlocks, getStaker, getPosClaimableRewards,
   getPosLockedReward, getPoSGenesisStakers, getPoSGenesisValidators, getRewardTokenID,
   getAnnualInflation, getDefaultRewardAtHeight, getAuthAccount, getAuthMultiSigRegMsgSchema,
   getChainAccount, getMainchainID, getLegacyAccount, validateBLSKey, getValidator,
   getGenesisConfig}
-----------------------------------------------------------------------------
(* A request                                                                *)

\* The node's answers: of any moment since it was asked, or none.  Without one the
\* channel throws (external): an error with the message that the endpoints look
\* for, "timeout", or the TimeoutException that invokeEndpoint looks for.
TimedOut == {"timeout", "TimeoutException"}
Answers(asked) ==
  {[kind |-> "value", epoch |-> e] : e \in asked..nodeEpoch}
  \cup (IF nodeFailures < MaxNodeFailures
        THEN [kind : {"error", "missing", "failure"} \cup TimedOut, epoch : {nodeEpoch}] ELSE {})
Counted(a) == nodeFailures' = nodeFailures + (IF a.kind = "value" THEN 0 ELSE 1)

\* A value that is taken from another one needs that one to be no error.
IsTaken(e) == Len(e.caches) = 2

\* The catch blocks; a promise that is returned is not caught.
translateTimeout(e) == IF e.awaited THEN TimeoutException ELSE RawTimeout

\* The formatters fail on an error, and before the schemas are set: of the
\* transaction and of its command's parameters; of the assets of each module;
\* of the event and of its data.
Decodes(a, schemas) == IF schemas \subseteq prepared /\ a.kind = "value" THEN a ELSE Failed
formatTransaction(a) == Decodes(a, {"schemas", "metadata"})
formatBlock(a) == formatTransaction(Decodes(a, {"metadata"}))
formatEvent(a) == Decodes(a, {"schemas", "metadata"})
FormatAs(format, a) ==
  CASE format = "block" -> formatBlock(a)
    [] format = "transaction" -> formatTransaction(a)
    [] format = "event" -> formatEvent(a)
    [] OTHER -> a

\* What an endpoint makes of an answer.
Outcome(e, a) ==
  CASE a.kind = "timeout" -> translateTimeout(e)
    [] a.kind = "TimeoutException" -> TimeoutException
    [] a.kind = "failure" \/ ~e.needs \subseteq prepared -> Failed
    [] a.kind = "missing" /\ e.onError = "emptied" -> [a EXCEPT !.kind = "value"]
    [] a.kind \in {"error", "missing"} /\ e.onError = "undefined" -> Undefined
    [] a.kind \in {"error", "missing"} /\ (e.onError = "thrown" \/ IsTaken(e)) -> Failed
    [] OTHER -> FormatAs(e.format, a)

\* The caches after outcome o of an answer a: the source of a value that is taken
\* from another one is stored before the value is.
Stored(e, a, o) ==
  [c \in Cache |->
     IF c \notin Range(e.caches) THEN caches[c]
     ELSE IF IsTaken(e) /\ c = e.caches[2] /\ a.kind \in {"error", "missing"} THEN a
     ELSE IF o.kind \in {"value", "error", "undefined"} THEN o
     ELSE caches[c]]

IsStored(c) == caches[c].kind # "undefined"
IsReturned(e, forced) == e.caches # << >> /\ ~forced /\ IsStored(e.caches[1])

\* The node is asked unless what is needed is stored.
IsAsked(e, forced) == forced \/ \A i \in DOMAIN e.caches : ~IsStored(e.caches[i])

\* A call of invokeEndpoint has asked the node `sent' times; `thrown' is what the
\* channel has thrown so far.
NewCall(e, asked, sent, result) ==
  [endpoint |-> e, asked |-> asked, retries |-> NUM_REQUEST_RETRIES, sent |-> sent,
   thrown |-> {}, result |-> result]
NoCall == NewCall(getNodeInfo, 0, 0, Undefined)

\* The parameters of getNodeInfo's method are its flag: a call always refreshes.
isForceUpdate(e) == e = getNodeInfo

\* A method of the connector is called.
StartCall(c, e) ==
  LET forced == isForceUpdate(e)
      taken == IF caches[e.caches[2]].kind = "value" THEN caches[e.caches[2]]
               ELSE IF e.onError = "undefined" THEN Undefined ELSE Failed
      result == IF IsAsked(e, forced) THEN Waiting
                ELSE IF IsReturned(e, forced) THEN caches[e.caches[1]] ELSE taken
  IN  /\ callsMade < MaxNodeCalls
      /\ initAt >= 4
      /\ nodeCalls[c].result # Waiting
      /\ nodeCalls' = [nodeCalls EXCEPT ![c] =
                         NewCall(e, nodeEpoch, IF result = Waiting THEN 1 ELSE 0, result)]
      /\ caches' = IF result.kind = "value" /\ IsTaken(e)
                   THEN [caches EXCEPT ![e.caches[1]] = result] ELSE caches
      /\ changes' = [changes EXCEPT ![c] = 0]
      /\ callsMade' = callsMade + 1
      /\ UNCHANGED <<nodeEpoch, initAt, prepared, eventVars, blocksAnswer, peerVars,
                     nodeFailures>>

\* How often the node has done what it was asked for, n times before: a request
\* without a proper answer may have been executed.
Executions(e, a, n) ==
  IF ~e.changes THEN {n} ELSE IF a.kind = "value" THEN {n + 1} ELSE {n, n + 1}
Execute(c, a) ==
  \E n \in Executions(nodeCalls[c].endpoint, a, changes[c]) : changes' = [changes EXCEPT ![c] = n]

\* Mutant of IsRetried: any timeout is answered by another request.
IsRetriedByMessage(call, a) == call.retries # 0 /\ a.kind \in TimedOut

\* invokeEndpoint's catch block: its last try throws whatever it is.
IsRetried(call, a) == call.retries # 0 /\ a.kind = "TimeoutException"

\* invokeEndpoint asks again.
RetryCall(c) ==
  LET call == nodeCalls[c]
  IN  /\ call.result = Waiting
      /\ \E a \in Answers(call.asked) :
           /\ IsRetried(call, a)
           /\ nodeCalls' = [nodeCalls EXCEPT ![c] =
                              [endpoint |-> call.endpoint, asked |-> call.asked,
                               retries |-> call.retries - 1, sent |-> call.sent + 1,
                               thrown |-> call.thrown \cup {a.kind}, result |-> Waiting]]
           /\ Execute(c, a)
      /\ UNCHANGED <<nodeEpoch, caches, callsMade, initAt, prepared, eventVars, blocksAnswer,
                     peerVars, nodeFailures>>

\* invokeEndpoint returns or throws, and the endpoint makes its outcome of it.
AnswerCall(c) ==
  LET call == nodeCalls[c]
      e == call.endpoint
  IN  /\ call.result = Waiting
      /\ \E a \in Answers(call.asked) :
           LET o == Outcome(e, a)
           IN  /\ ~IsRetried(call, a)
               /\ nodeCalls' = [nodeCalls EXCEPT ![c] =
                                  [endpoint |-> e, asked |-> call.asked,
                                   retries |-> call.retries, sent |-> call.sent,
                                   thrown |-> call.thrown \cup ({a.kind} \cap TimedOut),
                                   result |-> o]]
               /\ caches' = Stored(e, a, o)
               /\ Execute(c, a)
               /\ refreshed' = [r \in Refreshed |-> Max({refreshed[r], caches'[r].epoch})]
               /\ Counted(a)
      /\ UNCHANGED <<nodeEpoch, callsMade, initAt, prepared, eventsAt, dispatched, blocksAnswer,
                     peerVars>>
-----------------------------------------------------------------------------
(* The start of the service: app.js and init, with the steps that ask       *)

\* waitForNode polls; exportAllMethods and exportAllEvents ask once.  A failure
\* to cache the fees is only logged, and skips the second one.
initSteps ==
  << [endpoint |-> getNodeInfo, sets |-> "none"],
     [endpoint |-> getRegisteredActions, sets |-> "none"],
     [endpoint |-> getRegisteredEvents, sets |-> "none"],
     [endpoint |-> getNodeInfo, sets |-> "none"],
     [endpoint |-> getRegisteredModules, sets |-> "rewardModule"],
     [endpoint |-> cacheMinFeePerByte, sets |-> "fees"],
     [endpoint |-> cacheFeeTokenID, sets |-> "fees"],
     [endpoint |-> getSchemas, sets |-> "schemas"],
     [endpoint |-> getSystemMetadata, sets |-> "metadata"] >>
IsStarted == initAt > Len(initSteps)

\* The process ends and is started again.
Restart ==
  /\ caches' = [c \in Cache |-> Undefined]
  /\ nodeCalls' = [c \in NodeCall |-> NoCall]
  /\ changes' = [c \in NodeCall |-> 0]
  /\ initAt' = 1
  /\ prepared' = {}
  /\ eventsAt' = [e \in 1..MaxEpoch |-> "none"]
  /\ dispatched' = {}
  /\ refreshed' = [r \in Refreshed |-> 0]

NextStep(failed) ==
  IF failed /\ initSteps[initAt].endpoint = cacheMinFeePerByte THEN initAt + 2 ELSE initAt + 1

\* Schemas and metadata are set to what is returned, even an error.
InitStep ==
  /\ ~IsStarted
  /\ LET step == initSteps[initAt]
         e == step.endpoint
         known == IF initAt = 4 THEN {} ELSE {caches[e.caches[1]]} \ {Undefined}
     IN  \E a \in IF known # {} THEN known ELSE Answers(nodeEpoch) :
           LET o == Outcome(e, a)
               isFailed == o.kind \notin {"value", "error"}
               isFatal == isFailed /\ initAt > 1 /\ step.sets # "fees"
           IN  /\ IF known # {} THEN UNCHANGED nodeFailures ELSE Counted(a)
               /\ \/ isFatal /\ Restart
                  \/ /\ ~isFatal
                     /\ initAt' = IF initAt = 1 /\ isFailed THEN 1 ELSE NextStep(isFailed)
                     /\ caches' = Stored(e, a, o)
                     /\ prepared' = prepared \cup ({step.sets} \ {"none", "fees"})
                     /\ refreshed' = [r \in Refreshed |-> Max({refreshed[r], caches'[r].epoch})]
                     /\ UNCHANGED <<nodeCalls, changes, eventsAt, dispatched>>
  /\ UNCHANGED <<nodeEpoch, blocksAnswer, peerVars, callsMade>>
-----------------------------------------------------------------------------
(* subscribeToAllRegisteredEvents: each chain event refreshes two caches    *)
(* before it is passed on, and is lost when a refresh fails.                *)

NodeMoves ==
  /\ nodeEpoch < MaxEpoch
  /\ nodeEpoch' = nodeEpoch + 1
  /\ eventsAt' = IF initAt > 3 THEN [eventsAt EXCEPT ![nodeEpoch'] = "nodeInfo"] ELSE eventsAt
  /\ UNCHANGED <<callVars, initAt, prepared, dispatched, refreshed, blocksAnswer, peerVars,
                 nodeFailures>>

\* Mutant of AfterRefresh: the second refresh is not awaited.
AfterRefreshUnawaited(c) == "dispatched"

AfterRefresh(c) == IF c = "nodeInfo" THEN "escrowedAmounts" ELSE "dispatched"

RefreshOnEvent(event) ==
  LET c == eventsAt[event]
      e == IF c = "nodeInfo" THEN getNodeInfo ELSE getEscrowedAmounts
  IN  /\ c \in Refreshed
      /\ \E a \in Answers(event) :
           LET o == Outcome(e, a)
               next == IF o.kind \in {"value", "error"} THEN AfterRefresh(c) ELSE "lost"
           IN  /\ eventsAt' = [eventsAt EXCEPT ![event] = next]
               /\ dispatched' = IF next = "dispatched" THEN dispatched \cup {event} ELSE dispatched
               /\ caches' = Stored(e, a, o)
               /\ refreshed' = [r \in Refreshed |-> Max({refreshed[r], caches'[r].epoch})]
               /\ Counted(a)
  /\ UNCHANGED <<nodeEpoch, nodeCalls, changes, callsMade, initAt, prepared, blocksAnswer,
                 peerVars>>
-----------------------------------------------------------------------------
(* Lists of blocks.  A block is known by its height; the genesis block is   *)
(* read from a file.                                                        *)

Fails == <<-1>>
NoBlocks == [asked |-> << >>, blocks |-> << >>]

\* The genesis block is put back where it was asked for.
getBlocksByIDs(ids) ==
  LET remaining == SelectSeq(ids, LAMBDA id : id # 0)
  IN  IF 0 \notin Range(ids) THEN ids
      ELSE IF remaining = << >> THEN <<0>>
      ELSE InsertAt(remaining, SelectInSeq(ids, LAMBDA id : id = 0), 0)

\* Unless the range starts at the genesis block, the list starts with an empty
\* array, which formatBlock fails on.
getBlocksByHeightBetween(from, to) ==
  IF from = 0 THEN <<0>> \o [i \in 1..to |-> i] ELSE Fails

AskBlocks ==
  /\ blocksAnswer = NoBlocks
  /\ \/ \E ids \in UNION {[1..n -> 0..LastHeight] : n \in 1..3} :
          blocksAnswer' = [asked |-> ids, blocks |-> getBlocksByIDs(ids)]
     \/ \E from, to \in 0..LastHeight :
          /\ from <= to
          /\ blocksAnswer' = [asked |-> [i \in 1..to - from + 1 |-> from + i - 1],
                              blocks |-> getBlocksByHeightBetween(from, to)]
  /\ UNCHANGED <<nodeEpoch, callVars, initAt, prepared, eventVars, peerVars, nodeFailures>>
-----------------------------------------------------------------------------
(* peerCache.js.  The two lists are asked for one after the other, so a     *)
(* peer may be on both; what follows the locations runs without a pause.    *)

With(peers, state) == {<<p, state>> : p \in peers}
ConnectedPeers == {p \in Peer : connection[p]}

PeerMoves(p) ==
  /\ connection' = [connection EXCEPT ![p] = ~@]
  /\ UNCHANGED <<nodeEpoch, callVars, initAt, prepared, eventVars, blocksAnswer, peerStore,
                 reloads, nodeFailures>>

\* getNetworkPeers
AskConnected(r) ==
  /\ reloads[r].at = "idle"
  /\ reloads' = [reloads EXCEPT ![r] = [at |-> "connected",
                                        peers |-> With(ConnectedPeers, "connected")]]
AskDisconnected(r) ==
  /\ reloads[r].at = "connected"
  /\ reloads' = [reloads EXCEPT ![r] =
       [at |-> "locations", peers |-> @.peers \cup With(Peer \ ConnectedPeers, "disconnected")]]
ReloadFails(r) ==
  /\ reloads[r].at = "connected"
  /\ reloads' = [reloads EXCEPT ![r] = [at |-> "idle", peers |-> {}]]
AskPeers(r) ==
  /\ AskConnected(r) \/ AskDisconnected(r) \/ ReloadFails(r)
  /\ UNCHANGED <<nodeEpoch, callVars, initAt, prepared, eventVars, blocksAnswer, connection,
                 peerStore, nodeFailures>>

refreshStatistics(store) ==
  [totalPeers |-> Cardinality(store.peers), connectedPeers |-> Cardinality(store.connected),
   disconnectedPeers |-> Cardinality(store.disconnected)]

NewPeers(peers) ==
  [peerStore EXCEPT !.peers = peers, !.connected = {p \in peers : p[2] = "connected"},
                    !.disconnected = {p \in peers : p[2] = "disconnected"}]

reload(peers) ==
  [NewPeers(peers) EXCEPT !.statistics = refreshStatistics(NewPeers(peers))]

StorePeers(r) ==
  /\ reloads[r].at = "locations"
  /\ peerStore' = reload(reloads[r].peers)
  /\ reloads' = [reloads EXCEPT ![r] = [at |-> "idle", peers |-> {}]]
  /\ UNCHANGED <<nodeEpoch, callVars, initAt, prepared, eventVars, blocksAnswer, connection,
                 nodeFailures>>
-----------------------------------------------------------------------------
NodeInit ==
  /\ nodeEpoch = 1
  /\ caches = [c \in Cache |-> Undefined]
  /\ nodeCalls = [c \in NodeCall |-> NoCall]
  /\ changes = [c \in NodeCall |-> 0]
  /\ initAt = 1
  /\ prepared = {}
  /\ eventsAt = [e \in 1..MaxEpoch |-> "none"]
  /\ dispatched = {}
  /\ refreshed = [r \in Refreshed |-> 0]
  /\ blocksAnswer = NoBlocks
  /\ connection = [p \in Peer |-> FALSE]
  /\ peerStore = [peers |-> {}, connected |-> {}, disconnected |-> {},
                  statistics |-> [totalPeers |-> 0, connectedPeers |-> 0,
                                  disconnectedPeers |-> 0]]
  /\ reloads = [r \in Reload |-> [at |-> "idle", peers |-> {}]]
  /\ callsMade = 0
  /\ nodeFailures = 0

\* The endpoints that may be called are a parameter.
CallsNext(endpoints) ==
  \/ \E c \in NodeCall : RetryCall(c) \/ AnswerCall(c) \/ \E e \in endpoints : StartCall(c, e)
  \/ InitStep

EventsNext ==
  \/ NodeMoves
  \/ \E event \in 1..MaxEpoch : RefreshOnEvent(event)

PeersNext ==
  \/ \E p \in Peer : PeerMoves(p)
  \/ \E r \in Reload : AskPeers(r) \/ StorePeers(r)
-----------------------------------------------------------------------------
(* Properties                                                               *)

\* The variables whose answers are checked for an error (the fees, the reward
\* token, and those taken from another answer) never hold one, whatever else
\* fails, is refreshed or is asked for meanwhile.
CheckedCachesSound == \A c \in CheckedCache : caches[c].kind \in {"value", "undefined"}

\* A call that refreshes returns nothing older than itself, though other calls
\* and chain events store older answers meanwhile; nor does one that is not
\* cached.
RefreshedAnswersFresh ==
  \A c \in NodeCall :
    LET call == nodeCalls[c]
    IN  call.result.kind = "value" /\ call.result.epoch > 0
          /\ (call.endpoint = getNodeInfo \/ call.endpoint.caches = << >>)
        => call.result.epoch >= call.asked

\* When a chain event is passed on, answers of its time or later have been
\* stored in both refreshed caches, in whatever order the events are handled.
EventsFollowRefresh ==
  \A event \in dispatched : \A r \in Refreshed : refreshed[r] >= event

\* Blocks asked for by distinct ids, or by a range that starts at the genesis
\* block, come in the order they are asked for; other ranges fail.
BlocksAsAsked ==
  \/ blocksAnswer.blocks = Fails
  \/ blocksAnswer.blocks = blocksAnswer.asked
  \/ ~IsInjective(blocksAnswer.asked)

\* The peer lists and statistics always belong together, also when runs of the
\* job overlap.
PeerCacheConsistent ==
  LET s == peerStore
  IN  /\ s.connected \cup s.disconnected = s.peers
      /\ s.statistics.connectedPeers = Cardinality(s.connected)
      /\ s.statistics.totalPeers = s.statistics.connectedPeers + s.statistics.disconnectedPeers

\* What the connector passes on from the node, next to whatever other calls do:
\* refreshed answers are fresh, and chain events come after the answers of their
\* time (endpoints_1.js, events.js).
NodeAnswersFaithful == RefreshedAnswersFresh /\ EventsFollowRefresh

\* A request is repeated only after a TimeoutException, never after the error that
\* only says so, and at most NUM_REQUEST_RETRIES times; the node acts on a call at
\* most once for each request, and so at most once if no TimeoutException was
\* thrown; and the loop does not end without an answer or an error (client.js,
\* invokeEndpoint).
TimeoutsSafe ==
  \A c \in NodeCall :
    LET call == nodeCalls[c]
    IN  /\ call.sent <= NUM_REQUEST_RETRIES + 1
        /\ changes[c] <= call.sent
        /\ changes[c] > 1 => "TimeoutException" \in call.thrown
        /\ "timeout" \in call.thrown => call.result # Waiting
        /\ call.endpoint.caches = << >> => call.result # Undefined
=============================================================================
