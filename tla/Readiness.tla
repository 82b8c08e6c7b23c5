----------------------------- MODULE Readiness -----------------------------
(***************************************************************************)
(* How the platform gets to say that it is ready: the indexer compares its *)
(* index with the chain after each new block (blockchain-indexer/shared/   *)
(* indexer/indexStatus.js), answers status calls (status.js), and the      *)
(* gateway polls its services (gateway/shared/ready.js).                   *)
(*                                                                         *)
(* Every check reads the chain's height and then counts the rows of the    *)
(* index, while the chain and the index move; checks overlap.              *)
(***************************************************************************)
EXTENDS Integers, FiniteSets, SequencesExt

CONSTANTS
  Check,               \* bound: overlapping checks
  Endpoint,            \* data service endpoints that a status call tries
  Service, brokerDependencies,
  Branch,              \* what tells blocks of the same height apart
  MaxChainHeight,      \* bound: the chain's height; its first block is at 1
  MaxReadinessFaults   \* bound: failed requests, and restarts of the indexer

\* The gateway polls the indexer and always depends on it (config.js adds it to
\* whatever GATEWAY_DEPENDENCIES names, polled or not); the index is a task of
\* the indexer's status besides the endpoints.
ASSUME ReadinessAssumption ==
  /\ "indexer" \in Service \cap brokerDependencies
  /\ "index" \notin Endpoint
  /\ Branch # {}
  /\ MaxChainHeight \in Nat \ {0}
  /\ MaxReadinessFaults \in Nat

VARIABLES
  nodeChain, nextBranch,     \* the branches of the chain's blocks, and of those to come
  indexedRows,               \* the blocks that have a row
  newBlockSignals,           \* blocks that the events queue has not signalled
  checks,                    \* what each check is doing
  isIndexReady,
  serviceTasks, isReady,     \* the indexer's status
  othersReady,               \* other services that are ready
  calls,                     \* the gateway's status call of each service
  currentSvcStatus,
  wasIndexed,                \* history: some comparison of index and chain came out well
  readinessFaults

readinessVars == <<nodeChain, nextBranch, indexedRows, newBlockSignals, checks, isIndexReady,
                   serviceTasks, isReady, othersReady, calls, currentSvcStatus, wasIndexed,
                   readinessFaults>>
nodeVars == <<nodeChain, nextBranch>>
platformVars == <<nodeVars, indexedRows, newBlockSignals, othersReady>>
gatewayStatusVars == <<calls, currentSvcStatus>>
statusVars == <<serviceTasks, isReady>>
checkVars == <<checks, isIndexReady, wasIndexed>>

NoCheck == [at |-> "idle", chain |-> << >>]
Fault == readinessFaults < MaxReadinessFaults /\ readinessFaults' = readinessFaults + 1
-----------------------------------------------------------------------------
(* The chain and the index *)

BlocksOf(chainOf) == {<<h, chainOf[h]>> : h \in DOMAIN chainOf}

ChainGrows ==
  /\ Len(nodeChain) < MaxChainHeight
  /\ newBlockSignals = 0
  /\ nodeChain' = Append(nodeChain, nextBranch)
  /\ newBlockSignals' = 1
  /\ UNCHANGED <<nextBranch, indexedRows, checkVars, othersReady, statusVars,
                 gatewayStatusVars, readinessFaults>>

\* A chain at the bound goes on by replacing its last block.
ChainForks ==
  /\ Len(nodeChain) = MaxChainHeight
  /\ newBlockSignals = 0
  /\ nodeChain' = Front(nodeChain)
  /\ nextBranch' \in Branch \ {Last(nodeChain)}
  /\ UNCHANGED <<indexedRows, newBlockSignals, checkVars, othersReady, statusVars,
                 gatewayStatusVars, readinessFaults>>

\* Blocks get their rows, and blocks that the chain dropped lose them, later.
RowChanges(b) ==
  /\ indexedRows' = IF b \in BlocksOf(nodeChain) THEN indexedRows \cup {b} ELSE indexedRows \ {b}
  /\ indexedRows' # indexedRows
  /\ UNCHANGED <<nodeVars, newBlockSignals, checkVars, othersReady, statusVars,
                 gatewayStatusVars, readinessFaults>>

OtherBecomesReady ==
  /\ \E s \in Service \ ({"indexer"} \cup othersReady) : othersReady' = othersReady \cup {s}
  /\ UNCHANGED <<nodeVars, indexedRows, newBlockSignals, checkVars, statusVars,
                 gatewayStatusVars, readinessFaults>>
-----------------------------------------------------------------------------
(* The indexer *)

\* The newBlock signal: a check starts unless the index is known to be ready.
checkIndexReadiness(c) ==
  /\ newBlockSignals > 0
  /\ checks[c] = NoCheck
  /\ newBlockSignals' = newBlockSignals - 1
  /\ checks' = IF isIndexReady
               THEN checks
               ELSE [checks EXCEPT ![c] = [at |-> "height", chain |-> << >>]]
  /\ UNCHANGED <<nodeVars, indexedRows, isIndexReady, wasIndexed, othersReady,
                 statusVars, gatewayStatusVars, readinessFaults>>

\* Of the chain, the check keeps the length.
getCurrentHeight(c) ==
  /\ checks[c].at = "height"
  /\ checks' = [checks EXCEPT ![c] = [at |-> "count", chain |-> nodeChain]]
  /\ UNCHANGED <<isIndexReady, wasIndexed, platformVars, statusVars, gatewayStatusVars,
                 readinessFaults>>

\* Mutant: the last block has to be there too.
validateIndexReadinessStrictly(numBlocksIndexed, chainLength) == numBlocksIndexed >= chainLength

\* All but the last block, which is being indexed at the moment.
validateIndexReadiness(numBlocksIndexed, chainLength) == numBlocksIndexed >= chainLength - 1

\* The chain's blocks that have no row, and the rows of no block of the chain:
\* of blocks that were dropped, or that came since the chain's height was read.
Unindexed(chainOf) == BlocksOf(chainOf) \ indexedRows
OtherRows(chainOf) == indexedRows \ BlocksOf(chainOf)

\* The signal blockIndexReady is dispatched by each check that gets here.
setIndexReadyStatus(c) ==
  LET seen == checks[c].chain
  IN  /\ checks[c].at = "count"
      /\ isIndexReady' = (isIndexReady
                          \/ validateIndexReadiness(Cardinality(indexedRows), Len(seen)))
      /\ wasIndexed' = (wasIndexed
                        \/ Cardinality(Unindexed(seen)) <= 1 + Cardinality(OtherRows(seen)))
      /\ checks' = [checks EXCEPT ![c] = NoCheck]
      /\ UNCHANGED <<platformVars, statusVars, gatewayStatusVars, readinessFaults>>

\* Mutant: a failed count is a count of an empty chain.
getIndexStatsDefaulted(c) ==
  /\ checks[c].at \in {"height", "count"}
  /\ Fault
  /\ isIndexReady' = TRUE
  /\ checks' = [checks EXCEPT ![c] = NoCheck]
  /\ UNCHANGED <<wasIndexed, platformVars, statusVars, gatewayStatusVars>>

\* Without numbers to compare, the index is not found ready.
getIndexStatsFails(c) ==
  /\ checks[c].at \in {"height", "count"}
  /\ Fault
  /\ checks' = [checks EXCEPT ![c] = NoCheck]
  /\ UNCHANGED <<isIndexReady, wasIndexed, platformVars, statusVars, gatewayStatusVars>>

\* getStatus: the flag of the index is read first, then the endpoints are tried
\* one by one.  A ready indexer answers at once.
getStatus ==
  /\ calls["indexer"] = "called"
  /\ IF isReady
     THEN calls' = [calls EXCEPT !["indexer"] = "true"] /\ UNCHANGED serviceTasks
     ELSE /\ serviceTasks' = IF isIndexReady THEN serviceTasks \cup {"index"}
                                             ELSE serviceTasks \ {"index"}
          /\ calls' = [calls EXCEPT !["indexer"] = "trying"]
  /\ UNCHANGED <<isReady, checkVars, platformVars, currentSvcStatus, readinessFaults>>

\* Generators, the network's status and schemas come from the node; events and
\* transactions come from the index.
answering == {e \in Endpoint : e \in {"events", "transactions"} => indexedRows # {}}

isIndexerServiceReady(done) == done = Endpoint \cup {"index"}

tryEndpoints ==
  /\ calls["indexer"] = "trying"
  /\ \/ /\ serviceTasks' = serviceTasks \cup answering
        /\ isReady' = (isReady \/ isIndexerServiceReady(serviceTasks'))
        /\ calls' = [calls EXCEPT !["indexer"] = IF isReady' THEN "true" ELSE "false"]
        /\ UNCHANGED readinessFaults
     \/ /\ Fault
        /\ calls' = [calls EXCEPT !["indexer"] = "false"]
        /\ UNCHANGED statusVars
  /\ UNCHANGED <<checkVars, platformVars, currentSvcStatus>>

IndexerRestarts ==
  /\ Fault
  /\ checks' = [c \in Check |-> NoCheck]
  /\ isIndexReady' = FALSE
  /\ serviceTasks' = {}
  /\ isReady' = FALSE
  /\ calls' = [calls EXCEPT !["indexer"] = IF @ = "idle" THEN "idle" ELSE "false"]
  /\ UNCHANGED <<nodeVars, indexedRows, newBlockSignals, othersReady, wasIndexed,
                 currentSvcStatus>>
-----------------------------------------------------------------------------
(* The gateway *)

updateSvcStatus ==
  /\ \A s \in Service : calls[s] = "idle"
  /\ calls' = [s \in Service |-> "called"]
  /\ UNCHANGED <<checkVars, platformVars, statusVars, currentSvcStatus, readinessFaults>>

\* A call that fails counts as not ready.
statusOther(s) ==
  /\ s # "indexer"
  /\ calls[s] = "called"
  /\ \/ /\ currentSvcStatus' = [currentSvcStatus EXCEPT ![s] = s \in othersReady]
        /\ UNCHANGED readinessFaults
     \/ Fault /\ currentSvcStatus' = [currentSvcStatus EXCEPT ![s] = FALSE]
  /\ calls' = [calls EXCEPT ![s] = "idle"]
  /\ UNCHANGED <<checkVars, platformVars, statusVars>>

statusIndexer ==
  /\ calls["indexer"] \in {"true", "false"}
  /\ currentSvcStatus' = [currentSvcStatus EXCEPT !["indexer"] = calls["indexer"] = "true"]
  /\ calls' = [calls EXCEPT !["indexer"] = "idle"]
  /\ UNCHANGED <<checkVars, platformVars, statusVars, readinessFaults>>

\* Whether the ready endpoint answers, rather than fail.
getReady == \A s \in Service : currentSvcStatus[s] \/ s \notin brokerDependencies

ReadinessInit ==
  /\ nextBranch = CHOOSE b \in Branch : TRUE
  /\ nodeChain = <<nextBranch>>
  /\ indexedRows = {}
  /\ newBlockSignals = 0
  /\ checks = [c \in Check |-> NoCheck]
  /\ isIndexReady = FALSE
  /\ serviceTasks = {}
  /\ isReady = FALSE
  /\ othersReady = {}
  /\ calls = [s \in Service |-> "idle"]
  /\ currentSvcStatus = [s \in Service |-> FALSE]
  /\ wasIndexed = FALSE
  /\ readinessFaults = 0

ChainStep ==
  \/ ChainGrows \/ ChainForks \/ OtherBecomesReady
  \/ \E b \in (1..MaxChainHeight) \X Branch : RowChanges(b)
CheckStep(c) == checkIndexReadiness(c) \/ getCurrentHeight(c) \/ setIndexReadyStatus(c)
StatusStep ==
  \/ updateSvcStatus \/ getStatus \/ tryEndpoints \/ statusIndexer
  \/ \E s \in Service : statusOther(s)

ReadinessNext ==
  \/ ChainStep
  \/ \E c \in Check : CheckStep(c) \/ getIndexStatsFails(c)
  \/ StatusStep
  \/ IndexerRestarts
-----------------------------------------------------------------------------
(* Properties *)

\* When the gateway answers that the platform is ready, the index has been compared
\* with the chain and lacked at most one of its blocks, and at most one more for
\* each row that it held of another block (the rows are counted, whatever block
\* they are of), and every service that the gateway depends on and polls has said
\* that it is ready (indexStatus.js, status.js and gateway/shared/ready.js together).
ReadyIsBacked ==
  getReady =>
    /\ wasIndexed
    /\ (Service \cap brokerDependencies) \ {"indexer"} \subseteq othersReady

\* As blocks keep coming, and the index keeps up with all but the last, the
\* gateway comes to answer that the platform is ready and goes on doing so,
\* after failed requests and a restart of the indexer too.
BecomesReady == <>[]getReady
=============================================================================
