---------------------------- MODULE BlockIndexer ----------------------------
(***************************************************************************)
(* The block index of the blockchain-indexer service                       *)
(* (services/blockchain-indexer/shared/indexer/blockchainIndex.js,         *)
(* shared/eventsProcessor.js, shared/processor.js), driven by the node's   *)
(* block events and by the coordinator's re-indexing requests.             *)
(*                                                                         *)
(* The node is external: it extends its chain, drops its tip, and raises   *)
(* its finalized height.  Every chain event reaches the "Events" queue     *)
(* (its loss is the subject of module IndexCoordinator).  The indexer's    *)
(* six Queue(...) registrations share one bull queue, 'defaultQueue'       *)
(* (framework/src/queue.js), so jobs of every kind are run by several      *)
(* worker loops at once and a failed job goes to the back of the queue.    *)
(*                                                                         *)
(* A block is a model value; its contents are the constant functions       *)
(* below.  The events of a block are identified with the block itself.     *)
(***************************************************************************)
EXTENDS Integers, Sequences, FiniteSets

CONSTANTS
  Block,          \* every block the node may ever adopt
  NoBlock,        \* "no block", "no row", "no cache entry"
  Genesis,        \* the genesis block
  height,         \* [Block -> Nat]: header.height
  parent,         \* [Block -> Block]: header.previousBlockID
  txs,            \* [Block -> SUBSET Tx]: block.transactions
  generator,      \* [Block -> Generator]: header.generatorAddress
  locked,         \* [Block -> Int]: sum of LOCK minus UNLOCK event amounts
  Tx, Generator,
  Worker,         \* the worker loops of the default queue
  MaxAttempts,    \* defaultJobOptions.attempts
  MaxFaults,      \* bound: transient RPC, Redis or MySQL errors in a behaviour
  MaxCrashes,     \* bound: restarts of the indexer in a behaviour
  MaxScheduled,   \* bound: heights the coordinator asks to index
  CacheMax        \* capacity of the events cache (1000 in cacheLru.js)

ASSUME BlockAssumption ==
  /\ NoBlock \notin Block
  /\ Genesis \in Block
  /\ height \in [Block -> Nat \ {0}]
  /\ parent \in [Block -> Block]
  /\ txs \in [Block -> SUBSET Tx]
  /\ generator \in [Block -> Generator]
  /\ locked \in [Block -> Int]
  /\ \A b \in Block \ {Genesis} : height[b] = height[parent[b]] + 1

ASSUME BoundAssumption ==
  /\ MaxAttempts \in Nat \ {0}
  /\ CacheMax \in Nat \ {0}
  /\ MaxFaults \in Nat
  /\ MaxCrashes \in Nat
  /\ MaxScheduled \in Nat
  /\ IsFiniteSet(Worker)

VARIABLES
  chain,           \* node: [Height -> Block or NoBlock], its current chain
  seen,            \* node: the blocks that have ever been on its chain
  finalized,       \* node: its finalized height
  eventsQueue,     \* redis: the bull queue "Events"
  evt,             \* indexer: the Events job being processed
  queue,           \* redis: the waiting list of 'defaultQueue'
  workers,         \* indexer: the job each worker loop is running
  failed,          \* redis: the jobs of 'defaultQueue' out of attempts
  finalizedHeight, \* indexer: the cached finalized height (-1: undefined)
  eventCache,      \* indexer: the LRU cache of events, by height
  rowBlock,        \* MySQL: table blocks, primary key height: the row's block
  rowFinal,        \* MySQL: table blocks: the row's isFinal
  txRows,          \* MySQL: table transactions: the row's blockID
  eventRows,       \* MySQL: table events: the blocks whose events are stored
  generatedBlocks, \* MySQL: table validators: generatedBlocks
  totalLocked,     \* MySQL: table key_value_store: totalLocked_<tokenID>
  faults, crashes, scheduled

nodeVars == <<chain, seen, finalized>>
redisVars == <<eventsQueue, queue, failed>>
tables == <<rowBlock, rowFinal, txRows, eventRows, generatedBlocks, totalLocked>>
bounds == <<faults, crashes, scheduled>>
vars == <<chain, seen, finalized, eventsQueue, evt, queue, workers, failed,
          finalizedHeight, eventCache, rowBlock, rowFinal, txRows, eventRows,
          generatedBlocks, totalLocked, faults, crashes, scheduled>>

Height == {height[b] : b \in Block}
Maybe == Block \cup {NoBlock}

(***************************************************************************)
(* Jobs of the default queue.  An "index" job carries one block and the    *)
(* isFinal it had when it was fetched; an "update" job carries the rows to *)
(* be marked final; a "delete" job carries block headers, a "deleteById"   *)
(* job rows read with the single column id.  attempts counts the failed    *)
(* attempts so far.                                                        *)
(***************************************************************************)
Job == [kind : {"index", "update", "delete", "deleteById"},
        blocks : SUBSET Block, isFinal : BOOLEAN,
        attempts : 0..(MaxAttempts - 1)]

NewJob(kind, blocks, isFinal) ==
  [kind |-> kind, blocks |-> blocks, isFinal |-> isFinal, attempts |-> 0]

NoJob == [kind |-> "none"]
Idle == [pc |-> "idle", job |-> NoJob, events |-> NoBlock, kv |-> 0,
         expired |-> FALSE]
Running == [pc : {"totals", "commit"}, job : Job, events : Block, kv : Int,
            expired : BOOLEAN]

\* Jobs of the Events queue, and the one in progress.
EventJob == [type : {"newBlock", "deleteBlock"}, block : Block,
             attempts : 0..(MaxAttempts - 1)]
NoEvent == [pc |-> "idle", job |-> NoJob, block |-> NoBlock, isFinal |-> FALSE,
            info |-> NoBlock]
Processing == [pc : {"lookup", "finality", "fork"}, job : EventJob,
               block : Block, isFinal : BOOLEAN, info : Maybe]

TypeOK ==
  /\ chain \in [Height -> Maybe]
  /\ seen \subseteq Block
  /\ finalized \in Nat
  /\ eventsQueue \in Seq(EventJob)
  /\ evt \in Processing \cup {NoEvent}
  /\ queue \in Seq(Job)
  /\ workers \in [Worker -> Running \cup {Idle}]
  /\ failed \subseteq Job
  /\ finalizedHeight \in Nat \cup {-1}
  /\ eventCache \in [Height -> Maybe]
  /\ rowBlock \in [Height -> Maybe]
  /\ rowFinal \in [Height -> BOOLEAN]
  /\ txRows \in [Tx -> Maybe]
  /\ eventRows \subseteq Block
  /\ generatedBlocks \in [Generator -> Nat]
  /\ totalLocked \in Int
  /\ faults \in 0..MaxFaults
  /\ crashes \in 0..MaxCrashes
  /\ scheduled \in 0..MaxScheduled

Init ==
  /\ chain = [h \in Height |-> IF h = height[Genesis] THEN Genesis ELSE NoBlock]
  /\ seen = {Genesis}
  /\ finalized = height[Genesis]
  /\ eventsQueue = <<>>
  /\ evt = NoEvent
  /\ queue = <<>>
  /\ workers = [w \in Worker |-> Idle]
  /\ failed = {}
  /\ finalizedHeight = -1
  /\ eventCache = [h \in Height |-> NoBlock]
  /\ rowBlock = [h \in Height |-> NoBlock]
  /\ rowFinal = [h \in Height |-> FALSE]
  /\ txRows = [t \in Tx |-> NoBlock]
  /\ eventRows = {}
  /\ generatedBlocks = [g \in Generator |-> 0]
  /\ totalLocked = 0
  /\ faults = 0
  /\ crashes = 0
  /\ scheduled = 0
-----------------------------------------------------------------------------
(***************************************************************************)
(* The node (external).  Each block joins the chain at most once.          *)
(***************************************************************************)
NodeNewBlock(b) ==
  /\ b \notin seen
  /\ chain[height[b]] = NoBlock
  /\ chain[height[b] - 1] = parent[b]
  /\ chain' = [chain EXCEPT ![height[b]] = b]
  /\ seen' = seen \cup {b}
  /\ eventsQueue' = Append(eventsQueue,
                      [type |-> "newBlock", block |-> b, attempts |-> 0])
  /\ UNCHANGED <<finalized, evt, queue, workers, failed, finalizedHeight,
                 eventCache, tables, bounds>>

NodeDeleteBlock(b) ==
  /\ chain[height[b]] = b
  /\ height[b] > finalized
  /\ \A h \in Height : h > height[b] => chain[h] = NoBlock
  /\ chain' = [chain EXCEPT ![height[b]] = NoBlock]
  /\ eventsQueue' = Append(eventsQueue,
                      [type |-> "deleteBlock", block |-> b, attempts |-> 0])
  /\ UNCHANGED <<seen, finalized, evt, queue, workers, failed, finalizedHeight,
                 eventCache, tables, bounds>>

NodeFinalize(h) ==
  /\ h > finalized
  /\ chain[h] # NoBlock
  /\ finalized' = h
  /\ UNCHANGED <<chain, seen, redisVars, evt, workers, finalizedHeight,
                 eventCache, tables, bounds>>
-----------------------------------------------------------------------------
(***************************************************************************)
(* Helpers of the indexer.                                                 *)
(***************************************************************************)
\* getFinalizedHeight: the cached value, loaded from the node when undefined.
GetFinalizedHeight == IF finalizedHeight = -1 THEN finalized ELSE finalizedHeight

\* getEventsByHeight: the block whose events the caller gets, NoBlock when the
\* request to the node fails.  (config.isPersistEvents is never defined, so
\* the events table is not consulted.)
GetEventsByHeight(h) == IF eventCache[h] # NoBlock THEN eventCache[h] ELSE chain[h]

\* The cache after events e were served for height h; beyond its capacity some
\* other height is evicted.
CacheAfter(h, e) ==
  LET full == [eventCache EXCEPT ![h] = e]
  IN  IF Cardinality({k \in Height : full[k] # NoBlock}) <= CacheMax
      THEN {full}
      ELSE {[full EXCEPT ![k] = NoBlock] : k \in Height \ {h}}

\* normalizeBlock: isFinal as known now, and a read of the events of the
\* height unless a row for it exists.
IsFinalNow(h) == h <= GetFinalizedHeight
CacheAfterNormalize(h) ==
  IF rowBlock[h] = NoBlock THEN CacheAfter(h, GetEventsByHeight(h)) ELSE {eventCache}

\* Mutant of Retry: the attempts are not counted.
RetryUncounted(q, job) == Append(q, job)

\* bull: a failed job goes to the back of the waiting list until it has used
\* up its attempts; then it stays in the failed set.
Retry(q, job) ==
  IF job.attempts + 1 < MaxAttempts
  THEN Append(q, [job EXCEPT !.attempts = @ + 1])
  ELSE q
Exhausted(job) ==
  IF job.attempts + 1 < MaxAttempts THEN {} ELSE {job}
-----------------------------------------------------------------------------
(***************************************************************************)
(* The Events queue: newBlockProcessor, indexNewBlock and                  *)
(* deleteBlockProcessor.  One job at a time; each step ends at an await.   *)
(***************************************************************************)
\* getBlocks({ height }): the node's block at that height NOW; the job fails
\* when there is none.
FetchNewBlock ==
  /\ evt = NoEvent
  /\ eventsQueue # <<>>
  /\ Head(eventsQueue).type = "newBlock"
  /\ LET job == Head(eventsQueue)
         h == height[job.block]
     IN  \/ /\ chain[h] # NoBlock
            /\ evt' = [pc |-> "lookup", job |-> job, block |-> chain[h],
                       isFinal |-> IsFinalNow(h), info |-> NoBlock]
            /\ eventsQueue' = Tail(eventsQueue)
            /\ finalizedHeight' = GetFinalizedHeight
            /\ eventCache' \in CacheAfterNormalize(h)
         \/ /\ chain[h] = NoBlock
            /\ eventsQueue' = Retry(Tail(eventsQueue), job)
            /\ UNCHANGED <<evt, finalizedHeight, eventCache>>
  /\ UNCHANGED <<nodeVars, queue, workers, failed, tables, bounds>>

\* indexNewBlock: schedule the block unless its height has a final row.
LookupBlock ==
  /\ evt.pc = "lookup"
  /\ LET h == height[evt.block]
     IN  IF rowBlock[h] # NoBlock /\ rowFinal[h]
         THEN /\ evt' = NoEvent
              /\ UNCHANGED queue
         ELSE /\ evt' = [evt EXCEPT !.pc = "finality", !.info = rowBlock[h]]
              /\ queue' = Append(queue, NewJob("index", {evt.block}, evt.isFinal))
  /\ UNCHANGED <<nodeVars, eventsQueue, workers, failed, finalizedHeight,
                 eventCache, tables, bounds>>

\* The non-final rows at or below the finalized height.
NewlyFinalRows ==
  {rowBlock[h] : h \in {k \in Height : /\ rowBlock[k] # NoBlock
                                       /\ ~rowFinal[k]
                                       /\ k <= GetFinalizedHeight}}

\* indexNewBlock: schedule the rows that became final, then look for a fork.
UpdateFinality ==
  /\ evt.pc = "finality"
  /\ queue' = Append(queue, NewJob("update", NewlyFinalRows, TRUE))
  /\ finalizedHeight' = GetFinalizedHeight
  /\ evt' = IF evt.info # NoBlock /\ evt.info # evt.block
            THEN [evt EXCEPT !.pc = "fork"]
            ELSE NoEvent
  /\ UNCHANGED <<nodeVars, eventsQueue, workers, failed, eventCache, tables, bounds>>

\* indexNewBlock, "Fork detected": schedule the removal of the rows above.
RemoveFork ==
  /\ evt.pc = "fork"
  /\ LET above == {h \in Height : h > height[evt.block] /\ rowBlock[h] # NoBlock}
     IN  queue' = Append(queue,
                    NewJob("deleteById", {rowBlock[h] : h \in above}, FALSE))
  /\ evt' = NoEvent
  /\ UNCHANGED <<nodeVars, eventsQueue, workers, failed, finalizedHeight,
                 eventCache, tables, bounds>>

\* deleteBlockProcessor: schedule the removal.  (getBlocks finds no block for
\* the deleted ID, which is no error.)
ProcessDeleteBlock ==
  /\ evt = NoEvent
  /\ eventsQueue # <<>>
  /\ Head(eventsQueue).type = "deleteBlock"
  /\ eventsQueue' = Tail(eventsQueue)
  /\ queue' = Append(queue, NewJob("delete", {Head(eventsQueue).block}, FALSE))
  /\ UNCHANGED <<nodeVars, evt, workers, failed, finalizedHeight, eventCache,
                 tables, bounds>>

\* deleteBlockProcessor, the catch: the removal is not scheduled.  The header
\* is normalized for the signal, which reads the events of the height; when
\* that fails too, or there are none, the job is attempted again.
FailDeleteBlock ==
  /\ evt = NoEvent
  /\ eventsQueue # <<>>
  /\ Head(eventsQueue).type = "deleteBlock"
  /\ faults < MaxFaults
  /\ faults' = faults + 1
  /\ LET job == Head(eventsQueue)
         h == height[job.block]
     IN  \/ /\ rowBlock[h] # NoBlock \/ GetEventsByHeight(h) # NoBlock
            /\ eventsQueue' = Tail(eventsQueue)
            /\ finalizedHeight' = GetFinalizedHeight
            /\ eventCache' \in CacheAfterNormalize(h)
         \/ /\ eventsQueue' = Retry(Tail(eventsQueue), job)
            /\ UNCHANGED <<finalizedHeight, eventCache>>
  /\ UNCHANGED <<nodeVars, evt, queue, workers, failed, tables, crashes, scheduled>>

\* An RPC, Redis or MySQL error while a newBlock job is in progress: the whole
\* job is attempted again, what it has scheduled stays scheduled.
FailEvent ==
  /\ evt # NoEvent
  /\ faults < MaxFaults
  /\ faults' = faults + 1
  /\ eventsQueue' = Retry(eventsQueue, evt.job)
  /\ evt' = NoEvent
  /\ UNCHANGED <<nodeVars, queue, workers, failed, finalizedHeight, eventCache,
                 tables, crashes, scheduled>>

\* The chainNewBlock signal: updateFinalizedHeight.
UpdateFinalizedHeight ==
  /\ finalizedHeight # finalized
  /\ finalizedHeight' = finalized
  /\ UNCHANGED <<nodeVars, redisVars, evt, workers, eventCache, tables, bounds>>

\* The Blocks queue: addBlockToQueue for a height reported missing.
AddBlockToQueue(h) ==
  /\ scheduled < MaxScheduled
  /\ chain[h] # NoBlock
  /\ scheduled' = scheduled + 1
  /\ queue' = Append(queue, NewJob("index", {chain[h]}, IsFinalNow(h)))
  /\ finalizedHeight' = GetFinalizedHeight
  /\ eventCache' \in CacheAfterNormalize(h)
  /\ UNCHANGED <<nodeVars, eventsQueue, evt, workers, failed, tables, faults, crashes>>
-----------------------------------------------------------------------------
(***************************************************************************)
(* The default queue: indexBlock, updateBlockIndex, deleteIndexedBlocks.   *)
(***************************************************************************)
\* Worker w takes the oldest waiting job.
Takes(w, kind) ==
  /\ workers[w] = Idle
  /\ queue # <<>>
  /\ Head(queue).kind = kind

\* Every transaction of b has its execution result among the events of e.
ExecutionStatusKnown(b, e) == txs[b] \subseteq txs[e]

\* indexBlock, up to the events of the height and the transactions' status.
StartIndexBlock(w) ==
  /\ Takes(w, "index")
  /\ \E b \in Head(queue).blocks :
       LET job == Head(queue)
           h == height[b]
           e == GetEventsByHeight(h)
           ok == e # NoBlock /\ ExecutionStatusKnown(b, e)
       IN  /\ eventCache' \in IF e = NoBlock THEN {eventCache} ELSE CacheAfter(h, e)
           /\ \/ /\ ok
                 /\ workers' = [workers EXCEPT ![w] =
                      [pc |-> "totals", job |-> job, events |-> e, kv |-> 0,
                       expired |-> FALSE]]
                 /\ queue' = Tail(queue)
                 /\ UNCHANGED failed
              \/ /\ ~ok
                 /\ queue' = Retry(Tail(queue), job)
                 /\ failed' = failed \cup Exhausted(job)
                 /\ UNCHANGED workers
  /\ UNCHANGED <<nodeVars, eventsQueue, evt, finalizedHeight, tables, bounds>>

\* Mutant of ReadTotalLocked: the block's row is upserted outside the database
\* transaction, before the rest is committed.
UpsertBlockEarly(w) ==
  /\ workers[w].pc = "totals"
  /\ \E b \in workers[w].job.blocks : rowBlock' = [rowBlock EXCEPT ![height[b]] = b]
  /\ workers' = [workers EXCEPT ![w].pc = "commit", ![w].kv = totalLocked]
  /\ UNCHANGED <<nodeVars, redisVars, evt, finalizedHeight, eventCache, rowFinal,
                 txRows, eventRows, generatedBlocks, totalLocked, bounds>>

\* updateTotalLockedAmounts: the current total, read outside the transaction.
ReadTotalLocked(w) ==
  /\ workers[w].pc = "totals"
  /\ workers' = [workers EXCEPT ![w].pc = "commit", ![w].kv = totalLocked]
  /\ UNCHANGED <<nodeVars, redisVars, evt, finalizedHeight, eventCache, tables, bounds>>

\* Mutant of CommitIndexBlock: the generator's block is counted only when the
\* height had no row.
CommitCountsNewHeights(w) ==
  /\ workers[w].pc = "commit"
  /\ \E b \in workers[w].job.blocks :
       /\ rowBlock' = [rowBlock EXCEPT ![height[b]] = b]
       /\ generatedBlocks' = IF rowBlock[height[b]] # NoBlock THEN generatedBlocks
                             ELSE [generatedBlocks EXCEPT ![generator[b]] = @ + 1]
       /\ txRows' = [t \in Tx |-> IF t \in txs[b] THEN b ELSE txRows[t]]
  /\ workers' = [workers EXCEPT ![w] = Idle]
  /\ UNCHANGED <<nodeVars, redisVars, evt, finalizedHeight, eventCache, rowFinal,
                 eventRows, totalLocked, bounds>>

\* The rows that the database transaction of indexBlock leaves behind.
CommitIndexBlock(w) ==
  /\ workers[w].pc = "commit"
  /\ \E b \in workers[w].job.blocks :
       LET e == workers[w].events
       IN  /\ rowBlock' = [rowBlock EXCEPT ![height[b]] = b]
           /\ rowFinal' = [rowFinal EXCEPT ![height[b]] = workers[w].job.isFinal]
           /\ txRows' = [t \in Tx |-> IF t \in txs[b] THEN b ELSE txRows[t]]
           /\ eventRows' = eventRows \cup {e}
           /\ generatedBlocks' = [generatedBlocks EXCEPT ![generator[b]] = @ + 1]
           /\ totalLocked' = IF locked[e] = 0 THEN totalLocked
                             ELSE workers[w].kv + locked[e]
  /\ workers' = [workers EXCEPT ![w] = Idle]
  /\ UNCHANGED <<nodeVars, redisVars, evt, finalizedHeight, eventCache, bounds>>

\* A deadlock or another database error: rollback, and the job is retried,
\* unless its timeout has already had it retried.
RollbackIndexBlock(w) ==
  /\ workers[w] # Idle
  /\ faults < MaxFaults
  /\ faults' = faults + 1
  /\ IF workers[w].expired
     THEN UNCHANGED <<queue, failed>>
     ELSE /\ queue' = Retry(queue, workers[w].job)
          /\ failed' = failed \cup Exhausted(workers[w].job)
  /\ workers' = [workers EXCEPT ![w] = Idle]
  /\ UNCHANGED <<nodeVars, eventsQueue, evt, finalizedHeight, eventCache, tables,
                 crashes, scheduled>>

\* The job's timeout: bull fails the job, which is retried, but nothing stops
\* the execution that is still in progress.
TimeoutIndexBlock(w) ==
  /\ workers[w] # Idle
  /\ ~workers[w].expired
  /\ faults < MaxFaults
  /\ faults' = faults + 1
  /\ queue' = Retry(queue, workers[w].job)
  /\ failed' = failed \cup Exhausted(workers[w].job)
  /\ workers' = [workers EXCEPT ![w].expired = TRUE]
  /\ UNCHANGED <<nodeVars, eventsQueue, evt, finalizedHeight, eventCache, tables,
                 crashes, scheduled>>

\* Mutant of UpdateBlockIndex: the rows of the job are the only final ones.
UpdateBlockIndexResets(w) ==
  /\ Takes(w, "update")
  /\ LET at == {height[b] : b \in Head(queue).blocks}
     IN  rowFinal' = [h \in Height |-> rowBlock[h] # NoBlock /\ h \in at]
  /\ queue' = Tail(queue)
  /\ UNCHANGED <<nodeVars, eventsQueue, evt, workers, failed, finalizedHeight,
                 eventCache, rowBlock, txRows, eventRows, generatedBlocks, totalLocked, bounds>>

\* updateBlockIndex: upsert the rows of the job as they were when it was
\* scheduled, now with isFinal set; the primary key is the height.
UpdateBlockIndex(w) ==
  /\ Takes(w, "update")
  /\ LET blocks == Head(queue).blocks
         at == {height[b] : b \in blocks}
     IN  /\ rowBlock' = [h \in Height |->
              IF h \in at THEN CHOOSE b \in blocks : height[b] = h ELSE rowBlock[h]]
         /\ rowFinal' = [h \in Height |-> h \in at \/ rowFinal[h]]
  /\ queue' = Tail(queue)
  /\ UNCHANGED <<nodeVars, eventsQueue, evt, workers, failed, finalizedHeight,
                 eventCache, txRows, eventRows, generatedBlocks, totalLocked, bounds>>

\* The upsert of updateBlockIndex fails and is retried.
FailUpdate(w) ==
  /\ Takes(w, "update")
  /\ faults < MaxFaults
  /\ faults' = faults + 1
  /\ queue' = Retry(Tail(queue), Head(queue))
  /\ failed' = failed \cup Exhausted(Head(queue))
  /\ UNCHANGED <<nodeVars, eventsQueue, evt, workers, finalizedHeight, eventCache,
                 tables, crashes, scheduled>>

\* deleteIndexedBlocks: the events of a header's height are read; then
\* `block.header.id` is evaluated on a header or on a row, neither of which
\* has a `header`: the job throws and is rolled back, unless it carries no
\* block at all.
DeleteIndexedBlocks(w) ==
  /\ \/ Takes(w, "delete")
     \/ Takes(w, "deleteById")
  /\ LET job == Head(queue)
     IN  /\ IF job.blocks = {}
            THEN /\ queue' = Tail(queue)
                 /\ UNCHANGED failed
            ELSE /\ queue' = Retry(Tail(queue), job)
                 /\ failed' = failed \cup Exhausted(job)
         /\ IF job.kind = "delete"
            THEN \E b \in job.blocks :
                   LET e == GetEventsByHeight(height[b])
                   IN  eventCache' \in IF e = NoBlock THEN {eventCache}
                                       ELSE CacheAfter(height[b], e)
            ELSE UNCHANGED eventCache
  /\ UNCHANGED <<nodeVars, eventsQueue, evt, workers, finalizedHeight, tables, bounds>>

(***************************************************************************)
(* The indexer process dies and restarts: open transactions are rolled     *)
(* back, the caches are lost, and bull puts the stalled jobs back at the   *)
(* front of their waiting lists.                                           *)
(***************************************************************************)
Busy == {w \in Worker : workers[w] # Idle /\ ~workers[w].expired}
StalledJobs ==
  {[i \in 1..Cardinality(Busy) |-> workers[s[i]].job] :
     s \in {p \in [1..Cardinality(Busy) -> Busy] :
              \A i, j \in 1..Cardinality(Busy) : i # j => p[i] # p[j]}}

\* Mutant of Crash: the jobs that were running are lost.
CrashLosingJobs ==
  /\ crashes < MaxCrashes
  /\ crashes' = crashes + 1
  /\ workers' = [w \in Worker |-> Idle]
  /\ evt' = NoEvent
  /\ finalizedHeight' = -1
  /\ eventCache' = [h \in Height |-> NoBlock]
  /\ UNCHANGED <<nodeVars, redisVars, tables, faults, scheduled>>

Crash ==
  /\ crashes < MaxCrashes
  /\ crashes' = crashes + 1
  /\ \E stalled \in StalledJobs : queue' = stalled \o queue
  /\ eventsQueue' = IF evt = NoEvent THEN eventsQueue
                    ELSE <<evt.job>> \o eventsQueue
  /\ workers' = [w \in Worker |-> Idle]
  /\ evt' = NoEvent
  /\ finalizedHeight' = -1
  /\ eventCache' = [h \in Height |-> NoBlock]
  /\ UNCHANGED <<nodeVars, failed, tables, faults, scheduled>>
-----------------------------------------------------------------------------
Node ==
  \/ \E b \in Block : NodeNewBlock(b) \/ NodeDeleteBlock(b)
  \/ \E h \in Height : NodeFinalize(h)

EventProcessor ==
  \/ FetchNewBlock \/ LookupBlock \/ UpdateFinality \/ RemoveFork
  \/ ProcessDeleteBlock

WorkerStep(w) ==
  \/ StartIndexBlock(w) \/ ReadTotalLocked(w) \/ CommitIndexBlock(w)
  \/ UpdateBlockIndex(w) \/ DeleteIndexedBlocks(w)

JobFailure(w) == RollbackIndexBlock(w) \/ TimeoutIndexBlock(w) \/ FailUpdate(w)

Next ==
  \/ Node
  \/ EventProcessor
  \/ \E w \in Worker : WorkerStep(w) \/ JobFailure(w)
  \/ \E h \in Height : AddBlockToQueue(h)
  \/ UpdateFinalizedHeight
  \/ FailEvent \/ FailDeleteBlock
  \/ Crash

Spec == Init /\ [][Next]_vars

\* Bull delivers every waiting job to an idle processor, and the promises the
\* processors await settle: the queues make progress.
Fairness ==
  /\ WF_vars(EventProcessor)
  /\ \A w \in Worker : WF_vars(WorkerStep(w))

FairSpec == Spec /\ Fairness
-----------------------------------------------------------------------------
(***************************************************************************)
(* Safety.                                                                 *)
(***************************************************************************)
\* The blocks table holds, at each height, nothing but a block of that height
\* that the node really had on its chain at some time, whatever mixture of
\* fresh fetches, retried jobs and stale row snapshots wrote it.
RowsOnceOnChain ==
  \A h \in Height : rowBlock[h] # NoBlock =>
    rowBlock[h] \in seen /\ height[rowBlock[h]] = h

\* A row is flagged isFinal only at heights the node has finalized, although
\* the flag is computed from a cached finalized height, travels through the
\* queues and may be written by a retry long afterwards.
FinalRowsAreFinalized ==
  \A h \in Height : rowFinal[h] => rowBlock[h] # NoBlock /\ h <= finalized

\* indexBlock is all or nothing: the transactions of a block that has a row
\* are in the transactions table, also after rollbacks, timeouts and crashes.
RowsHaveTransactions ==
  \A h \in Height : rowBlock[h] # NoBlock =>
    \A t \in txs[rowBlock[h]] : txRows[t] # NoBlock

\* No indexed block is left out of its generator's generatedBlocks.
GeneratedBlocksCoverRows ==
  \A g \in Generator :
    Cardinality({h \in Height : rowBlock[h] # NoBlock /\ generator[rowBlock[h]] = g})
      <= generatedBlocks[g]

(***************************************************************************)
(* The inductive invariant behind the first three: what a job, a queue and *)
(* the event in progress carry was true of the node when it was read, and  *)
(* stays true because the node forgets no block and finality only grows.   *)
(***************************************************************************)
NodeOK ==
  /\ \A h \in Height : chain[h] # NoBlock => chain[h] \in seen /\ height[chain[h]] = h
  /\ finalizedHeight <= finalized

TxsIndexed(b) == \A t \in txs[b] : txRows[t] # NoBlock

JobOK(job) ==
  /\ job.blocks \subseteq seen
  /\ job.kind \in {"index", "update"} /\ job.isFinal
       => \A b \in job.blocks : height[b] <= finalized
  /\ job.kind = "update" => job.isFinal /\ \A b \in job.blocks : TxsIndexed(b)

QueueOK == \A i \in 1..Len(queue) : JobOK(queue[i])

WorkersOK ==
  \A w \in Worker : workers[w] # Idle =>
    workers[w].job.kind = "index" /\ JobOK(workers[w].job)

EventsOK ==
  /\ \A i \in 1..Len(eventsQueue) : eventsQueue[i].block \in seen
  /\ evt # NoEvent => /\ evt.job.block \in seen
                      /\ evt.block \in seen
                      /\ evt.isFinal => height[evt.block] <= finalized

IndexInv ==
  /\ TypeOK
  /\ NodeOK
  /\ QueueOK
  /\ WorkersOK
  /\ EventsOK
  /\ RowsOnceOnChain
  /\ FinalRowsAreFinalized
  /\ RowsHaveTransactions

(***************************************************************************)
(* Refinement.                                                             *)
(***************************************************************************)
Archive == INSTANCE BlockArchive WITH
  known <- seen, final <- finalized, archive <- rowBlock, marked <- rowFinal

\* The blocks table is an archive of the chain: jobs, retries, timeouts, stale
\* snapshots and restarts only ever record a block of the chain at its height,
\* or mark heights that are final, and a mark is lost only where its height is
\* recorded again (indexBlock and updateBlockIndex).
IsArchive == Archive!ArchiveSpec

(***************************************************************************)
(* Liveness.                                                               *)
(***************************************************************************)
Quiet ==
  /\ eventsQueue = <<>> /\ evt = NoEvent
  /\ queue = <<>> /\ \A w \in Worker : workers[w] = Idle

\* Once the node is quiet the queues run dry: no job is retried for ever.
QueuesDrain == <>[]Quiet

\* Every block of the chain above genesis gets its row (checked where the
\* chain does not fork and no job runs out of attempts).
ChainIsIndexed ==
  <>[](\A h \in Height : chain[h] \notin {NoBlock, Genesis} => rowBlock[h] = chain[h])

(***************************************************************************)
(* What the repository says of the index and the code does not do.         *)
(***************************************************************************)
\* "Update block finality status" (indexNewBlock): the job only changes
\* isFinal, it never puts another block in a row.
FinalityUpdateKeepsBlocks ==
  [][(\E w \in Worker : Takes(w, "update")) /\ queue' = Tail(queue)
       => rowBlock' = rowBlock]_vars
=============================================================================
