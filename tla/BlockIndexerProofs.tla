------------------------- MODULE BlockIndexerProofs -------------------------
(***************************************************************************)
(* Proofs, for every set of blocks, workers and bounds, that the block     *)
(* index keeps the invariant IndexInv and with it its safety properties,   *)
(* counts every block it indexes, and implements BlockArchive.             *)
(***************************************************************************)
EXTENDS BlockIndexer, FiniteSetTheorems, SequenceTheorems, TLAPS

\* What every step of the system leaves true of a job: the node forgets no
\* block, finality only grows, and no transaction row disappears.
Frame ==
  /\ seen \subseteq seen'
  /\ finalized <= finalized'
  /\ \A t \in Tx : txRows[t] # NoBlock => txRows'[t] # NoBlock

\* bull's retry yields a waiting list of jobs again, made of the old ones and
\* the retried one.
LEMMA RetryJobs ==
  ASSUME NEW q \in Seq(Job), NEW job \in Job
  PROVE  /\ Retry(q, job) \in Seq(Job)
         /\ Exhausted(job) \subseteq Job
         /\ \A i \in 1..Len(Retry(q, job)) :
              \/ \E j \in 1..Len(q) : Retry(q, job)[i] = q[j]
              \/ /\ Retry(q, job)[i].kind = job.kind
                 /\ Retry(q, job)[i].blocks = job.blocks
                 /\ Retry(q, job)[i].isFinal = job.isFinal
<1>1. CASE job.attempts + 1 < MaxAttempts
  <2> DEFINE again == [job EXCEPT !.attempts = @ + 1]
  <2>1. again \in Job
    <3>1. job.attempts + 1 \in 0..(MaxAttempts - 1)
      BY <1>1, BoundAssumption DEF Job
    <3> QED BY <3>1 DEF Job
  <2>2. Retry(q, job) = Append(q, again) /\ Exhausted(job) = {}
    BY <1>1 DEF Retry, Exhausted
  <2>3. again.kind = job.kind /\ again.blocks = job.blocks /\ again.isFinal = job.isFinal
    BY DEF Job
  <2> HIDE DEF again
  <2> QED BY <2>1, <2>2, <2>3
<1>2. CASE ~(job.attempts + 1 < MaxAttempts)
  BY <1>2 DEF Retry, Exhausted
<1> QED BY <1>1, <1>2

\* A newly scheduled job is a job.
LEMMA NewJobType ==
  ASSUME NEW kind \in {"index", "update", "delete", "deleteById"},
         NEW blocks \in SUBSET Block, NEW isFinal \in BOOLEAN
  PROVE  \E job \in Job : /\ job = NewJob(kind, blocks, isFinal)
                          /\ job.kind = kind
                          /\ job.blocks = blocks
                          /\ job.isFinal = isFinal
<1>1. 0 \in 0..(MaxAttempts - 1)
  BY BoundAssumption
<1>2. NewJob(kind, blocks, isFinal) \in Job
  BY <1>1 DEF NewJob, Job
<1> QED BY <1>2 DEF NewJob

\* The same for the Events queue: its old jobs and perhaps the retried one.
LEMMA RetryEvents ==
  ASSUME NEW q \in Seq(EventJob), NEW job \in EventJob
  PROVE  /\ Retry(q, job) \in Seq(EventJob)
         /\ \A i \in 1..Len(Retry(q, job)) :
              \/ \E j \in 1..Len(q) : Retry(q, job)[i] = q[j]
              \/ Retry(q, job)[i].block = job.block
<1>1. CASE job.attempts + 1 < MaxAttempts
  <2> DEFINE again == [job EXCEPT !.attempts = @ + 1]
  <2>1. again \in EventJob
    BY <1>1, BoundAssumption DEF EventJob
  <2>2. Retry(q, job) = Append(q, again)
    BY <1>1 DEF Retry
  <2>3. again.block = job.block
    BY DEF EventJob
  <2> HIDE DEF again
  <2> QED BY <2>1, <2>2, <2>3
<1>2. CASE ~(job.attempts + 1 < MaxAttempts)
  BY <1>2 DEF Retry
<1> QED BY <1>1, <1>2

\* Reading events, with or without an eviction, leaves a cache of events.
LEMMA CacheType ==
  ASSUME eventCache \in [Height -> Maybe], NEW h \in Height, NEW e \in Maybe,
         NEW c \in CacheAfter(h, e)
  PROVE  c \in [Height -> Maybe]
BY DEF CacheAfter, Maybe

\* The empty index of a freshly started indexer satisfies the invariant.
LEMMA Initial == Init => IndexInv
<1> SUFFICES ASSUME Init PROVE IndexInv
  OBVIOUS
<1>1. height[Genesis] \in Nat \ {0} /\ Genesis \in Block /\ NoBlock \notin Block
  BY BlockAssumption
<1>2. TypeOK
  BY <1>1, BoundAssumption DEF Init, TypeOK, Maybe
<1>3. QueueOK /\ WorkersOK /\ EventsOK
  BY DEF Init, QueueOK, WorkersOK, EventsOK
<1>4. NodeOK /\ RowsOnceOnChain /\ FinalRowsAreFinalized /\ RowsHaveTransactions
  BY <1>1 DEF Init, NodeOK, RowsOnceOnChain, FinalRowsAreFinalized, RowsHaveTransactions
<1> QED BY <1>2, <1>3, <1>4 DEF IndexInv
-----------------------------------------------------------------------------
(***************************************************************************)
(* What the steps have in common.                                          *)
(***************************************************************************)
\* The state functions that group variables.
USE DEF nodeVars, redisVars, tables, bounds

\* Two jobs that do the same work.
SameWork(j, k) == j.kind = k.kind /\ j.blocks = k.blocks /\ j.isFinal = k.isFinal

\* A job that does the same work as a valid one stays valid across a step.
LEMMA JobKept ==
  ASSUME TypeOK, Frame, TypeOK',
         NEW job \in Job, JobOK(job), NEW again \in Job, SameWork(again, job)
  PROVE  JobOK(again)'
<1>1. job.blocks \subseteq Block /\ again.blocks = job.blocks
  BY DEF Job, SameWork
<1>2. \A b \in Block : TxsIndexed(b) => TxsIndexed(b)'
  BY BlockAssumption DEF TxsIndexed, Frame
<1>3. \A b \in Block : height[b] <= finalized => height[b] <= finalized'
  BY BlockAssumption DEF Frame, TypeOK
<1> QED BY <1>1, <1>2, <1>3 DEF JobOK, SameWork, Frame

\* The waiting list stays valid when each of its jobs repeats an old one or is
\* valid itself.
LEMMA QueueKept ==
  ASSUME TypeOK, QueueOK, Frame, TypeOK',
         \A i \in 1..Len(queue') :
           \/ \E j \in 1..Len(queue) : SameWork(queue'[i], queue[j])
           \/ JobOK(queue[i])'
  PROVE  QueueOK'
<1> SUFFICES ASSUME NEW i \in (1..Len(queue))' PROVE JobOK(queue[i])'
  BY DEF QueueOK
<1>1. CASE \E j \in 1..Len(queue) : SameWork(queue'[i], queue[j])
  <2>1. PICK j \in 1..Len(queue) : SameWork(queue'[i], queue[j])
    BY <1>1
  <2>2. queue[j] \in Job /\ JobOK(queue[j])
    BY DEF TypeOK, QueueOK
  <2>3. queue'[i] \in Job
    BY DEF TypeOK
  <2> QED BY <2>1, <2>2, <2>3, JobKept DEF JobOK, TxsIndexed
<1> QED BY <1>1

\* The running jobs stay valid when each worker keeps its job or takes a valid
\* indexing job.
LEMMA WorkersKept ==
  ASSUME TypeOK, WorkersOK, Frame, TypeOK',
         \A w \in Worker : workers'[w] # Idle =>
           \/ workers[w] # Idle /\ workers'[w].job = workers[w].job
           \/ workers'[w].job.kind = "index" /\ JobOK(workers[w].job)'
  PROVE  WorkersOK'
<1> SUFFICES ASSUME NEW w \in Worker, workers'[w] # Idle
             PROVE  workers'[w].job.kind = "index" /\ JobOK(workers[w].job)'
  BY DEF WorkersOK
<1>1. CASE workers[w] # Idle /\ workers'[w].job = workers[w].job
  <2>1. workers[w].job \in Job /\ JobOK(workers[w].job) /\ workers[w].job.kind = "index"
    BY <1>1 DEF TypeOK, WorkersOK, Running
  <2>2. SameWork(workers'[w].job, workers[w].job)
    BY <1>1 DEF SameWork
  <2> QED BY <1>1, <2>1, <2>2, JobKept DEF JobOK, TxsIndexed
<1> QED BY <1>1

\* A step that leaves the tables alone keeps what the invariant says of rows.
LEMMA RowsKept ==
  ASSUME IndexInv, Frame, TypeOK', UNCHANGED <<rowBlock, rowFinal>>
  PROVE  (RowsOnceOnChain /\ FinalRowsAreFinalized /\ RowsHaveTransactions)'
<1>1. RowsOnceOnChain'
  BY DEF IndexInv, RowsOnceOnChain, Frame
<1>2. FinalRowsAreFinalized'
  <2> SUFFICES ASSUME NEW h \in Height, rowFinal[h]
               PROVE  rowBlock[h] # NoBlock /\ h <= finalized'
    BY Zenon DEF FinalRowsAreFinalized
  <2>1. rowBlock[h] # NoBlock /\ h <= finalized
    BY Zenon DEF IndexInv, FinalRowsAreFinalized
  <2>2. h \in Nat /\ finalized \in Nat /\ finalized' \in Nat /\ finalized <= finalized'
    BY BlockAssumption DEF IndexInv, TypeOK, Height, Frame
  <2> QED BY <2>1, <2>2
<1>3. RowsHaveTransactions'
  BY BlockAssumption DEF IndexInv, RowsHaveTransactions, Frame, TypeOK, Maybe
<1> QED BY <1>1, <1>2, <1>3
-----------------------------------------------------------------------------
(***************************************************************************)
(* The node's steps.                                                       *)
(***************************************************************************)
\* The node forgets no block it has had and its finalized height only grows.
LEMMA NodeStep == IndexInv /\ Node => IndexInv'
<1> SUFFICES ASSUME IndexInv, Node PROVE IndexInv'
  OBVIOUS
<1> USE DEF IndexInv
<1>1. ASSUME NEW b \in Block, NodeNewBlock(b) PROVE IndexInv'
  <2> DEFINE job == [type |-> "newBlock", block |-> b, attempts |-> 0]
  <2>0. height[b] \in Height /\ b \in Maybe /\ job \in EventJob
    BY BoundAssumption DEF Height, Maybe, EventJob
  <2>1. TypeOK'
    BY <1>1, <2>0 DEF NodeNewBlock, TypeOK
  <2>2. Frame
    BY <1>1 DEF NodeNewBlock, Frame, TypeOK
  <2>3. NodeOK'
    BY <1>1 DEF NodeNewBlock, NodeOK, TypeOK
  <2>4. QueueOK'
    BY <1>1, <2>1, <2>2, QueueKept DEF NodeNewBlock, SameWork
  <2>5. WorkersOK'
    BY <1>1, <2>1, <2>2, WorkersKept DEF NodeNewBlock
  <2>6. EventsOK'
    <3>1. \A i \in 1..Len(eventsQueue') : eventsQueue'[i].block \in seen'
      BY <1>1, <2>0 DEF NodeNewBlock, EventsOK, TypeOK
    <3> QED BY <1>1, <3>1 DEF NodeNewBlock, EventsOK, TypeOK
  <2> QED BY <1>1, <2>1, <2>2, <2>3, <2>4, <2>5, <2>6, RowsKept DEF NodeNewBlock
<1>2. ASSUME NEW b \in Block, NodeDeleteBlock(b) PROVE IndexInv'
  <2> DEFINE job == [type |-> "deleteBlock", block |-> b, attempts |-> 0]
  <2>0. height[b] \in Height /\ NoBlock \in Maybe /\ job \in EventJob /\ b \in seen
    <3>1. height[b] \in Height /\ NoBlock \in Maybe /\ b # NoBlock
      BY BlockAssumption DEF Height, Maybe
    <3>2. job \in EventJob
      BY BoundAssumption DEF EventJob
    <3>3. b \in seen
      BY <1>2, <3>1 DEF NodeDeleteBlock, NodeOK
    <3> QED BY <3>1, <3>2, <3>3
  <2>1. TypeOK'
    BY <1>2, <2>0 DEF NodeDeleteBlock, TypeOK
  <2>2. Frame
    BY <1>2 DEF NodeDeleteBlock, Frame, TypeOK
  <2>3. NodeOK'
    BY <1>2 DEF NodeDeleteBlock, NodeOK, TypeOK
  <2>4. QueueOK'
    BY <1>2, <2>1, <2>2, QueueKept DEF NodeDeleteBlock, SameWork
  <2>5. WorkersOK'
    BY <1>2, <2>1, <2>2, WorkersKept DEF NodeDeleteBlock
  <2>6. EventsOK'
    <3>1. \A i \in 1..Len(eventsQueue') : eventsQueue'[i].block \in seen'
      BY <1>2, <2>0 DEF NodeDeleteBlock, EventsOK, TypeOK
    <3> QED BY <1>2, <3>1 DEF NodeDeleteBlock, EventsOK, TypeOK
  <2> QED BY <1>2, <2>1, <2>2, <2>3, <2>4, <2>5, <2>6, RowsKept DEF NodeDeleteBlock
<1>3. ASSUME NEW h \in Height, NodeFinalize(h) PROVE IndexInv'
  <2>0. h \in Nat
    BY BlockAssumption DEF Height
  <2>1. TypeOK'
    BY <1>3, <2>0 DEF NodeFinalize, TypeOK
  <2>2. Frame
    BY <1>3, <2>0 DEF NodeFinalize, Frame, TypeOK
  <2>3. NodeOK'
    BY <1>3, <2>0 DEF NodeFinalize, NodeOK, TypeOK
  <2>4. QueueOK'
    BY <1>3, <2>1, <2>2, QueueKept DEF NodeFinalize, SameWork
  <2>5. WorkersOK'
    BY <1>3, <2>1, <2>2, WorkersKept DEF NodeFinalize
  <2>6. EventsOK'
    <3>1. UNCHANGED <<eventsQueue, evt, seen>>
      BY <1>3 DEF NodeFinalize
    <3>2. evt # NoEvent => evt.block \in Block /\ height[evt.block] \in Nat
      BY BlockAssumption DEF TypeOK, Processing
    <3>3. evt # NoEvent /\ height[evt.block] <= finalized => height[evt.block] <= finalized'
      BY <2>2, <2>1, <3>2 DEF Frame, TypeOK
    <3> QED BY <3>1, <3>3, Zenon DEF EventsOK
  <2> QED BY <1>3, <2>1, <2>2, <2>3, <2>4, <2>5, <2>6, RowsKept DEF NodeFinalize
<1> QED BY <1>1, <1>2, <1>3 DEF Node
-----------------------------------------------------------------------------
(***************************************************************************)
(* The steps of the event processor and of the coordinator's requests.     *)
(***************************************************************************)
\* A finalized height read from the cache never exceeds the node's.
LEMMA FinalizedHeightType ==
  ASSUME IndexInv
  PROVE  GetFinalizedHeight \in Nat /\ GetFinalizedHeight <= finalized
BY DEF IndexInv, TypeOK, NodeOK, GetFinalizedHeight

\* normalizeBlock leaves a cache of events.
LEMMA NormalizeCacheType ==
  ASSUME IndexInv, NEW h \in Height, NEW c \in CacheAfterNormalize(h)
  PROVE  c \in [Height -> Maybe]
<1>1. GetEventsByHeight(h) \in Maybe
  BY DEF IndexInv, TypeOK, GetEventsByHeight
<1> QED BY <1>1, CacheType DEF CacheAfterNormalize, IndexInv, TypeOK

\* newBlockProcessor: what getBlocks returns is on the node's chain, and its
\* isFinal is not ahead of the node.
LEMMA FetchNewBlockStep == IndexInv /\ FetchNewBlock => IndexInv'
<1> SUFFICES ASSUME IndexInv, FetchNewBlock PROVE IndexInv'
  OBVIOUS
<1> DEFINE job == Head(eventsQueue)
           h == height[job.block]
           b == chain[h]
<1>0. /\ job \in EventJob /\ Tail(eventsQueue) \in Seq(EventJob)
      /\ job.block \in seen /\ job.block \in Block
      /\ h \in Height /\ h \in Nat
      /\ \A i \in 1..Len(Tail(eventsQueue)) : Tail(eventsQueue)[i].block \in seen
  <2>1. eventsQueue \in Seq(EventJob) /\ eventsQueue # <<>>
    BY DEF FetchNewBlock, IndexInv, TypeOK
  <2>2. job = eventsQueue[1] /\ 1 \in 1..Len(eventsQueue)
    BY <2>1
  <2>3. job \in EventJob /\ Tail(eventsQueue) \in Seq(EventJob) /\ job.block \in seen
    BY <2>1, <2>2 DEF IndexInv, EventsOK
  <2>4. \A i \in 1..Len(Tail(eventsQueue)) :
          Tail(eventsQueue)[i] = eventsQueue[i + 1] /\ i + 1 \in 1..Len(eventsQueue)
    BY <2>1
  <2> QED BY <2>3, <2>4, BlockAssumption DEF IndexInv, EventsOK, EventJob, Height
<1> HIDE DEF job, h
<1>1. CASE chain[h] # NoBlock /\ evt' = [pc |-> "lookup", job |-> job, block |-> b,
                                         isFinal |-> IsFinalNow(h), info |-> NoBlock]
           /\ eventsQueue' = Tail(eventsQueue)
           /\ finalizedHeight' = GetFinalizedHeight
           /\ eventCache' \in CacheAfterNormalize(h)
  <2>0. b \in Block /\ b \in seen /\ height[b] = h /\ NoBlock \in Maybe
    BY <1>0, <1>1 DEF IndexInv, TypeOK, NodeOK, Maybe
  <2>1. evt' \in Processing
    BY <1>0, <1>1, <2>0 DEF Processing, IsFinalNow
  <2>2. TypeOK'
    BY <1>0, <1>1, <2>1, FinalizedHeightType, NormalizeCacheType
    DEF IndexInv, TypeOK, FetchNewBlock
  <2>3. Frame /\ UNCHANGED <<rowBlock, rowFinal, queue, workers, chain, seen, finalized>>
    BY DEF FetchNewBlock, Frame, IndexInv, TypeOK
  <2>4. NodeOK'
    BY <1>1, <2>3, FinalizedHeightType DEF IndexInv, NodeOK, TypeOK
  <2>5. QueueOK' /\ WorkersOK'
    BY <2>2, <2>3, QueueKept, WorkersKept DEF SameWork, IndexInv
  <2>6. EventsOK'
    <3>1. IsFinalNow(h) => height[b] <= finalized
      BY <1>0, <2>0, FinalizedHeightType DEF IsFinalNow, IndexInv, TypeOK
    <3> QED BY <1>0, <1>1, <2>0, <2>3, <3>1 DEF EventsOK
  <2> QED BY <2>2, <2>3, <2>4, <2>5, <2>6, RowsKept DEF IndexInv
<1>2. CASE eventsQueue' = Retry(Tail(eventsQueue), job)
           /\ UNCHANGED <<evt, finalizedHeight, eventCache>>
  <2>1. eventsQueue' \in Seq(EventJob)
    BY <1>0, <1>2, RetryEvents
  <2>2. TypeOK'
    BY <1>2, <2>1 DEF IndexInv, TypeOK, FetchNewBlock
  <2>3. Frame /\ UNCHANGED <<rowBlock, rowFinal, queue, workers, chain, seen, finalized>>
    BY DEF FetchNewBlock, Frame, IndexInv, TypeOK
  <2>4. NodeOK'
    BY <1>2, <2>3 DEF IndexInv, NodeOK
  <2>5. QueueOK' /\ WorkersOK'
    BY <2>2, <2>3, QueueKept, WorkersKept DEF SameWork, IndexInv
  <2>6. EventsOK'
    <3>1. \A i \in 1..Len(eventsQueue') : eventsQueue'[i].block \in seen
      BY <1>0, <1>2, RetryEvents
    <3> QED BY <1>2, <2>3, <3>1 DEF EventsOK, IndexInv
  <2> QED BY <2>2, <2>3, <2>4, <2>5, <2>6, RowsKept DEF IndexInv
<1> QED BY <1>1, <1>2 DEF FetchNewBlock, job, h

\* A job that scheduling appended, next to the ones that were waiting.
LEMMA AppendedQueue ==
  ASSUME TypeOK, QueueOK, Frame, TypeOK', NEW job \in Job, JobOK(job)',
         queue' = Append(queue, job)
  PROVE  QueueOK'
<1>1. \A i \in 1..Len(queue') : i \in 1..Len(queue) \/ queue'[i] = job
  BY DEF TypeOK
<1>2. \A i \in 1..Len(queue) : queue'[i] = queue[i]
  BY DEF TypeOK
<1>3. ASSUME NEW i \in 1..Len(queue'), queue'[i] = job PROVE JobOK(queue[i])'
  BY <1>3 DEF JobOK, TxsIndexed
<1> QED BY <1>1, <1>2, <1>3, QueueKept DEF SameWork

\* indexNewBlock schedules a block that was on the chain.
LEMMA LookupBlockStep == IndexInv /\ LookupBlock => IndexInv'
<1> SUFFICES ASSUME IndexInv, LookupBlock PROVE IndexInv'
  OBVIOUS
<1>0. evt \in Processing /\ evt # NoEvent
  BY DEF LookupBlock, IndexInv, TypeOK, NoEvent, Processing
<1>1. PICK job \in Job : /\ job = NewJob("index", {evt.block}, evt.isFinal)
                         /\ job.kind = "index"
                         /\ job.blocks = {evt.block}
                         /\ job.isFinal = evt.isFinal
  <2>1. {evt.block} \in SUBSET Block /\ evt.isFinal \in BOOLEAN
    BY <1>0 DEF Processing
  <2> QED BY <2>1, NewJobType
<1>2. evt.block \in Block /\ rowBlock[height[evt.block]] \in Maybe
  BY <1>0, BlockAssumption DEF IndexInv, TypeOK, Processing, Height
<1>3. evt' \in Processing \cup {NoEvent}
  <2>1. evt' = NoEvent \/ evt' = [evt EXCEPT !.pc = "finality",
                                             !.info = rowBlock[height[evt.block]]]
    BY DEF LookupBlock
  <2> DEFINE Bool == BOOLEAN
             P == [pc : {"lookup", "finality", "fork"}, job : EventJob,
                   block : Block, isFinal : Bool, info : Maybe]
  <2>2. P = Processing
    BY Zenon DEF Processing
  <2> HIDE DEF Bool
  <2> QED BY <1>0, <1>2, <2>1, <2>2
<1>4. /\ queue' = queue \/ queue' = Append(queue, job)
      /\ queue' \in Seq(Job)
  <2>1. queue' = queue \/ queue' = Append(queue, job)
    BY <1>1, Zenon DEF LookupBlock
  <2>2. queue \in Seq(Job)
    BY DEF IndexInv, TypeOK
  <2> QED BY <2>1, <2>2
<1>5. TypeOK'
  BY <1>3, <1>4 DEF IndexInv, TypeOK, LookupBlock
<1>6. Frame /\ UNCHANGED <<rowBlock, rowFinal, workers, chain, seen, finalized,
                           finalizedHeight, eventsQueue, txRows>>
  BY DEF LookupBlock, Frame, IndexInv, TypeOK
<1>7. NodeOK'
  BY <1>6 DEF IndexInv, NodeOK
<1>8. QueueOK'
  <2>1. CASE queue' = queue
    BY <2>1, <1>5, <1>6, QueueKept DEF IndexInv, SameWork
  <2>2. CASE queue' = Append(queue, job)
    <3>2. evt.block \in seen /\ (evt.isFinal => height[evt.block] <= finalized)
      BY <1>0, Zenon DEF IndexInv, EventsOK
    <3>3. JobOK(job)'
      BY <1>1, <1>6, <3>2, Zenon DEF JobOK
    <3> QED BY <1>5, <1>6, <2>2, <3>3, AppendedQueue DEF IndexInv
  <2> QED BY <1>4, <2>1, <2>2
<1>9. WorkersOK'
  BY <1>5, <1>6, WorkersKept DEF IndexInv
<1>10. EventsOK'
  <2>1. evt' # NoEvent => evt'.job = evt.job /\ evt'.block = evt.block
                          /\ evt'.isFinal = evt.isFinal
    BY <1>0 DEF LookupBlock, Processing
  <2> QED BY <1>0, <1>6, <2>1 DEF IndexInv, EventsOK
<1> QED BY <1>5, <1>6, <1>7, <1>8, <1>9, <1>10, RowsKept DEF IndexInv

\* Steps that append one job and otherwise only touch the event in progress,
\* the events queue and the caches.
LEMMA ScheduleStep ==
  ASSUME IndexInv, TypeOK', NEW job \in Job, JobOK(job),
         queue' = queue \/ queue' = Append(queue, job),
         UNCHANGED <<chain, seen, finalized, workers, rowBlock, rowFinal, txRows>>,
         finalizedHeight' <= finalized', EventsOK'
  PROVE  IndexInv'
<1>1. Frame
  BY DEF Frame, IndexInv, TypeOK
<1>2. NodeOK'
  BY DEF IndexInv, NodeOK
<1>3. QueueOK'
  <2>1. CASE queue' = queue
    BY <2>1, <1>1, QueueKept DEF IndexInv, SameWork
  <2>2. CASE queue' = Append(queue, job)
    <3>1. JobOK(job)'
      BY Zenon DEF JobOK, TxsIndexed
    <3> QED BY <1>1, <2>2, <3>1, AppendedQueue DEF IndexInv
  <2> QED BY <2>1, <2>2
<1>4. WorkersOK'
  BY <1>1, WorkersKept DEF IndexInv
<1> QED BY <1>1, <1>2, <1>3, <1>4, RowsKept DEF IndexInv

\* indexNewBlock schedules only rows at finalized heights to be marked final.
LEMMA UpdateFinalityStep == IndexInv /\ UpdateFinality => IndexInv'
<1> SUFFICES ASSUME IndexInv, UpdateFinality PROVE IndexInv'
  OBVIOUS
<1>0. evt \in Processing /\ evt # NoEvent
  BY DEF UpdateFinality, IndexInv, TypeOK, NoEvent, Processing
<1>1. \A b \in NewlyFinalRows : /\ b \in Block /\ b \in seen
                                /\ height[b] <= finalized
                                /\ TxsIndexed(b)
  <2> SUFFICES ASSUME NEW h \in Height, rowBlock[h] # NoBlock, h <= GetFinalizedHeight
               PROVE  /\ rowBlock[h] \in Block /\ rowBlock[h] \in seen
                      /\ height[rowBlock[h]] <= finalized
                      /\ TxsIndexed(rowBlock[h])
    BY Zenon DEF NewlyFinalRows
  <2>1. rowBlock[h] \in Block /\ rowBlock[h] \in seen /\ height[rowBlock[h]] = h
    BY DEF IndexInv, TypeOK, Maybe, RowsOnceOnChain
  <2>2. h \in Nat /\ h <= finalized
    BY FinalizedHeightType, BlockAssumption DEF IndexInv, TypeOK, Height
  <2>3. TxsIndexed(rowBlock[h])
    BY DEF IndexInv, RowsHaveTransactions, TxsIndexed
  <2> QED BY <2>1, <2>2, <2>3
<1>2. PICK job \in Job : /\ job = NewJob("update", NewlyFinalRows, TRUE)
                         /\ job.kind = "update"
                         /\ job.blocks = NewlyFinalRows
                         /\ job.isFinal = TRUE
  <2>1. NewlyFinalRows \in SUBSET Block
    BY <1>1
  <2> QED BY <2>1, NewJobType
<1>3. evt' \in Processing \cup {NoEvent}
  <2>1. evt' = NoEvent \/ evt' = [evt EXCEPT !.pc = "fork"]
    BY DEF UpdateFinality
  <2> DEFINE Bool == BOOLEAN
             P == [pc : {"lookup", "finality", "fork"}, job : EventJob,
                   block : Block, isFinal : Bool, info : Maybe]
  <2>2. P = Processing
    BY Zenon DEF Processing
  <2> HIDE DEF Bool
  <2> QED BY <1>0, <2>1, <2>2
<1>4. queue' = Append(queue, job) /\ queue' \in Seq(Job)
  <2>1. queue' = Append(queue, job)
    BY <1>2, Zenon DEF UpdateFinality
  <2>2. queue \in Seq(Job)
    BY DEF IndexInv, TypeOK
  <2> QED BY <2>1, <2>2
<1>5. TypeOK'
  BY <1>3, <1>4, FinalizedHeightType DEF IndexInv, TypeOK, UpdateFinality
<1>6. JobOK(job)
  BY <1>1, <1>2 DEF JobOK
<1>7. UNCHANGED <<chain, seen, finalized, workers, rowBlock, rowFinal, txRows, eventsQueue>>
  BY DEF UpdateFinality
<1>8. finalizedHeight' <= finalized'
  BY <1>7, FinalizedHeightType DEF UpdateFinality
<1>9. EventsOK'
  <2>1. evt' # NoEvent => evt'.job = evt.job /\ evt'.block = evt.block
                          /\ evt'.isFinal = evt.isFinal
    BY <1>0 DEF UpdateFinality, Processing
  <2> QED BY <1>0, <1>7, <2>1 DEF IndexInv, EventsOK
<1> QED BY <1>4, <1>5, <1>6, <1>7, <1>8, <1>9, ScheduleStep

\* indexNewBlock schedules rows above the fork for removal: they were on the
\* chain once.
LEMMA RemoveForkStep == IndexInv /\ RemoveFork => IndexInv'
<1> SUFFICES ASSUME IndexInv, RemoveFork PROVE IndexInv'
  OBVIOUS
<1>1. PICK blocks \in SUBSET Block :
        /\ blocks \subseteq seen
        /\ queue' = Append(queue, NewJob("deleteById", blocks, FALSE))
  <2> DEFINE above == {h \in Height : h > height[evt.block] /\ rowBlock[h] # NoBlock}
             rows == {rowBlock[h] : h \in above}
  <2>1. rows \subseteq seen /\ rows \in SUBSET Block
    BY DEF IndexInv, RowsOnceOnChain, TypeOK
  <2>2. queue' = Append(queue, NewJob("deleteById", rows, FALSE))
    BY DEF RemoveFork
  <2> HIDE DEF rows
  <2> QED BY <2>1, <2>2
<1>2. PICK job \in Job : /\ job = NewJob("deleteById", blocks, FALSE)
                         /\ job.kind = "deleteById"
                         /\ job.blocks = blocks
                         /\ job.isFinal = FALSE
  BY NewJobType
<1>3. evt' = NoEvent
      /\ UNCHANGED <<chain, seen, finalized, workers, rowBlock, rowFinal, txRows,
                     eventsQueue, finalizedHeight>>
  BY DEF RemoveFork
<1>4. TypeOK'
  <2>1. queue \in Seq(Job)
    BY DEF IndexInv, TypeOK
  <2>2. queue' = Append(queue, job)
    BY <1>1, <1>2, Zenon
  <2>3. queue' \in Seq(Job)
    BY <2>1, <2>2
  <2> QED BY <1>3, <2>3 DEF IndexInv, TypeOK, RemoveFork
<1>5. JobOK(job)
  BY <1>1, <1>2 DEF JobOK
<1>6. EventsOK' /\ finalizedHeight' <= finalized'
  BY <1>3 DEF IndexInv, EventsOK, NodeOK
<1> QED BY <1>1, <1>2, <1>3, <1>4, <1>5, <1>6, ScheduleStep

\* deleteBlockProcessor schedules the removal of a block that was on the
\* chain.
LEMMA ProcessDeleteBlockStep == IndexInv /\ ProcessDeleteBlock => IndexInv'
<1> SUFFICES ASSUME IndexInv, ProcessDeleteBlock PROVE IndexInv'
  OBVIOUS
<1>1. eventsQueue \in Seq(EventJob) /\ eventsQueue # <<>>
  BY DEF ProcessDeleteBlock, IndexInv, TypeOK
<1>2. Head(eventsQueue) = eventsQueue[1] /\ 1 \in 1..Len(eventsQueue)
  BY <1>1
<1>3. Head(eventsQueue).block \in seen /\ Head(eventsQueue).block \in Block
  <2>1. eventsQueue[1].block \in seen
    BY <1>2 DEF IndexInv, EventsOK
  <2>2. seen \subseteq Block
    BY DEF IndexInv, TypeOK
  <2> QED BY <1>2, <2>1, <2>2
<1>4. PICK job \in Job : /\ job = NewJob("delete", {Head(eventsQueue).block}, FALSE)
                         /\ job.kind = "delete"
                         /\ job.blocks = {Head(eventsQueue).block}
                         /\ job.isFinal = FALSE
  <2>1. {Head(eventsQueue).block} \in SUBSET Block
    BY <1>3
  <2> QED BY <2>1, NewJobType
<1>5. queue' = Append(queue, job)
  BY <1>4, Zenon DEF ProcessDeleteBlock
<1>6. evt' = evt /\ evt = NoEvent /\ eventsQueue' = Tail(eventsQueue)
      /\ UNCHANGED <<chain, seen, finalized, workers, rowBlock, rowFinal, txRows,
                     finalizedHeight>>
  BY DEF ProcessDeleteBlock
<1>7. TypeOK'
  <2>1. queue' \in Seq(Job) /\ eventsQueue' \in Seq(EventJob)
    <3>1. queue \in Seq(Job)
      BY DEF IndexInv, TypeOK
    <3>2. Append(queue, job) \in Seq(Job)
      BY <3>1
    <3>3. queue' \in Seq(Job)
      BY <1>5, <3>1, <3>2
    <3>4. Tail(eventsQueue) \in Seq(EventJob)
      BY <1>1
    <3>5. eventsQueue' \in Seq(EventJob)
      BY <1>6, <3>4
    <3> QED BY <3>3, <3>5
  <2> QED BY <2>1 DEF IndexInv, TypeOK, ProcessDeleteBlock
<1>8. JobOK(job)
  BY <1>3, <1>4 DEF JobOK
<1>9. EventsOK' /\ finalizedHeight' <= finalized'
  <2>1. \A i \in 1..Len(eventsQueue') :
          eventsQueue'[i] = eventsQueue[i + 1] /\ i + 1 \in 1..Len(eventsQueue)
    BY <1>1, <1>6
  <2> QED BY <1>6, <2>1 DEF IndexInv, EventsOK, NodeOK
<1> QED BY <1>5, <1>6, <1>7, <1>8, <1>9, ScheduleStep

\* A deleteBlock job that fails, dropped or retried, keeps the invariant.
LEMMA FailDeleteBlockStep == IndexInv /\ FailDeleteBlock => IndexInv'
<1> SUFFICES ASSUME IndexInv, FailDeleteBlock PROVE IndexInv'
  OBVIOUS
<1> DEFINE job == Head(eventsQueue)
           h == height[job.block]
<1>1. eventsQueue \in Seq(EventJob) /\ eventsQueue # <<>>
  BY DEF FailDeleteBlock, IndexInv, TypeOK
<1>2. /\ job = eventsQueue[1] /\ job \in EventJob
      /\ Tail(eventsQueue) \in Seq(EventJob)
      /\ 1 \in 1..Len(eventsQueue)
      /\ \A i \in 1..Len(Tail(eventsQueue)) :
           Tail(eventsQueue)[i] = eventsQueue[i + 1] /\ i + 1 \in 1..Len(eventsQueue)
  BY <1>1
<1>3. /\ job.block \in seen
      /\ \A i \in 1..Len(Tail(eventsQueue)) : Tail(eventsQueue)[i].block \in seen
  BY <1>2 DEF IndexInv, EventsOK
<1>4. h \in Height
  <2>1. job.block \in Block
    BY <1>3 DEF IndexInv, TypeOK
  <2> QED BY <2>1, BlockAssumption DEF Height
<1>5. \/ /\ eventsQueue' = Tail(eventsQueue)
         /\ finalizedHeight' = GetFinalizedHeight
         /\ eventCache' \in CacheAfterNormalize(h)
      \/ /\ eventsQueue' = Retry(Tail(eventsQueue), job)
         /\ UNCHANGED <<finalizedHeight, eventCache>>
  BY DEF FailDeleteBlock
<1>6. /\ evt' = evt /\ evt = NoEvent
      /\ UNCHANGED <<chain, seen, finalized, queue, workers, rowBlock, rowFinal, txRows>>
  BY DEF FailDeleteBlock, nodeVars, tables
<1>7. /\ eventsQueue' \in Seq(EventJob)
      /\ \A i \in 1..Len(eventsQueue') : eventsQueue'[i].block \in seen
  <2> HIDE DEF job, h
  <2>1. CASE eventsQueue' = Tail(eventsQueue)
    BY <1>2, <1>3, <2>1
  <2>2. CASE eventsQueue' = Retry(Tail(eventsQueue), job)
    BY <1>2, <1>3, <2>2, RetryEvents
  <2> QED BY <1>5, <2>1, <2>2
<1>8. /\ eventCache' \in [Height -> Maybe]
      /\ finalizedHeight' \in Nat \cup {-1} /\ finalizedHeight' <= finalized
  <2>1. eventCache \in [Height -> Maybe] /\ finalizedHeight \in Nat \cup {-1}
        /\ finalizedHeight <= finalized
    BY DEF IndexInv, TypeOK, NodeOK
  <2>2. eventCache' \in [Height -> Maybe]
    BY <1>4, <1>5, <2>1, NormalizeCacheType
  <2>3. finalizedHeight' \in Nat \cup {-1} /\ finalizedHeight' <= finalized
    BY <1>5, <2>1, FinalizedHeightType
  <2> QED BY <2>2, <2>3
<1>9. faults' \in 0..MaxFaults
  <2>1. faults \in 0..MaxFaults /\ faults < MaxFaults /\ faults' = faults + 1
    BY DEF FailDeleteBlock, IndexInv, TypeOK
  <2> QED BY <2>1, BoundAssumption
<1>10. TypeOK'
  BY <1>7, <1>8, <1>9 DEF IndexInv, TypeOK, FailDeleteBlock
<1>11. Frame
  BY <1>6 DEF Frame, IndexInv, TypeOK
<1>12. NodeOK'
  BY <1>6, <1>8 DEF IndexInv, NodeOK
<1>13. QueueOK' /\ WorkersOK'
  BY <1>6, <1>10, <1>11, QueueKept, WorkersKept DEF SameWork, IndexInv
<1>14. EventsOK'
  BY <1>6, <1>7 DEF EventsOK
<1> QED BY <1>6, <1>10, <1>11, <1>12, <1>13, <1>14, RowsKept DEF IndexInv

\* A failed newBlock job, retried or given up, keeps the invariant.
LEMMA FailEventStep == IndexInv /\ FailEvent => IndexInv'
<1> SUFFICES ASSUME IndexInv, FailEvent PROVE IndexInv'
  OBVIOUS
<1>0. evt \in Processing /\ evt # NoEvent /\ evt.job \in EventJob /\ evt.job.block \in seen
  BY DEF FailEvent, IndexInv, TypeOK, Processing, EventsOK
<1>1. eventsQueue \in Seq(EventJob) /\ eventsQueue' = Retry(eventsQueue, evt.job)
  BY DEF FailEvent, IndexInv, TypeOK
<1>2. faults' \in 0..MaxFaults
  <2>1. faults \in 0..MaxFaults /\ faults < MaxFaults /\ faults' = faults + 1
    BY DEF FailEvent, IndexInv, TypeOK
  <2> QED BY <2>1, BoundAssumption
<1>3. eventsQueue' \in Seq(EventJob)
  BY <1>0, <1>1, RetryEvents
<1>4. TypeOK'
  BY <1>2, <1>3 DEF IndexInv, TypeOK, FailEvent
<1>5. Frame /\ evt' = NoEvent
      /\ UNCHANGED <<chain, seen, finalized, workers, rowBlock, rowFinal, txRows,
                     finalizedHeight, queue>>
  BY DEF FailEvent, Frame, IndexInv, TypeOK
<1>6. NodeOK'
  BY <1>5 DEF IndexInv, NodeOK
<1>7. QueueOK' /\ WorkersOK'
  BY <1>4, <1>5, QueueKept, WorkersKept DEF SameWork, IndexInv
<1>8. EventsOK'
  <2>1. \A i \in 1..Len(eventsQueue) : eventsQueue[i].block \in seen
    BY DEF IndexInv, EventsOK
  <2>2. \A i \in 1..Len(eventsQueue') : eventsQueue'[i].block \in seen
    BY <1>0, <1>1, <2>1, RetryEvents
  <2> QED BY <1>5, <2>2 DEF EventsOK
<1> QED BY <1>4, <1>5, <1>6, <1>7, <1>8, RowsKept DEF IndexInv

\* The refreshed finalized height is not ahead of the node's.
LEMMA UpdateFinalizedHeightStep == IndexInv /\ UpdateFinalizedHeight => IndexInv'
<1> SUFFICES ASSUME IndexInv, UpdateFinalizedHeight PROVE IndexInv'
  OBVIOUS
<1>1. TypeOK'
  BY DEF IndexInv, TypeOK, UpdateFinalizedHeight
<1>2. Frame /\ finalizedHeight' = finalized
      /\ UNCHANGED <<chain, seen, finalized, workers, rowBlock, rowFinal, txRows,
                     queue, evt, eventsQueue>>
  BY DEF UpdateFinalizedHeight, Frame, IndexInv, TypeOK
<1>3. NodeOK'
  BY <1>2 DEF IndexInv, NodeOK, TypeOK
<1>4. QueueOK' /\ WorkersOK'
  BY <1>1, <1>2, QueueKept, WorkersKept DEF SameWork, IndexInv
<1>5. EventsOK'
  BY <1>2, Zenon DEF IndexInv, EventsOK
<1> QED BY <1>1, <1>2, <1>3, <1>4, <1>5, RowsKept DEF IndexInv

\* addBlockToQueue schedules a block of the chain with a sound isFinal.
LEMMA AddBlockToQueueStep ==
  ASSUME NEW h \in Height, IndexInv, AddBlockToQueue(h) PROVE IndexInv'
<1>1. chain[h] \in Block /\ chain[h] \in seen /\ height[chain[h]] = h /\ h \in Nat
  <2>1. chain[h] # NoBlock /\ chain[h] \in Maybe
    BY DEF AddBlockToQueue, IndexInv, TypeOK
  <2>2. chain[h] \in seen /\ height[chain[h]] = h
    BY <2>1 DEF IndexInv, NodeOK
  <2> QED BY <2>1, <2>2, BlockAssumption DEF Maybe
<1>2. PICK job \in Job : /\ job = NewJob("index", {chain[h]}, IsFinalNow(h))
                         /\ job.kind = "index"
                         /\ job.blocks = {chain[h]}
                         /\ job.isFinal = IsFinalNow(h)
  <2>1. {chain[h]} \in SUBSET Block /\ IsFinalNow(h) \in BOOLEAN
    BY <1>1 DEF IsFinalNow
  <2> QED BY <2>1, NewJobType
<1>3. queue' = Append(queue, job)
  BY <1>2, Zenon DEF AddBlockToQueue
<1>4. TypeOK'
  <2>1. queue' \in Seq(Job)
    <3>1. queue \in Seq(Job)
      BY DEF IndexInv, TypeOK
    <3> QED BY <1>3, <3>1
  <2>2. scheduled' \in 0..MaxScheduled
    <3>1. scheduled \in 0..MaxScheduled /\ scheduled < MaxScheduled
          /\ scheduled' = scheduled + 1
      BY DEF AddBlockToQueue, IndexInv, TypeOK
    <3> QED BY <3>1, BoundAssumption
  <2>3. eventCache' \in [Height -> Maybe]
    BY NormalizeCacheType DEF AddBlockToQueue
  <2> QED BY <2>1, <2>2, <2>3, FinalizedHeightType DEF IndexInv, TypeOK, AddBlockToQueue
<1>5. JobOK(job)
  <2>1. IsFinalNow(h) => height[chain[h]] <= finalized
    BY <1>1, FinalizedHeightType DEF IsFinalNow, IndexInv, TypeOK
  <2> QED BY <1>1, <1>2, <2>1, Zenon DEF JobOK
<1>6. UNCHANGED <<chain, seen, finalized, workers, rowBlock, rowFinal, txRows,
                  eventsQueue, evt>>
  BY DEF AddBlockToQueue
<1>7. finalizedHeight' <= finalized'
  BY <1>6, FinalizedHeightType DEF AddBlockToQueue
<1>8. EventsOK'
  BY <1>6, Zenon DEF IndexInv, EventsOK
<1> QED BY <1>3, <1>4, <1>5, <1>6, <1>7, <1>8, ScheduleStep
-----------------------------------------------------------------------------
(***************************************************************************)
(* The steps of the workers.                                               *)
(***************************************************************************)
\* The job a worker takes, and the waiting list it leaves.
LEMMA TakenJob ==
  ASSUME IndexInv, NEW w \in Worker, NEW kind, Takes(w, kind)
  PROVE  /\ Head(queue) \in Job /\ JobOK(Head(queue)) /\ Head(queue).kind = kind
         /\ Tail(queue) \in Seq(Job)
         /\ \A i \in 1..Len(Tail(queue)) :
              \E j \in 1..Len(queue) : Tail(queue)[i] = queue[j]
         /\ \E j \in 1..Len(queue) : Head(queue) = queue[j]
<1>1. queue \in Seq(Job) /\ queue # <<>>
  BY DEF Takes, IndexInv, TypeOK
<1>2. Head(queue) = queue[1] /\ 1 \in 1..Len(queue)
  BY <1>1
<1>3. JobOK(Head(queue))
  BY <1>2, Zenon DEF IndexInv, QueueOK
<1>4. \A i \in 1..Len(Tail(queue)) :
        i + 1 \in 1..Len(queue) /\ Tail(queue)[i] = queue[i + 1]
  BY <1>1
<1>5. Head(queue) \in Job /\ Tail(queue) \in Seq(Job)
  BY <1>1
<1> QED BY <1>2, <1>3, <1>4, <1>5 DEF Takes

\* Steps that retry the taken job or drop it, and change nothing but the
\* queue, the failed set, the events cache and the bounds.
LEMMA RequeueStep ==
  ASSUME IndexInv, NEW w \in Worker, NEW kind, Takes(w, kind), TypeOK',
         queue' = Tail(queue) \/ queue' = Retry(Tail(queue), Head(queue)),
         UNCHANGED <<chain, seen, finalized, workers, rowBlock, rowFinal, txRows,
                     eventsQueue, evt, finalizedHeight>>
  PROVE  IndexInv'
<1>1. Frame
  BY DEF Frame, IndexInv, TypeOK
<1>2. \A i \in 1..Len(queue') : \E j \in 1..Len(queue) : SameWork(queue'[i], queue[j])
  <2>1. CASE queue' = Tail(queue)
    BY <2>1, TakenJob DEF SameWork
  <2>2. CASE queue' = Retry(Tail(queue), Head(queue))
    <3> DEFINE q == Tail(queue)
               job == Head(queue)
    <3>1. q \in Seq(Job) /\ job \in Job
      BY TakenJob
    <3>2. \A i \in 1..Len(queue') :
            \/ \E j \in 1..Len(q) : queue'[i] = q[j]
            \/ SameWork(queue'[i], job)
      BY <2>2, <3>1, RetryJobs DEF SameWork
    <3> QED BY <3>2, TakenJob DEF SameWork
  <2> QED BY <2>1, <2>2
<1>3. QueueOK' /\ WorkersOK'
  BY <1>1, <1>2, QueueKept, WorkersKept DEF IndexInv
<1>4. NodeOK' /\ EventsOK'
  BY Zenon DEF IndexInv, NodeOK, EventsOK
<1> QED BY <1>1, <1>3, <1>4, RowsKept DEF IndexInv

\* indexBlock up to its first write: the job moves to the worker or is retried.
LEMMA StartIndexBlockStep ==
  ASSUME IndexInv, NEW w \in Worker, StartIndexBlock(w) PROVE IndexInv'
<1>0. /\ Takes(w, "index")
      /\ UNCHANGED <<chain, seen, finalized, rowBlock, rowFinal, txRows,
                     eventsQueue, evt, finalizedHeight>>
  BY DEF StartIndexBlock
<1>1. PICK job \in Job : /\ job = Head(queue)
                         /\ job.kind = "index"
                         /\ JobOK(job)
  BY <1>0, TakenJob
<1>2. PICK b \in job.blocks :
        LET e == GetEventsByHeight(height[b])
        IN  /\ eventCache' \in IF e = NoBlock THEN {eventCache}
                               ELSE CacheAfter(height[b], e)
            /\ \/ /\ e # NoBlock
                  /\ workers' = [workers EXCEPT ![w] =
                       [pc |-> "totals", job |-> job, events |-> e, kv |-> 0,
                        expired |-> FALSE]]
                  /\ queue' = Tail(queue)
                  /\ failed' = failed
               \/ /\ queue' = Retry(Tail(queue), job)
                  /\ failed' = failed \cup Exhausted(job)
                  /\ workers' = workers
  BY <1>1, Zenon DEF StartIndexBlock
<1>3. b \in Block /\ height[b] \in Height
  BY <1>1, <1>2, BlockAssumption DEF Job, Height
<1>4. PICK e \in Maybe : e = GetEventsByHeight(height[b])
  BY <1>3 DEF GetEventsByHeight, IndexInv, TypeOK
<1>5. eventCache' \in [Height -> Maybe]
  BY <1>2, <1>3, <1>4, CacheType DEF IndexInv, TypeOK
<1>6. CASE /\ queue' = Retry(Tail(queue), job)
           /\ failed' = failed \cup Exhausted(job)
           /\ workers' = workers
  <2>1. queue' \in Seq(Job) /\ failed' \subseteq Job
    <3>1. failed \subseteq Job
      BY DEF IndexInv, TypeOK
    <3> QED BY <1>0, <1>1, <1>6, <3>1, TakenJob, RetryJobs
  <2>2. TypeOK'
    BY <1>5, <1>6, <2>1 DEF IndexInv, TypeOK, StartIndexBlock
  <2> QED BY <1>0, <1>1, <1>6, <2>2, RequeueStep
<1>7. CASE /\ e # NoBlock
           /\ workers' = [workers EXCEPT ![w] =
                [pc |-> "totals", job |-> job, events |-> e, kv |-> 0,
                 expired |-> FALSE]]
           /\ queue' = Tail(queue)
           /\ failed' = failed
  <2> DEFINE run == [pc |-> "totals", job |-> job, events |-> e, kv |-> 0,
                     expired |-> FALSE]
  <2>1. run \in Running /\ run.job = job
    BY <1>7 DEF Running, Maybe
  <2>2. workers \in [Worker -> Running \cup {Idle}] /\ workers' = [workers EXCEPT ![w] = run]
    BY <1>7 DEF IndexInv, TypeOK
  <2> HIDE DEF run
  <2>3. workers' \in [Worker -> Running \cup {Idle}]
    BY <2>1, <2>2
  <2>4. TypeOK'
    BY <1>0, <1>5, <1>7, <2>3, TakenJob DEF IndexInv, TypeOK, StartIndexBlock
  <2>5. Frame
    BY <1>0 DEF Frame, IndexInv, TypeOK
  <2>6. QueueOK'
    <3>1. \A i \in 1..Len(queue') : \E j \in 1..Len(queue) : SameWork(queue'[i], queue[j])
      BY <1>0, <1>7, TakenJob DEF SameWork
    <3> QED BY <2>4, <2>5, <3>1, QueueKept DEF IndexInv
  <2>7. WorkersOK'
    <3>1. JobOK(job)'
      BY <1>0, <1>1, Zenon DEF JobOK, TxsIndexed
    <3>2. \A v \in Worker : v # w => workers'[v] = workers[v]
      BY <2>2
    <3>3. workers'[w].job = job
      BY <2>1, <2>2
    <3>4. ASSUME NEW v \in Worker, workers'[v] # Idle
          PROVE  \/ workers[v] # Idle /\ workers'[v].job = workers[v].job
                 \/ workers'[v].job.kind = "index" /\ JobOK(workers[v].job)'
      <4>1. CASE v = w
        BY <1>1, <3>1, <3>3, <4>1 DEF JobOK, TxsIndexed
      <4>2. CASE v # w
        BY <3>2, <3>4, <4>2
      <4> QED BY <4>1, <4>2
    <3> QED BY <2>4, <2>5, <3>4, WorkersKept DEF IndexInv
  <2>8. NodeOK' /\ EventsOK'
    BY <1>0, Zenon DEF IndexInv, NodeOK, EventsOK
  <2> QED BY <1>0, <2>4, <2>5, <2>6, <2>7, <2>8, RowsKept DEF IndexInv
<1> QED BY <1>2, <1>4, <1>6, <1>7

\* What a running worker holds.
LEMMA RunningJob ==
  ASSUME IndexInv, NEW w \in Worker, workers[w] # Idle
  PROVE  /\ workers[w] \in Running
         /\ workers[w].job \in Job
         /\ workers[w].job.kind = "index"
         /\ JobOK(workers[w].job)
BY DEF IndexInv, TypeOK, WorkersOK, Running

\* Steps of one running worker that keep its job or finish it, retrying it or
\* not, and leave the tables alone.
LEMMA WorkerOnlyStep ==
  ASSUME IndexInv, NEW w \in Worker, workers[w] # Idle, TypeOK',
         \A v \in Worker : v # w => workers'[v] = workers[v],
         workers'[w] = Idle \/ workers'[w].job = workers[w].job,
         queue' = queue \/ queue' = Retry(queue, workers[w].job),
         UNCHANGED <<chain, seen, finalized, rowBlock, rowFinal, txRows,
                     eventsQueue, evt, finalizedHeight>>
  PROVE  IndexInv'
<1>1. Frame
  BY DEF Frame, IndexInv, TypeOK
<1>2. WorkersOK'
  BY <1>1, WorkersKept DEF IndexInv
<1>3. QueueOK'
  <2>1. CASE queue' = queue
    BY <2>1, <1>1, QueueKept DEF IndexInv, SameWork
  <2>2. CASE queue' = Retry(queue, workers[w].job)
    <3>1. PICK job \in Job : job = workers[w].job /\ JobOK(job)
      BY RunningJob
    <3>2. queue \in Seq(Job)
      BY DEF IndexInv, TypeOK
    <3>3. \A i \in 1..Len(queue') :
            \/ \E j \in 1..Len(queue) : queue'[i] = queue[j]
            \/ SameWork(queue'[i], job)
      BY <2>2, <3>1, <3>2, RetryJobs DEF SameWork
    <3>4. ASSUME NEW i \in 1..Len(queue'), SameWork(queue'[i], job)
          PROVE  JobOK(queue[i])'
      <4>1. queue'[i] \in Job
        BY DEF TypeOK
      <4> QED BY <1>1, <3>1, <3>4, <4>1, JobKept DEF JobOK, TxsIndexed, IndexInv
    <3> QED BY <1>1, <3>3, <3>4, QueueKept DEF SameWork, IndexInv
  <2> QED BY <2>1, <2>2
<1>4. NodeOK' /\ EventsOK'
  BY Zenon DEF IndexInv, NodeOK, EventsOK
<1> QED BY <1>1, <1>2, <1>3, <1>4, RowsKept DEF IndexInv

\* Reading the locked total changes nothing the invariant speaks of.
LEMMA ReadTotalLockedStep ==
  ASSUME IndexInv, NEW w \in Worker, ReadTotalLocked(w) PROVE IndexInv'
<1>1. workers[w] # Idle
  BY DEF ReadTotalLocked, Idle
<1>2. workers[w] \in Running /\ workers \in [Worker -> Running \cup {Idle}]
      /\ totalLocked \in Int
  BY <1>1, RunningJob DEF IndexInv, TypeOK
<1>3. /\ workers' = [workers EXCEPT ![w].pc = "commit", ![w].kv = totalLocked]
      /\ UNCHANGED <<chain, seen, finalized, rowBlock, rowFinal, txRows, queue,
                     eventsQueue, evt, finalizedHeight>>
  BY DEF ReadTotalLocked
<1>4. workers'[w].job = workers[w].job
      /\ \A v \in Worker : v # w => workers'[v] = workers[v]
  BY <1>2, <1>3 DEF Running
<1>5. workers' \in [Worker -> Running \cup {Idle}]
  <2> DEFINE Bool == BOOLEAN
             R == [pc : {"totals", "commit"}, job : Job, events : Block, kv : Int,
                   expired : Bool]
  <2>1. R = Running
    BY Zenon DEF Running
  <2> HIDE DEF Bool
  <2> QED BY <1>2, <1>3, <2>1
<1>6. TypeOK'
  BY <1>5 DEF IndexInv, TypeOK, ReadTotalLocked
<1> QED BY <1>1, <1>3, <1>4, <1>6, WorkerOnlyStep

\* A rolled back job leaves no trace in the tables and is retried at most once.
LEMMA RollbackIndexBlockStep ==
  ASSUME IndexInv, NEW w \in Worker, RollbackIndexBlock(w) PROVE IndexInv'
<1>1. workers[w] # Idle /\ workers \in [Worker -> Running \cup {Idle}]
  BY DEF RollbackIndexBlock, IndexInv, TypeOK
<1>2. /\ workers' = [workers EXCEPT ![w] = Idle]
      /\ \/ queue' = queue /\ failed' = failed
         \/ /\ queue' = Retry(queue, workers[w].job)
            /\ failed' = failed \cup Exhausted(workers[w].job)
      /\ UNCHANGED <<chain, seen, finalized, rowBlock, rowFinal, txRows,
                     eventsQueue, evt, finalizedHeight>>
  BY Zenon DEF RollbackIndexBlock
<1>3. queue' \in Seq(Job) /\ failed' \subseteq Job
  <2>1. queue \in Seq(Job) /\ failed \subseteq Job
    BY DEF IndexInv, TypeOK
  <2> QED BY <1>1, <1>2, <2>1, RunningJob, RetryJobs
<1>4. faults' \in 0..MaxFaults
  <2>1. faults \in 0..MaxFaults /\ faults < MaxFaults /\ faults' = faults + 1
    BY DEF RollbackIndexBlock, IndexInv, TypeOK
  <2> QED BY <2>1, BoundAssumption
<1>5. workers' \in [Worker -> Running \cup {Idle}]
  BY <1>1, <1>2
<1>6. TypeOK'
  BY <1>3, <1>4, <1>5 DEF IndexInv, TypeOK, RollbackIndexBlock
<1>7. workers'[w] = Idle /\ \A v \in Worker : v # w => workers'[v] = workers[v]
  BY <1>1, <1>2
<1> QED BY <1>1, <1>2, <1>6, <1>7, WorkerOnlyStep

\* A timed out job is retried while its execution goes on: both are valid.
LEMMA TimeoutIndexBlockStep ==
  ASSUME IndexInv, NEW w \in Worker, TimeoutIndexBlock(w) PROVE IndexInv'
<1>1. workers[w] # Idle /\ workers \in [Worker -> Running \cup {Idle}]
  BY DEF TimeoutIndexBlock, IndexInv, TypeOK
<1>2. /\ workers' = [workers EXCEPT ![w].expired = TRUE]
      /\ queue' = Retry(queue, workers[w].job)
      /\ failed' = failed \cup Exhausted(workers[w].job)
      /\ UNCHANGED <<chain, seen, finalized, rowBlock, rowFinal, txRows,
                     eventsQueue, evt, finalizedHeight>>
  BY DEF TimeoutIndexBlock
<1>3. queue' \in Seq(Job) /\ failed' \subseteq Job
  <2>1. queue \in Seq(Job) /\ failed \subseteq Job
    BY DEF IndexInv, TypeOK
  <2> QED BY <1>1, <1>2, <2>1, RunningJob, RetryJobs
<1>4. faults' \in 0..MaxFaults
  <2>1. faults \in 0..MaxFaults /\ faults < MaxFaults /\ faults' = faults + 1
    BY DEF TimeoutIndexBlock, IndexInv, TypeOK
  <2> QED BY <2>1, BoundAssumption
<1>5. /\ workers' \in [Worker -> Running \cup {Idle}]
      /\ workers'[w].job = workers[w].job
      /\ \A v \in Worker : v # w => workers'[v] = workers[v]
  <2> DEFINE Bool == BOOLEAN
             yes == TRUE
             R == [pc : {"totals", "commit"}, job : Job, events : Block, kv : Int,
                   expired : Bool]
  <2>1. R = Running /\ yes \in Bool
    BY Zenon DEF Running
  <2>2. workers' = [workers EXCEPT ![w].expired = yes]
    BY <1>2
  <2>3. workers[w] \in R
    BY <1>1, <2>1, RunningJob
  <2> HIDE DEF Bool, yes
  <2> QED BY <1>1, <2>1, <2>2, <2>3
<1>6. TypeOK'
  BY <1>3, <1>4, <1>5 DEF IndexInv, TypeOK, TimeoutIndexBlock
<1> QED BY <1>1, <1>2, <1>5, <1>6, WorkerOnlyStep

\* A failed update job is retried unchanged.
LEMMA FailUpdateStep ==
  ASSUME IndexInv, NEW w \in Worker, FailUpdate(w) PROVE IndexInv'
<1>1. /\ Takes(w, "update")
      /\ queue' = Retry(Tail(queue), Head(queue))
      /\ failed' = failed \cup Exhausted(Head(queue))
      /\ UNCHANGED <<chain, seen, finalized, workers, rowBlock, rowFinal, txRows,
                     eventsQueue, evt, finalizedHeight>>
  BY DEF FailUpdate
<1>2. queue' \in Seq(Job) /\ failed' \subseteq Job
  <2>1. failed \subseteq Job
    BY DEF IndexInv, TypeOK
  <2> QED BY <1>1, <2>1, TakenJob, RetryJobs
<1>3. faults' \in 0..MaxFaults
  <2>1. faults \in 0..MaxFaults /\ faults < MaxFaults /\ faults' = faults + 1
    BY DEF FailUpdate, IndexInv, TypeOK
  <2> QED BY <2>1, BoundAssumption
<1>4. TypeOK'
  BY <1>2, <1>3 DEF IndexInv, TypeOK, FailUpdate
<1> QED BY <1>1, <1>4, RequeueStep

\* deleteIndexedBlocks throws before it changes a table.
LEMMA DeleteIndexedBlocksStep ==
  ASSUME IndexInv, NEW w \in Worker, DeleteIndexedBlocks(w) PROVE IndexInv'
<1>1. /\ \E kind \in {"delete", "deleteById"} : Takes(w, kind)
      /\ \/ queue' = Tail(queue) /\ failed' = failed
         \/ /\ queue' = Retry(Tail(queue), Head(queue))
            /\ failed' = failed \cup Exhausted(Head(queue))
      /\ UNCHANGED <<chain, seen, finalized, workers, rowBlock, rowFinal, txRows,
                     eventsQueue, evt, finalizedHeight>>
  BY DEF DeleteIndexedBlocks
<1>2. PICK kind \in {"delete", "deleteById"} : Takes(w, kind)
  BY <1>1
<1>3. queue' \in Seq(Job) /\ failed' \subseteq Job
  <2>1. failed \subseteq Job
    BY DEF IndexInv, TypeOK
  <2> QED BY <1>1, <1>2, <2>1, TakenJob, RetryJobs
<1>4. eventCache' \in [Height -> Maybe]
  <2>1. eventCache \in [Height -> Maybe]
    BY DEF IndexInv, TypeOK
  <2>2. ASSUME NEW b \in Head(queue).blocks,
               LET e == GetEventsByHeight(height[b])
               IN  eventCache' \in IF e = NoBlock THEN {eventCache}
                                   ELSE CacheAfter(height[b], e)
        PROVE  eventCache' \in [Height -> Maybe]
    <3>1. Head(queue) \in Job
      BY <1>2, TakenJob
    <3>2. height[b] \in Height
      BY <3>1, BlockAssumption DEF Job, Height
    <3>3. PICK e \in Maybe : e = GetEventsByHeight(height[b])
      BY <3>2 DEF GetEventsByHeight, IndexInv, TypeOK
    <3> QED BY <2>1, <2>2, <3>2, <3>3, CacheType
  <2>3. \/ eventCache' = eventCache
        \/ \E b \in Head(queue).blocks :
             LET e == GetEventsByHeight(height[b])
             IN  eventCache' \in IF e = NoBlock THEN {eventCache}
                                 ELSE CacheAfter(height[b], e)
    BY Zenon DEF DeleteIndexedBlocks
  <2> QED BY <2>1, <2>2, <2>3
<1>5. TypeOK'
  BY <1>3, <1>4 DEF IndexInv, TypeOK, DeleteIndexedBlocks
<1> QED BY <1>1, <1>2, <1>5, RequeueStep

\* The transaction of indexBlock writes the row and its transactions together.
LEMMA CommitIndexBlockStep ==
  ASSUME IndexInv, NEW w \in Worker, CommitIndexBlock(w) PROVE IndexInv'
<1>0. workers[w] # Idle
  BY DEF CommitIndexBlock, Idle
<1>1. PICK job \in Job : /\ job = workers[w].job
                         /\ job.kind = "index"
                         /\ JobOK(job)
  BY <1>0, RunningJob
<1>2. PICK e \in Block : e = workers[w].events
  BY <1>0, RunningJob DEF Running
<1>3. PICK b \in job.blocks :
        /\ rowBlock' = [rowBlock EXCEPT ![height[b]] = b]
        /\ rowFinal' = [rowFinal EXCEPT ![height[b]] = job.isFinal]
        /\ txRows' = [t \in Tx |-> IF t \in txs[b] THEN b ELSE txRows[t]]
        /\ eventRows' = eventRows \cup {e}
        /\ generatedBlocks' = [generatedBlocks EXCEPT ![generator[b]] = @ + 1]
        /\ totalLocked' = IF locked[e] = 0 THEN totalLocked
                          ELSE workers[w].kv + locked[e]
  BY <1>1, <1>2, Zenon DEF CommitIndexBlock
<1>4. /\ workers' = [workers EXCEPT ![w] = Idle]
      /\ UNCHANGED <<chain, seen, finalized, queue, eventsQueue, evt, finalizedHeight>>
  BY DEF CommitIndexBlock
<1>5. /\ b \in Block /\ b # NoBlock /\ b \in seen
      /\ height[b] \in Height /\ height[b] \in Nat
      /\ job.isFinal \in BOOLEAN
      /\ (job.isFinal => height[b] <= finalized)
  <2>1. b \in Block /\ job.isFinal \in BOOLEAN
    BY <1>3 DEF Job
  <2>2. b \in seen /\ (job.isFinal => height[b] <= finalized)
    BY <1>1, <1>3, Zenon DEF JobOK
  <2> QED BY <2>1, <2>2, BlockAssumption DEF Height
<1>6. TypeOK'
  <2>1. /\ rowBlock \in [Height -> Maybe] /\ rowFinal \in [Height -> BOOLEAN]
        /\ txRows \in [Tx -> Maybe] /\ eventRows \subseteq Block
        /\ generatedBlocks \in [Generator -> Nat] /\ totalLocked \in Int
        /\ workers \in [Worker -> Running \cup {Idle}]
    BY DEF IndexInv, TypeOK
  <2>2. rowBlock' \in [Height -> Maybe] /\ txRows' \in [Tx -> Maybe]
        /\ eventRows' \subseteq Block
    BY <1>2, <1>3, <1>5, <2>1 DEF Maybe
  <2>3. rowFinal' \in [Height -> BOOLEAN]
    <3> DEFINE Bool == BOOLEAN
    <3>1. rowFinal \in [Height -> Bool] /\ job.isFinal \in Bool
      BY <1>5, <2>1
    <3> HIDE DEF Bool
    <3>2. rowFinal' \in [Height -> Bool]
      BY <1>3, <3>1
    <3> QED BY <3>2 DEF Bool
  <2>4. generatedBlocks' \in [Generator -> Nat]
    <3>1. generator[b] \in Generator
      BY <1>5, BlockAssumption
    <3> QED BY <1>3, <2>1, <3>1
  <2>5. totalLocked' \in Int
    <3>1. locked[e] \in Int /\ workers[w].kv \in Int
      BY <1>0, BlockAssumption, RunningJob DEF Running
    <3> QED BY <1>3, <2>1, <3>1
  <2>6. workers' \in [Worker -> Running \cup {Idle}]
    BY <1>4, <2>1
  <2> QED BY <2>2, <2>3, <2>4, <2>5, <2>6 DEF IndexInv, TypeOK, CommitIndexBlock
<1>7. Frame
  BY <1>3, <1>4, <1>5 DEF Frame, IndexInv, TypeOK
<1>8. NodeOK' /\ EventsOK'
  BY <1>4, Zenon DEF IndexInv, NodeOK, EventsOK
<1>9. QueueOK'
  BY <1>4, <1>6, <1>7, QueueKept DEF IndexInv, SameWork
<1>10. WorkersOK'
  <2>1. workers \in [Worker -> Running \cup {Idle}]
    BY DEF IndexInv, TypeOK
  <2>2. \A v \in Worker : workers'[v] # Idle => workers'[v] = workers[v]
    BY <1>4, <2>1
  <2> QED BY <1>6, <1>7, <2>2, WorkersKept DEF IndexInv
<1>11. RowsOnceOnChain'
  BY <1>3, <1>4, <1>5 DEF IndexInv, RowsOnceOnChain, TypeOK
<1>12. FinalRowsAreFinalized'
  <2> SUFFICES ASSUME NEW h \in Height, rowFinal'[h]
               PROVE  rowBlock'[h] # NoBlock /\ h <= finalized
    BY <1>4, Zenon DEF FinalRowsAreFinalized
  <2>1. CASE h = height[b]
    <3>1. rowFinal'[h] = job.isFinal /\ rowBlock'[h] = b
      BY <1>3, <1>5, <2>1 DEF IndexInv, TypeOK
    <3> QED BY <1>5, <2>1, <3>1
  <2>2. CASE h # height[b]
    <3>1. rowFinal'[h] = rowFinal[h] /\ rowBlock'[h] = rowBlock[h]
      BY <1>3, <2>2 DEF IndexInv, TypeOK
    <3> QED BY <3>1, Zenon DEF IndexInv, FinalRowsAreFinalized
  <2> QED BY <2>1, <2>2
<1>13. RowsHaveTransactions'
  <2> SUFFICES ASSUME NEW h \in Height, rowBlock'[h] # NoBlock,
                      NEW t \in txs[rowBlock'[h]]
               PROVE  txRows'[t] # NoBlock
    BY DEF RowsHaveTransactions
  <2>1. CASE h = height[b]
    <3>1. rowBlock'[h] = b
      BY <1>3, <2>1 DEF IndexInv, TypeOK
    <3> QED BY <1>3, <1>5, <3>1, BlockAssumption
  <2>2. CASE h # height[b]
    <3>1. rowBlock'[h] = rowBlock[h] /\ rowBlock[h] \in Block
      BY <1>3, <2>2 DEF IndexInv, TypeOK, Maybe
    <3>2. t \in Tx /\ txRows[t] # NoBlock
      BY <3>1, BlockAssumption DEF IndexInv, RowsHaveTransactions
    <3> QED BY <1>7, <3>2 DEF Frame
  <2> QED BY <2>1, <2>2
<1> QED BY <1>6, <1>8, <1>9, <1>10, <1>11, <1>12, <1>13 DEF IndexInv

\* updateBlockIndex writes rows that were in the table before, at their heights,
\* all of them finalized by now.
LEMMA UpdateBlockIndexStep ==
  ASSUME IndexInv, NEW w \in Worker, UpdateBlockIndex(w) PROVE IndexInv'
<1>0. Takes(w, "update")
  BY DEF UpdateBlockIndex
<1>1. PICK job \in Job : /\ job = Head(queue)
                         /\ job.kind = "update"
                         /\ JobOK(job)
  BY <1>0, TakenJob
<1> DEFINE at == {height[b] : b \in job.blocks}
<1>2. /\ rowBlock' = [h \in Height |->
           IF h \in at THEN CHOOSE b \in job.blocks : height[b] = h ELSE rowBlock[h]]
      /\ rowFinal' = [h \in Height |-> h \in at \/ rowFinal[h]]
      /\ queue' = Tail(queue)
      /\ UNCHANGED <<chain, seen, finalized, workers, eventsQueue, evt,
                     finalizedHeight, txRows>>
  BY <1>1 DEF UpdateBlockIndex
<1>3. job.blocks \subseteq Block
  BY DEF Job
<1>4. \A b \in job.blocks : b \in seen /\ height[b] <= finalized /\ TxsIndexed(b)
  BY <1>1, Zenon DEF JobOK
<1>5. \A h \in Height : h \in at =>
        /\ rowBlock'[h] \in job.blocks
        /\ height[rowBlock'[h]] = h
  BY <1>2
<1>6. \A h \in Height : h \notin at => rowBlock'[h] = rowBlock[h]
  BY <1>2
<1>7. rowBlock' \in [Height -> Maybe]
  <2>1. rowBlock \in [Height -> Maybe]
    BY DEF IndexInv, TypeOK
  <2>2. \A h \in Height : rowBlock'[h] \in Maybe
    BY <1>3, <1>5, <1>6, <2>1 DEF Maybe
  <2> HIDE DEF at
  <2> QED BY <1>2, <2>2
<1> HIDE DEF at
<1>8. TypeOK'
  <2>1. rowFinal' \in [Height -> BOOLEAN]
    BY <1>2
  <2> QED BY <1>0, <1>2, <1>7, <2>1, TakenJob DEF IndexInv, TypeOK, UpdateBlockIndex
<1>9. Frame
  BY <1>2 DEF Frame, IndexInv, TypeOK
<1>10. NodeOK' /\ EventsOK'
  BY <1>2, Zenon DEF IndexInv, NodeOK, EventsOK
<1>11. QueueOK'
  <2>1. \A i \in 1..Len(queue') : \E j \in 1..Len(queue) : SameWork(queue'[i], queue[j])
    BY <1>0, <1>2, TakenJob DEF SameWork
  <2> QED BY <1>8, <1>9, <2>1, QueueKept DEF IndexInv
<1>12. WorkersOK'
  BY <1>2, <1>8, <1>9, WorkersKept DEF IndexInv
<1>13. RowsOnceOnChain'
  BY <1>2, <1>4, <1>5, <1>6 DEF IndexInv, RowsOnceOnChain
<1>14. FinalRowsAreFinalized'
  <2> SUFFICES ASSUME NEW h \in Height, rowFinal'[h]
               PROVE  rowBlock'[h] # NoBlock /\ h <= finalized
    BY <1>2, Zenon DEF FinalRowsAreFinalized
  <2>1. CASE h \in at
    BY <1>3, <1>4, <1>5, <2>1, BlockAssumption
  <2>2. CASE h \notin at
    <3>1. rowFinal[h]
      BY <1>2, <2>2
    <3> QED BY <1>6, <2>2, <3>1, Zenon DEF IndexInv, FinalRowsAreFinalized
  <2> QED BY <2>1, <2>2
<1>15. RowsHaveTransactions'
  BY <1>2, <1>4, <1>5, <1>6 DEF IndexInv, RowsHaveTransactions, TxsIndexed
<1> QED BY <1>8, <1>10, <1>11, <1>12, <1>13, <1>14, <1>15 DEF IndexInv
-----------------------------------------------------------------------------
(***************************************************************************)
(* The restart of the indexer.                                             *)
(***************************************************************************)
\* A restart empties the caches and puts the running jobs back in the queue.
LEMMA CrashStep == IndexInv /\ Crash => IndexInv'
<1> SUFFICES ASSUME IndexInv, Crash PROVE IndexInv'
  OBVIOUS
<1>1. PICK n \in Nat : n = Cardinality(Busy)
  <2>1. IsFiniteSet(Busy)
    BY BoundAssumption, FS_Subset DEF Busy
  <2> QED BY <2>1, FS_CardinalityType
<1>2. PICK stalled : stalled \in StalledJobs /\ queue' = stalled \o queue
  BY DEF Crash
<1>3. PICK p \in [1..n -> Busy] : stalled = [i \in 1..n |-> workers[p[i]].job]
  BY <1>1, <1>2 DEF StalledJobs
<1>4. \A i \in 1..n : /\ workers[p[i]].job \in Job
                      /\ JobOK(workers[p[i]].job)
  <2> SUFFICES ASSUME NEW i \in 1..n
               PROVE  workers[p[i]].job \in Job /\ JobOK(workers[p[i]].job)
    OBVIOUS
  <2>1. p[i] \in Worker /\ workers[p[i]] # Idle
    BY <1>3 DEF Busy
  <2> QED BY <2>1, RunningJob
<1>5. stalled \in Seq(Job) /\ Len(stalled) = n
      /\ \A i \in 1..n : stalled[i] \in Job /\ JobOK(stalled[i])
  <2>1. stalled \in [1..n -> Job]
    BY <1>3, <1>4
  <2>2. \A i \in 1..n : stalled[i] = workers[p[i]].job
    BY <1>3
  <2>3. \A i \in 1..n : JobOK(stalled[i])
    BY <1>4, <2>2
  <2> QED BY <2>1, <2>3
<1>6. queue \in Seq(Job)
  BY DEF IndexInv, TypeOK
<1>7. /\ workers' = [w \in Worker |-> Idle]
      /\ evt' = NoEvent
      /\ finalizedHeight' = -1
      /\ eventCache' = [h \in Height |-> NoBlock]
      /\ UNCHANGED <<chain, seen, finalized, rowBlock, rowFinal, txRows>>
  BY DEF Crash
<1>8. eventsQueue' \in Seq(EventJob)
      /\ \A i \in 1..Len(eventsQueue') : eventsQueue'[i].block \in seen
  <2>1. eventsQueue \in Seq(EventJob)
        /\ \A i \in 1..Len(eventsQueue) : eventsQueue[i].block \in seen
    BY DEF IndexInv, TypeOK, EventsOK
  <2>2. CASE evt = NoEvent
    BY <2>1, <2>2 DEF Crash
  <2>3. CASE evt # NoEvent
    <3>1. evt.job \in EventJob /\ evt.job.block \in seen
      BY <2>3 DEF IndexInv, TypeOK, Processing, EventsOK
    <3>2. eventsQueue' = <<evt.job>> \o eventsQueue
      BY <2>3 DEF Crash
    <3>3. \A i \in 1..Len(eventsQueue') :
            eventsQueue'[i] = IF i = 1 THEN evt.job ELSE eventsQueue[i - 1]
      BY <2>1, <3>1, <3>2
    <3>4. eventsQueue' \in Seq(EventJob) /\ Len(eventsQueue') = Len(eventsQueue) + 1
      BY <2>1, <3>1, <3>2
    <3>5. ASSUME NEW i \in 1..Len(eventsQueue'), i # 1
          PROVE  i - 1 \in 1..Len(eventsQueue)
      BY <2>1, <3>4, <3>5
    <3> QED BY <2>1, <3>1, <3>3, <3>4, <3>5
  <2> QED BY <2>2, <2>3
<1>9. TypeOK'
  <2>1. queue' \in Seq(Job)
    BY <1>2, <1>5, <1>6
  <2>2. crashes' \in 0..MaxCrashes
    <3>1. crashes \in 0..MaxCrashes /\ crashes < MaxCrashes /\ crashes' = crashes + 1
      BY DEF Crash, IndexInv, TypeOK
    <3> QED BY <3>1, BoundAssumption
  <2>3. eventCache' \in [Height -> Maybe]
    BY <1>7 DEF Maybe
  <2> QED BY <1>7, <1>8, <2>1, <2>2, <2>3 DEF IndexInv, TypeOK, Crash
<1>10. Frame
  BY <1>7 DEF Frame, IndexInv, TypeOK
<1>11. NodeOK' /\ EventsOK' /\ WorkersOK'
  BY <1>7, <1>8 DEF IndexInv, NodeOK, EventsOK, WorkersOK, TypeOK
<1>12. QueueOK'
  <2>1. ASSUME NEW i \in 1..Len(queue'), i <= n PROVE JobOK(queue[i])'
    <3>1. queue'[i] = stalled[i] /\ i \in 1..n
      BY <1>1, <1>2, <1>5, <1>6, <2>1
    <3>2. stalled[i] \in Job /\ JobOK(stalled[i])
      BY <1>5, <3>1
    <3>3. SameWork(queue'[i], stalled[i])
      BY <3>1 DEF SameWork
    <3> QED BY <1>9, <1>10, <3>1, <3>2, <3>3, JobKept DEF JobOK, TxsIndexed, IndexInv
  <2>2. ASSUME NEW i \in 1..Len(queue'), ~(i <= n)
        PROVE  \E j \in 1..Len(queue) : SameWork(queue'[i], queue[j])
    <3>1. i - n \in 1..Len(queue) /\ queue'[i] = queue[i - n]
      BY <1>1, <1>2, <1>5, <1>6, <2>2
    <3> QED BY <3>1 DEF SameWork
  <2> QED BY <1>9, <1>10, <2>1, <2>2, QueueKept DEF IndexInv
<1> QED BY <1>7, <1>9, <1>10, <1>11, <1>12, RowsKept DEF IndexInv
-----------------------------------------------------------------------------
\* A step that changes nothing keeps the invariant.
LEMMA Stutter == IndexInv /\ UNCHANGED vars => IndexInv'
BY Zenon DEF vars, IndexInv, TypeOK, NodeOK, QueueOK, WorkersOK, EventsOK, JobOK,
   TxsIndexed, RowsOnceOnChain, FinalRowsAreFinalized, RowsHaveTransactions

\* IndexInv is inductive: it holds in every reachable state of the index, for
\* any tree of blocks, any number of workers and any number of faults, crashes
\* and re-indexing requests.
THEOREM IndexInvariant == Spec => []IndexInv
<1>1. IndexInv /\ [Next]_vars => IndexInv'
  BY NodeStep, FetchNewBlockStep, LookupBlockStep, UpdateFinalityStep, RemoveForkStep,
     ProcessDeleteBlockStep, FailEventStep, FailDeleteBlockStep, UpdateFinalizedHeightStep,
     AddBlockToQueueStep, StartIndexBlockStep, ReadTotalLockedStep,
     CommitIndexBlockStep, RollbackIndexBlockStep, TimeoutIndexBlockStep,
     FailUpdateStep, UpdateBlockIndexStep, DeleteIndexedBlocksStep, CrashStep, Stutter
  DEF Next, EventProcessor, WorkerStep, JobFailure
<1> QED BY <1>1, Initial, PTL DEF Spec

\* The state of the index is well typed.
THEOREM TypeCorrect == Spec => []TypeOK
BY IndexInvariant, PTL DEF IndexInv

\* Whatever jobs, retries and stale snapshots wrote a row, it holds a block of
\* its height that the node had on its chain (indexBlock, updateBlockIndex).
THEOREM RowsComeFromChain == Spec => []RowsOnceOnChain
BY IndexInvariant, PTL DEF IndexInv

\* isFinal is never set above the node's finalized height (indexNewBlock,
\* normalizeBlock, updateBlockIndex).
THEOREM FinalityIsNeverAhead == Spec => []FinalRowsAreFinalized
BY IndexInvariant, PTL DEF IndexInv

\* A block's row never appears without its transactions (indexBlock's database
\* transaction), also when the row is written back by updateBlockIndex.
THEOREM IndexingIsAtomic == Spec => []RowsHaveTransactions
BY IndexInvariant, PTL DEF IndexInv
-----------------------------------------------------------------------------
(***************************************************************************)
(* The count of each generator's blocks.  The finality update may write an *)
(* old row back, whose block was counted when it was first committed: the  *)
(* count covers every block that ever had a row, not only the present ones.*)
(***************************************************************************)
\* A set of counted blocks that holds every row and every row still to be written
\* back.
Covers(counted) ==
  /\ counted \subseteq Block /\ IsFiniteSet(counted)
  /\ \A h \in Height : rowBlock[h] # NoBlock => rowBlock[h] \in counted
  /\ \A i \in 1..Len(queue) : queue[i].kind = "update" => queue[i].blocks \subseteq counted
  /\ \A g \in Generator : Cardinality({b \in counted : generator[b] = g}) <= generatedBlocks[g]

CountInv == \E counted : Covers(counted)

\* What a finality update of the queue will write is what an older one would, or the
\* present rows.
UpdatesTraced ==
  \A i \in 1..Len(queue') : queue'[i].kind = "update" =>
    \/ \E j \in 1..Len(queue) : queue[j].kind = "update" /\ queue'[i].blocks = queue[j].blocks
    \/ queue'[i].blocks \subseteq NewlyFinalRows

LEMMA RequeueTraced ==
  ASSUME IndexInv, NEW w \in Worker, NEW kind, Takes(w, kind),
         queue' = Tail(queue) \/ queue' = Retry(Tail(queue), Head(queue))
  PROVE  UpdatesTraced
<1>1. CASE queue' = Tail(queue)
  BY <1>1, TakenJob DEF UpdatesTraced
<1>2. CASE queue' = Retry(Tail(queue), Head(queue))
  <2> DEFINE q == Tail(queue)
             job == Head(queue)
  <2>1. q \in Seq(Job) /\ job \in Job
    BY TakenJob
  <2>2. \A i \in 1..Len(queue') :
          \/ \E j \in 1..Len(q) : queue'[i] = q[j]
          \/ queue'[i].kind = job.kind /\ queue'[i].blocks = job.blocks
    BY <1>2, <2>1, RetryJobs
  <2> QED
    BY <2>2, TakenJob DEF UpdatesTraced
<1> QED
  BY <1>1, <1>2

\* A running job is no finality update.
LEMMA RetryRunningTraced ==
  ASSUME IndexInv, NEW w \in Worker, workers[w] # Idle,
         queue' = queue \/ queue' = Retry(queue, workers[w].job)
  PROVE  UpdatesTraced
<1>1. CASE queue' = queue
  BY <1>1 DEF UpdatesTraced
<1>2. CASE queue' = Retry(queue, workers[w].job)
  <2>1. queue \in Seq(Job) /\ workers[w].job \in Job /\ workers[w].job.kind = "index"
    BY RunningJob DEF IndexInv, TypeOK
  <2>2. \A i \in 1..Len(queue') :
          (\E j \in 1..Len(queue) : queue'[i] = queue[j]) \/ queue'[i].kind = "index"
    BY <1>2, <2>1, RetryJobs
  <2> QED
    BY <2>2 DEF UpdatesTraced
<1> QED
  BY <1>1, <1>2

LEMMA AppendTraced ==
  ASSUME IndexInv, NEW job, queue' = Append(queue, job),
         job.kind = "update" => job.blocks \subseteq NewlyFinalRows
  PROVE  UpdatesTraced
<1>1. queue \in Seq(Job)
  BY DEF IndexInv, TypeOK
<1>2. \A i \in 1..Len(queue') : (\E j \in 1..Len(queue) : queue'[i] = queue[j]) \/ queue'[i] = job
  <2>1. Len(queue') = Len(queue) + 1
    BY <1>1
  <2>2. \A i \in 1..Len(queue') : queue'[i] = IF i <= Len(queue) THEN queue[i] ELSE job
    BY <1>1
  <2> QED
    BY <1>1, <2>1, <2>2
<1> QED
  BY <1>2 DEF UpdatesTraced

LEMMA CrashTraced ==
  ASSUME IndexInv, Crash
  PROVE  UpdatesTraced
<1>1. PICK n \in Nat : n = Cardinality(Busy)
  <2>1. IsFiniteSet(Busy)
    BY BoundAssumption, FS_Subset DEF Busy
  <2> QED
    BY <2>1, FS_CardinalityType
<1>2. PICK stalled : stalled \in StalledJobs /\ queue' = stalled \o queue
  BY DEF Crash
<1>3. PICK p \in [1..n -> Busy] : stalled = [i \in 1..n |-> workers[p[i]].job]
  BY <1>1, <1>2 DEF StalledJobs
<1>4. ASSUME NEW i \in 1..n
      PROVE  workers[p[i]].job \in Job /\ workers[p[i]].job.kind = "index"
  <2>1. p[i] \in Worker /\ workers[p[i]] # Idle
    BY <1>3 DEF Busy
  <2> QED
    BY <2>1, RunningJob
<1>5. stalled \in Seq(Job) /\ Len(stalled) = n /\ \A i \in 1..n : stalled[i].kind = "index"
  <2>1. stalled \in [1..n -> Job]
    BY <1>3, <1>4
  <2>2. \A i \in 1..n : stalled[i] = workers[p[i]].job
    BY <1>3
  <2> QED
    BY <1>4, <2>1, <2>2
<1>6. queue \in Seq(Job)
  BY DEF IndexInv, TypeOK
<1>7. ASSUME NEW i \in 1..Len(queue')
      PROVE  queue'[i].kind = "index" \/ \E j \in 1..Len(queue) : queue'[i] = queue[j]
  <2>1. CASE i <= n
    <3>1. queue'[i] = stalled[i] /\ i \in 1..n
      BY <1>2, <1>5, <1>6, <2>1
    <3> QED
      BY <1>5, <3>1
  <2>2. CASE ~(i <= n)
    <3>1. i - n \in 1..Len(queue) /\ queue'[i] = queue[i - n]
      BY <1>2, <1>5, <1>6, <2>2
    <3> QED
      BY <3>1
  <2> QED
    BY <2>1, <2>2
<1> QED
  BY <1>7 DEF UpdatesTraced

\* Every step traces the finality updates.
LEMMA StepTraced ==
  ASSUME IndexInv, [Next]_vars
  PROVE  UpdatesTraced
<1>1. CASE UNCHANGED queue
  BY <1>1 DEF UpdatesTraced
<1>2. CASE Node
  <2>1. UNCHANGED queue
    BY <1>2 DEF Node, NodeNewBlock, NodeDeleteBlock, NodeFinalize, redisVars
  <2> QED
    BY <1>1, <2>1
<1>3. CASE FetchNewBlock \/ FailEvent \/ FailDeleteBlock \/ UpdateFinalizedHeight
  <2>1. UNCHANGED queue
    BY <1>3 DEF FetchNewBlock, FailEvent, FailDeleteBlock, UpdateFinalizedHeight,
                redisVars
  <2> QED
    BY <1>1, <2>1
<1>4. CASE LookupBlock
  BY <1>1, <1>4, AppendTraced DEF LookupBlock, NewJob
<1>5. CASE UpdateFinality
  BY <1>5, AppendTraced DEF UpdateFinality, NewJob
<1>6. CASE RemoveFork
  BY <1>6, AppendTraced DEF RemoveFork, NewJob
<1>7. CASE ProcessDeleteBlock
  BY <1>1, <1>7, AppendTraced DEF ProcessDeleteBlock, NewJob
<1>8. ASSUME NEW h \in Height, AddBlockToQueue(h)
      PROVE  UpdatesTraced
  BY <1>8, AppendTraced DEF AddBlockToQueue, NewJob
<1>9. ASSUME NEW w \in Worker, StartIndexBlock(w)
      PROVE  UpdatesTraced
  BY <1>9, RequeueTraced DEF StartIndexBlock
<1>10. ASSUME NEW w \in Worker, ReadTotalLocked(w) \/ CommitIndexBlock(w)
       PROVE  UpdatesTraced
  BY <1>1, <1>10 DEF ReadTotalLocked, CommitIndexBlock, redisVars
<1>11. ASSUME NEW w \in Worker, UpdateBlockIndex(w) \/ FailUpdate(w)
       PROVE  UpdatesTraced
  BY <1>11, RequeueTraced DEF UpdateBlockIndex, FailUpdate
<1>12. ASSUME NEW w \in Worker, DeleteIndexedBlocks(w)
       PROVE  UpdatesTraced
  BY <1>12, RequeueTraced DEF DeleteIndexedBlocks
<1>13. ASSUME NEW w \in Worker, RollbackIndexBlock(w) \/ TimeoutIndexBlock(w)
       PROVE  UpdatesTraced
  BY <1>13, RetryRunningTraced DEF RollbackIndexBlock, TimeoutIndexBlock
<1>14. CASE UNCHANGED vars
  BY <1>1, <1>14 DEF vars
<1> QED
  BY <1>2, <1>3, <1>4, <1>5, <1>6, <1>7, <1>8, <1>9, <1>10, <1>11, <1>12, <1>13, <1>14, CrashTraced
  DEF Next, EventProcessor, WorkerStep, JobFailure

\* What is counted covers the updates still to be done.
LEMMA UpdatesCovered ==
  ASSUME IndexInv, UpdatesTraced, NEW counted, Covers(counted)
  PROVE  \A i \in 1..Len(queue') : queue'[i].kind = "update" => queue'[i].blocks \subseteq counted
<1>1. NewlyFinalRows \subseteq counted
  BY DEF NewlyFinalRows, Covers
<1> QED
  BY <1>1 DEF UpdatesTraced, Covers

\* A committed block is counted, whether or not it was before.
LEMMA CommitCounted ==
  ASSUME IndexInv, NEW w \in Worker, CommitIndexBlock(w), NEW counted, Covers(counted),
         \A i \in 1..Len(queue') : queue'[i].kind = "update" => queue'[i].blocks \subseteq counted
  PROVE  CountInv'
<1>1. workers[w] # Idle
  BY DEF CommitIndexBlock, Idle
<1>2. PICK b \in workers[w].job.blocks :
        /\ rowBlock' = [rowBlock EXCEPT ![height[b]] = b]
        /\ generatedBlocks' = [generatedBlocks EXCEPT ![generator[b]] = @ + 1]
  BY DEF CommitIndexBlock
<1>3. b \in Block
  BY <1>1, <1>2, RunningJob DEF Job
<1> DEFINE more == counted \cup {b}
           Of(S, g) == {c \in S : generator[c] = g}
<1>4. more \subseteq Block /\ IsFiniteSet(more) /\ IsFiniteSet(counted) /\ counted \subseteq Block
  BY <1>3, FS_AddElement DEF Covers
<1>5. \A h \in Height : rowBlock'[h] # NoBlock => rowBlock'[h] \in more
  BY <1>2 DEF Covers, IndexInv, TypeOK
<1>6. \A i \in 1..Len(queue') : queue'[i].kind = "update" => queue'[i].blocks \subseteq more
  OBVIOUS
<1>7. ASSUME NEW g \in Generator
      PROVE  Cardinality(Of(more, g)) <= generatedBlocks'[g]
  <2>1. IsFiniteSet(Of(counted, g)) /\ Cardinality(Of(counted, g)) \in Nat
    <3>1. Of(counted, g) \in SUBSET counted
      OBVIOUS
    <3>2. IsFiniteSet(Of(counted, g))
      BY <1>4, <3>1, FS_Subset
    <3> HIDE DEF Of
    <3> QED
      BY <3>2, FS_CardinalityType
  <2>2. Cardinality(Of(counted, g)) <= generatedBlocks[g] /\ generatedBlocks[g] \in Nat
    BY DEF Covers, IndexInv, TypeOK
  <2>3. CASE generator[b] = g
    <3>1. Of(more, g) = Of(counted, g) \cup {b}
      BY <2>3
    <3>2. generatedBlocks'[g] = generatedBlocks[g] + 1
      BY <1>2, <2>3 DEF IndexInv, TypeOK
    <3> HIDE DEF Of, more
    <3>3. Cardinality(Of(more, g)) <= Cardinality(Of(counted, g)) + 1
      <4>1. Cardinality(Of(counted, g) \cup {b})
              = IF b \in Of(counted, g) THEN Cardinality(Of(counted, g))
                ELSE Cardinality(Of(counted, g)) + 1
        BY <2>1, FS_AddElement
      <4> QED
        BY <2>1, <3>1, <4>1
    <3>4. Cardinality(Of(more, g)) \in Nat
      <4>1. IsFiniteSet(Of(more, g))
        BY <2>1, <3>1, FS_AddElement
      <4> QED
        BY <4>1, FS_CardinalityType
    <3> QED
      BY <2>1, <2>2, <3>2, <3>3, <3>4
  <2>4. CASE generator[b] # g
    <3>1. Of(more, g) = Of(counted, g)
      BY <2>4
    <3>2. generatedBlocks'[g] = generatedBlocks[g]
      BY <1>2, <2>4 DEF IndexInv, TypeOK
    <3> HIDE DEF Of, more
    <3> QED
      BY <2>2, <3>1, <3>2
  <2> QED
    BY <2>3, <2>4
<1>8. Covers(more)'
  BY <1>4, <1>5, <1>6, <1>7 DEF Covers
<1> QED
  BY <1>8 DEF CountInv, Covers

\* The finality update writes back rows whose blocks are counted.
LEMMA UpdateCounted ==
  ASSUME IndexInv, NEW w \in Worker, UpdateBlockIndex(w), NEW counted, Covers(counted),
         \A i \in 1..Len(queue') : queue'[i].kind = "update" => queue'[i].blocks \subseteq counted
  PROVE  CountInv'
<1> DEFINE blocks == Head(queue).blocks
           at == {height[b] : b \in blocks}
           put(h) == CHOOSE b \in blocks : height[b] = h
<1>1. blocks \subseteq counted
  BY TakenJob DEF UpdateBlockIndex, Takes, Covers
<1>2. rowBlock' = [h \in Height |-> IF h \in at THEN put(h) ELSE rowBlock[h]]
  BY DEF UpdateBlockIndex
<1>3. \A h \in at : put(h) \in blocks
  OBVIOUS
<1>4. UNCHANGED generatedBlocks
  BY DEF UpdateBlockIndex
<1> HIDE DEF blocks, at, put
<1>5. \A h \in Height : rowBlock'[h] # NoBlock => rowBlock'[h] \in counted
  BY <1>1, <1>2, <1>3 DEF Covers
<1>6. Covers(counted)'
  BY <1>4, <1>5 DEF Covers
<1> QED
  BY <1>6 DEF CountInv, Covers

\* Every other step leaves the rows and the counts alone.
LEMMA OthersLeaveCounts ==
  ASSUME [Next]_vars
  PROVE  \/ UNCHANGED <<rowBlock, generatedBlocks>>
         \/ \E w \in Worker : CommitIndexBlock(w) \/ UpdateBlockIndex(w)
<1>1. CASE Node
  BY <1>1 DEF Node, NodeNewBlock, NodeDeleteBlock, NodeFinalize, tables
<1>2. CASE EventProcessor
  BY <1>2 DEF EventProcessor, FetchNewBlock, LookupBlock, UpdateFinality, RemoveFork,
              ProcessDeleteBlock, tables
<1>3. ASSUME NEW w \in Worker, WorkerStep(w)
      PROVE  UNCHANGED <<rowBlock, generatedBlocks>> \/ CommitIndexBlock(w) \/ UpdateBlockIndex(w)
  BY <1>3 DEF WorkerStep, StartIndexBlock, ReadTotalLocked, DeleteIndexedBlocks, tables
<1>4. ASSUME NEW w \in Worker, JobFailure(w)
      PROVE  UNCHANGED <<rowBlock, generatedBlocks>>
  BY <1>4 DEF JobFailure, RollbackIndexBlock, TimeoutIndexBlock, FailUpdate, tables
<1>5. ASSUME NEW h \in Height, AddBlockToQueue(h)
      PROVE  UNCHANGED <<rowBlock, generatedBlocks>>
  BY <1>5 DEF AddBlockToQueue, tables
<1>6. CASE UpdateFinalizedHeight \/ FailEvent \/ FailDeleteBlock \/ Crash
  BY <1>6 DEF UpdateFinalizedHeight, FailEvent, FailDeleteBlock, Crash, tables
<1>7. CASE UNCHANGED vars
  BY <1>7 DEF vars
<1> QED
  BY <1>1, <1>2, <1>3, <1>4, <1>5, <1>6, <1>7 DEF Next

\* Together with IndexInv, CountInv is inductive.
LEMMA CountInvariant == Spec => []CountInv
<1>1. Init => CountInv
  <2> SUFFICES ASSUME Init
               PROVE  Covers({})
    BY DEF CountInv
  <2>1. \A g \in Generator : {b \in {} : generator[b] = g} = {}
    OBVIOUS
  <2>2. IsFiniteSet({}) /\ Cardinality({}) = 0
    BY FS_EmptySet
  <2> QED
    BY <2>1, <2>2 DEF Init, Covers
<1>2. IndexInv /\ CountInv /\ [Next]_vars => CountInv'
  <2> SUFFICES ASSUME IndexInv, CountInv, [Next]_vars
               PROVE  CountInv'
    OBVIOUS
  <2>1. PICK counted : Covers(counted)
    BY DEF CountInv
  <2>2. \A i \in 1..Len(queue') : queue'[i].kind = "update" => queue'[i].blocks \subseteq counted
    BY <2>1, StepTraced, UpdatesCovered
  <2>3. CASE UNCHANGED <<rowBlock, generatedBlocks>>
    <3>1. Covers(counted)'
      BY <2>1, <2>2, <2>3 DEF Covers
    <3> QED
      BY <3>1 DEF CountInv, Covers
  <2> QED
    BY <2>1, <2>2, <2>3, OthersLeaveCounts, CommitCounted, UpdateCounted
<1> QED
  BY <1>1, <1>2, IndexInvariant, PTL DEF Spec

\* No indexed block is left out of its generator's generatedBlocks, whatever was
\* indexed twice, replaced by a fork or written back by the finality update
\* (indexBlock, updateBlockIndex).
THEOREM GeneratedBlocksCover == Spec => []GeneratedBlocksCoverRows
<1>1. IndexInv /\ CountInv => GeneratedBlocksCoverRows
  <2> SUFFICES ASSUME IndexInv, CountInv, NEW g \in Generator
               PROVE  Cardinality({h \in Height : rowBlock[h] # NoBlock /\ generator[rowBlock[h]] = g})
                        <= generatedBlocks[g]
    BY DEF GeneratedBlocksCoverRows
  <2>1. PICK counted : Covers(counted)
    BY DEF CountInv
  <2> DEFINE rows == {h \in Height : rowBlock[h] # NoBlock /\ generator[rowBlock[h]] = g}
             blocks == {b \in counted : generator[b] = g}
             at == [h \in rows |-> rowBlock[h]]
  <2>2. at \in Injection(rows, blocks)
    <3>1. \A h \in rows : at[h] \in blocks /\ height[at[h]] = h
      BY <2>1 DEF Covers, IndexInv, RowsOnceOnChain
    <3> QED
      BY <3>1 DEF Injection, IsInjective
  <2>3. IsFiniteSet(blocks)
    <3>1. blocks \in SUBSET counted /\ IsFiniteSet(counted)
      BY <2>1 DEF Covers
    <3> QED
      BY <3>1, FS_Subset
  <2>4. Cardinality(blocks) <= generatedBlocks[g] /\ generatedBlocks[g] \in Nat
    BY <2>1 DEF Covers, IndexInv, TypeOK
  <2> HIDE DEF rows, blocks, at
  <2>5. Cardinality(rows) <= Cardinality(blocks) /\ IsFiniteSet(rows)
    BY <2>2, <2>3, FS_Injection
  <2>6. Cardinality(rows) \in Nat /\ Cardinality(blocks) \in Nat
    BY <2>3, <2>5, FS_CardinalityType
  <2>7. Cardinality(rows) <= generatedBlocks[g]
    BY <2>4, <2>5, <2>6
  <2> QED
    BY <2>7 DEF rows
<1> QED
  BY <1>1, IndexInvariant, CountInvariant, PTL
-----------------------------------------------------------------------------
(***************************************************************************)
(* Refinement: the block index implements BlockArchive.                    *)
(***************************************************************************)
\* The index starts as an empty archive.
LEMMA ArchiveStart == Init => Archive!ArchiveInit
BY BlockAssumption DEF Init, Archive!ArchiveInit, Archive!Height, Height

\* A step of the node is one that the archive learns of.
LEMMA ArchiveLearns == IndexInv /\ Node => Archive!Learn
<1> SUFFICES ASSUME IndexInv, Node
             PROVE  Archive!Learn
  OBVIOUS
<1> USE BlockAssumption DEF IndexInv, TypeOK, Archive!Learn
<1>1. ASSUME NEW b \in Block, NodeNewBlock(b)
      PROVE  Archive!Learn
  BY <1>1 DEF NodeNewBlock, tables
<1>2. ASSUME NEW b \in Block, NodeDeleteBlock(b)
      PROVE  Archive!Learn
  BY <1>2 DEF NodeDeleteBlock, tables
<1>3. ASSUME NEW h \in Height, NodeFinalize(h)
      PROVE  Archive!Learn
  <2>1. Height \subseteq Nat
    BY DEF Height
  <2> QED BY <1>3, <2>1 DEF NodeFinalize, tables
<1> QED BY <1>1, <1>2, <1>3 DEF Node

\* A committed block is recorded.
LEMMA ArchiveRecords ==
  ASSUME NEW w \in Worker, IndexInv, CommitIndexBlock(w)
  PROVE  \E b \in Block : Archive!Record(b)
<1>1. /\ workers[w] # Idle
      /\ workers[w].job \in Job /\ workers[w].job.kind = "index" /\ JobOK(workers[w].job)
  BY DEF CommitIndexBlock, IndexInv, TypeOK, WorkersOK, Running, Idle
<1>2. PICK b \in workers[w].job.blocks :
        /\ rowBlock' = [rowBlock EXCEPT ![height[b]] = b]
        /\ rowFinal' = [rowFinal EXCEPT ![height[b]] = workers[w].job.isFinal]
  BY DEF CommitIndexBlock
<1>3. b \in Block /\ b \in seen
  BY <1>1 DEF JobOK, Job
<1>4. workers[w].job.isFinal \in BOOLEAN
  BY <1>1 DEF Job
<1>5. workers[w].job.isFinal => height[b] <= finalized
  BY <1>1 DEF JobOK
<1>6. UNCHANGED <<seen, finalized>>
  BY DEF CommitIndexBlock, nodeVars
<1>7. Archive!Record(b)
  BY <1>2, <1>3, <1>4, <1>5, <1>6 DEF Archive!Record
<1> QED BY <1>3, <1>7

\* The finality update confirms the heights of its job.
LEMMA ArchiveConfirms ==
  ASSUME NEW w \in Worker, IndexInv, UpdateBlockIndex(w)
  PROVE  \E H \in SUBSET Archive!Height : Archive!Confirm(H)
<1> DEFINE blocks == Head(queue).blocks
           at == {height[b] : b \in blocks}
           put(h) == CHOOSE b \in blocks : height[b] = h
<1>1. /\ Head(queue) \in Job
      /\ JobOK(Head(queue))
      /\ Head(queue).kind = "update"
  BY TakenJob DEF UpdateBlockIndex, Takes
<1>2. blocks \subseteq Block /\ blocks \subseteq seen /\ \A b \in blocks : height[b] <= finalized
  BY <1>1 DEF JobOK, Job
<1>3. at \subseteq Height
  BY <1>2 DEF Height
<1>4. \A h \in at : put(h) \in blocks /\ height[put(h)] = h
  OBVIOUS
<1>5. /\ rowBlock' = [h \in Height |-> IF h \in at THEN put(h) ELSE rowBlock[h]]
      /\ rowFinal' = [h \in Height |-> h \in at \/ rowFinal[h]]
      /\ UNCHANGED <<seen, finalized>>
  BY DEF UpdateBlockIndex, nodeVars
<1>6. rowBlock \in [Height -> Block \cup {NoBlock}]
  BY DEF IndexInv, TypeOK, Maybe
<1>7. Archive!Height = Height
  BY DEF Archive!Height, Height
<1> HIDE DEF blocks, put
<1>8. \A h \in at : h <= finalized
  BY <1>2
<1> HIDE DEF at
<1>9. \A h \in Height : IF h \in at THEN rowBlock'[h] \in seen /\ height[rowBlock'[h]] = h
                                    ELSE rowBlock'[h] = rowBlock[h]
  BY <1>2, <1>4, <1>5
<1>10. rowBlock' \in [Height -> Block \cup {NoBlock}]
  BY <1>2, <1>4, <1>5, <1>6
<1>11. Archive!Confirm(at)
  BY <1>5, <1>7, <1>8, <1>9, <1>10 DEF Archive!Confirm
<1> QED BY <1>3, <1>7, <1>11

\* The block index implements the archive: whatever its queues, retries,
\* timeouts, stale snapshots and restarts do, each of its steps records one
\* block of the chain at its height, marks heights that are final, or changes
\* nothing that a reader of the blocks table sees (indexBlock and
\* updateBlockIndex).
THEOREM IndexIsArchive == Spec => IsArchive
<1>1. IndexInv /\ [Next]_vars => [Archive!ArchiveNext]_(Archive!archiveVars)
  <2> SUFFICES ASSUME IndexInv, [Next]_vars
               PROVE  Archive!ArchiveNext \/ UNCHANGED Archive!archiveVars
    OBVIOUS
  <2>1. CASE Node
    BY <2>1, ArchiveLearns DEF Archive!ArchiveNext
  <2>2. ASSUME NEW w \in Worker, CommitIndexBlock(w)
        PROVE  Archive!ArchiveNext
    BY <2>2, ArchiveRecords DEF Archive!ArchiveNext
  <2>3. ASSUME NEW w \in Worker, UpdateBlockIndex(w)
        PROVE  Archive!ArchiveNext
    BY <2>3, ArchiveConfirms DEF Archive!ArchiveNext
  <2>4. CASE \/ EventProcessor \/ FailEvent \/ FailDeleteBlock
             \/ UpdateFinalizedHeight \/ Crash
             \/ UNCHANGED vars
             \/ \E h \in Height : AddBlockToQueue(h)
    BY <2>4 DEF Archive!archiveVars, vars, nodeVars, tables, EventProcessor, FetchNewBlock,
       LookupBlock, UpdateFinality, RemoveFork, ProcessDeleteBlock, FailEvent, FailDeleteBlock,
       UpdateFinalizedHeight, Crash, AddBlockToQueue
  <2>5. ASSUME NEW w \in Worker,
               \/ StartIndexBlock(w) \/ ReadTotalLocked(w) \/ DeleteIndexedBlocks(w)
               \/ JobFailure(w)
        PROVE  UNCHANGED Archive!archiveVars
    BY <2>5 DEF Archive!archiveVars, nodeVars, tables, StartIndexBlock, ReadTotalLocked,
       DeleteIndexedBlocks, JobFailure, RollbackIndexBlock, TimeoutIndexBlock, FailUpdate
  <2> QED BY <2>1, <2>2, <2>3, <2>4, <2>5 DEF Next, WorkerStep
<1> QED BY <1>1, ArchiveStart, IndexInvariant, PTL DEF Spec, IsArchive, Archive!ArchiveSpec
=============================================================================
