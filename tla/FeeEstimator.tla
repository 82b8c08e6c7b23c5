---------------------------- MODULE FeeEstimator ----------------------------
(***************************************************************************)
(* The fee-estimator service: newBlockListener and the two computations it *)
(* starts (shared/dynamicFees.js), checkAndProcessExecution and            *)
(* getEstimateFeePerByteForBatch (shared/utils/dynamicFees.js), and the    *)
(* estimate for one block (shared/utils/dynamicFeesLIP.js).                *)
(*                                                                         *)
(* Every new block starts a run in each enabled mode.  A run is named by   *)
(* its mode and by the height of the block that started it; its steps end  *)
(* at the awaited requests to the node and to Redis.                       *)
(*                                                                         *)
(* The moving average of the fees per byte is abstracted to what it        *)
(* depends on: the number of blocks folded into it since the last one      *)
(* without congestion, which resets it to zero.                            *)
(***************************************************************************)
EXTENDS Integers, FiniteSets

CONSTANTS
  Mode,                     \* the enabled modes: "full", "quick"
  GenesisHeight,
  MaxHeight,                \* bound: the highest block
  Congested,                \* the heights whose block is, or follows, full blocks
  DefaultStartBlockHeight,  \* config.feeEstimates.defaultStartBlockHeight
  ColdStartBatchSize,       \* config.feeEstimates.coldStartBatchSize
  EmaBatchSize,             \* config.feeEstimates.emaBatchSize
  MaxFaults                 \* bound: requests that fail

ASSUME FeeAssumption ==
  /\ Mode \subseteq {"full", "quick"}
  /\ GenesisHeight \in Nat
  /\ MaxHeight \in Nat
  /\ GenesisHeight <= MaxHeight
  /\ Congested \subseteq Nat
  /\ DefaultStartBlockHeight \in Nat
  /\ ColdStartBatchSize \in Nat
  /\ EmaBatchSize \in Nat \ {0}
  /\ MaxFaults \in Nat

VARIABLES
  tip,     \* node: the height of its last block
  cache,   \* Redis: the estimate kept for each mode
  run,     \* the computation started by each block in each mode
  faults

feeVars == <<tip, cache, run, faults>>

Height == GenesisHeight .. MaxHeight
RunId == Mode \X ((GenesisHeight + 1) .. MaxHeight)

\* An estimate: the height it is for, and the length of the streak of congested
\* blocks folded into it.
Estimate == [blockHeight : Int, streak : Nat]
NoEstimate == [blockHeight |-> -1, streak |-> 0]

\* A run asks for the last block, reads the cache, and then alternates between
\* folding in a block and storing the result.
NotStarted == [pc |-> "none", to |-> 0, prev |-> NoEstimate]
Active == {"latest", "read", "fold", "store"}

FeeTypeOK ==
  /\ tip \in Height
  /\ cache \in [Mode -> Estimate]
  /\ run \in [RunId -> [pc : Active \cup {"none", "done"}, to : Height \cup {0},
                        prev : Estimate]]
  /\ faults \in 0..MaxFaults

FeeInit ==
  /\ tip = GenesisHeight
  /\ cache = [m \in Mode |-> NoEstimate]
  /\ run = [r \in RunId |-> NotStarted]
  /\ faults = 0
-----------------------------------------------------------------------------
\* A new block: the listener starts a run in each mode and waits for none.
NewBlock ==
  /\ tip < MaxHeight
  /\ tip' = tip + 1
  /\ run' = [r \in RunId |-> IF r[2] = tip + 1 THEN [run[r] EXCEPT !.pc = "latest"]
                             ELSE run[r]]
  /\ UNCHANGED <<cache, faults>>

\* calculateEstimateFeePerByteFull / Quick: the last block of the node NOW.
GetLastBlock(r) ==
  /\ run[r].pc = "latest"
  /\ run' = [run EXCEPT ![r].pc = "read", ![r].to = tip]
  /\ UNCHANGED <<tip, cache, faults>>

MaxOf(S) == CHOOSE m \in S : \A n \in S : n <= m

\* The first height to fold in, unless the run resumes from the cache.
FromHeight(mode, to) ==
  MaxOf({DefaultStartBlockHeight, GenesisHeight + 1,
         IF mode = "full" THEN DefaultStartBlockHeight ELSE to - ColdStartBatchSize})

\* Mutant of StartEstimate: the cached height is taken for the next one to do.
StartAtCachedHeight(mode, to) ==
  IF mode = "full" /\ cache[mode] # NoEstimate
  THEN [cache[mode] EXCEPT !.blockHeight = @ - 1]
  ELSE [blockHeight |-> FromHeight(mode, to) - 1, streak |-> 0]

\* What a run starts from.  The quick mode does not look at its cache.
StartEstimate(mode, to) ==
  LET from == FromHeight(mode, to)
      cachedHeight == IF mode = "full" /\ cache[mode] # NoEstimate
                      THEN cache[mode].blockHeight ELSE 0
  IN  IF from > cachedHeight THEN [blockHeight |-> from - 1, streak |-> 0]
      ELSE cache[mode]

\* checkAndProcessExecution: executionStatus is frozen, so its guard never
\* stops a run.  Then getEstimateFeePerByteForBatch reads the cache.
ReadCache(r) ==
  /\ run[r].pc = "read"
  /\ run' = [run EXCEPT ![r].pc = "fold", ![r].prev = StartEstimate(r[1], run[r].to)]
  /\ UNCHANGED <<tip, cache, faults>>

\* The heights of the batch that is fetched for the block after prev.
BatchHeights(prev) ==
  LET maxSize == prev.blockHeight - GenesisHeight
      size == IF EmaBatchSize > maxSize THEN maxSize + 1 ELSE EmaBatchSize
  IN  {prev.blockHeight + 1 - i : i \in 0 .. (size - 1)}

\* getEstimateFeePerByteForBlock: the average goes on, or is reset to zero.
EstimateForBlock(prev) ==
  LET h == prev.blockHeight + 1
  IN  [blockHeight |-> h, streak |-> IF h \in Congested THEN prev.streak + 1 ELSE 0]

\* One round of the loop, up to the write to the cache.  When the node has no
\* such block the run throws, which ends it and changes nothing.
FoldBlock(r) ==
  /\ run[r].pc = "fold"
  /\ run' = IF run[r].prev.blockHeight + 1 <= tip
            THEN [run EXCEPT ![r].pc = "store", ![r].prev = EstimateForBlock(@)]
            ELSE [run EXCEPT ![r].pc = "done"]
  /\ UNCHANGED <<tip, cache, faults>>

\* Mutant of StoreEstimate: the loop ends one block early.
StoreEstimateEarly(r) ==
  /\ run[r].pc = "store"
  /\ cache' = [cache EXCEPT ![r[1]] = run[r].prev]
  /\ run' = [run EXCEPT ![r].pc = IF run[r].prev.blockHeight + 1 < run[r].to
                                  THEN "fold" ELSE "done"]
  /\ UNCHANGED <<tip, faults>>

\* The estimate is stored, as an intermediate value below toHeight or for good.
StoreEstimate(r) ==
  /\ run[r].pc = "store"
  /\ cache' = [cache EXCEPT ![r[1]] = run[r].prev]
  /\ run' = [run EXCEPT ![r].pc = IF run[r].prev.blockHeight < run[r].to
                                  THEN "fold" ELSE "done"]
  /\ UNCHANGED <<tip, faults>>

\* A request to the node or to Redis fails: the run is given up.
FailRun(r) ==
  /\ run[r].pc \in Active
  /\ faults < MaxFaults
  /\ faults' = faults + 1
  /\ run' = [run EXCEPT ![r].pc = "done"]
  /\ UNCHANGED <<tip, cache>>
-----------------------------------------------------------------------------
RunStep(r) == GetLastBlock(r) \/ ReadCache(r) \/ FoldBlock(r) \/ StoreEstimate(r)

FeeNext ==
  \/ NewBlock
  \/ \E r \in RunId : RunStep(r) \/ FailRun(r)
-----------------------------------------------------------------------------
\* The first height the full mode ever folds in.
FirstHeight == FromHeight("full", GenesisHeight)

\* The reference: an estimate folded from the beginning of the full mode is
\* the streak of congested blocks that ends at its height.
Exact(e) ==
  /\ e.streak <= e.blockHeight - FirstHeight + 1
  /\ \A h \in (e.blockHeight - e.streak + 1) .. e.blockHeight : h \in Congested
  /\ e.blockHeight - e.streak >= FirstHeight => e.blockHeight - e.streak \notin Congested

\* However runs overlap, resume from each other's intermediate values, fail and
\* overwrite one another, the estimate kept for the full mode is the one that
\* a single uninterrupted run would have computed for its height.
FullEstimateIsExact ==
  "full" \in Mode /\ cache["full"] # NoEstimate => Exact(cache["full"])

\* No run fetches the genesis block or anything below it, and no estimate is
\* for a block the node does not have.
BatchesWithinChain ==
  /\ \A r \in RunId : run[r].pc = "fold" =>
       \A h \in BatchHeights(run[r].prev) : h > GenesisHeight
  /\ \A m \in Mode : cache[m].blockHeight <= tip

\* Each block is reflected, at some time after it arrived, in the estimate of
\* each mode, unless a request fails.
BlocksGetEstimated ==
  \A r \in RunId :
    (run[r].pc = "latest") ~> (cache[r[1]].blockHeight >= r[2] \/ faults > 0)

\* The estimate of the full mode is that of an undisturbed computation, made of
\* batches that end above the genesis block (utils/dynamicFees.js).
EstimatesSound == FeeTypeOK /\ FullEstimateIsExact /\ BatchesWithinChain
=============================================================================
