-------------------------- MODULE ConnectorProofs --------------------------
(***************************************************************************)
(* The connector and the fee estimator, proved for every number of calls,  *)
(* loaders, peers, blocks and faults.  Each part has an invariant of its   *)
(* own, which steps of the other parts leave alone.                        *)
(***************************************************************************)
EXTENDS MCConnector, FiniteSetTheorems, TLAPS

(* Fee estimator *)

\* An estimate that a run may go on from: it is not for a block below the one
\* at the genesis height, and in the full mode it is exact from the first height on.
Sound(mode, e) ==
  /\ e.blockHeight >= GenesisHeight
  /\ mode = "full" => e.blockHeight >= FirstHeight - 1 /\ Exact(e)

\* What is cached is sound and for a block that the node has.
CacheSound ==
  \A m \in Mode : cache[m] # NoEstimate => Sound(m, cache[m]) /\ cache[m].blockHeight <= tip

\* So is what a run is about to store; what it folds onto is sound.
RunsSound ==
  \A r \in RunId :
    /\ run[r].pc \in {"fold", "store"} => Sound(r[1], run[r].prev)
    /\ run[r].pc = "store" => run[r].prev.blockHeight <= tip

FeeInv == FeeTypeOK /\ CacheSound /\ RunsSound

\* The largest of three integers.
LEMMA MaxOfThree ==
  ASSUME NEW a \in Int, NEW b \in Int, NEW c \in Int
  PROVE  /\ MaxOf({a, b, c}) \in Int
         /\ MaxOf({a, b, c}) >= a /\ MaxOf({a, b, c}) >= b /\ MaxOf({a, b, c}) >= c
<1>1. \E m \in {a, b, c} : \A n \in {a, b, c} : n <= m
  <2>1. CASE a >= b /\ a >= c
    BY <2>1
  <2>2. CASE b >= a /\ b >= c
    BY <2>2
  <2>3. CASE c >= a /\ c >= b
    BY <2>3
  <2> QED
    BY <2>1, <2>2, <2>3
<1>2. /\ MaxOf({a, b, c}) \in {a, b, c}
      /\ \A n \in {a, b, c} : n <= MaxOf({a, b, c})
  BY <1>1 DEF MaxOf
<1> QED
  BY <1>2

\* No run starts at or below the genesis block, and every run of the full mode
\* would start at the same height.
LEMMA FromAboveGenesis ==
  ASSUME NEW mode, NEW to \in Int
  PROVE  /\ FromHeight(mode, to) \in Int
         /\ FromHeight(mode, to) >= GenesisHeight + 1
         /\ mode = "full" => FromHeight(mode, to) = FirstHeight
<1> DEFINE c == IF mode = "full" THEN DefaultStartBlockHeight ELSE to - ColdStartBatchSize
<1>1. c \in Int /\ DefaultStartBlockHeight \in Int /\ GenesisHeight + 1 \in Int
  BY FeeAssumption
<1>2. FromHeight(mode, to) = MaxOf({DefaultStartBlockHeight, GenesisHeight + 1, c})
  BY DEF FromHeight
<1>3. mode = "full" => FromHeight(mode, to) = FirstHeight
  BY DEF FirstHeight, FromHeight
<1> HIDE DEF c
<1> DEFINE m == MaxOf({DefaultStartBlockHeight, GenesisHeight + 1, c})
<1>4. m \in Int /\ m >= GenesisHeight + 1
  BY <1>1, MaxOfThree
<1> QED
  BY <1>2, <1>3, <1>4

\* The first height is a height above the genesis block.
LEMMA FirstHeightAboveGenesis == FirstHeight \in Int /\ FirstHeight >= GenesisHeight + 1
<1>1. GenesisHeight \in Int
  BY FeeAssumption
<1> QED
  BY <1>1, FromAboveGenesis DEF FirstHeight

\* Folding a block into a sound estimate gives a sound estimate of the next block.
LEMMA FoldKeepsSound ==
  ASSUME NEW mode, NEW e \in Estimate, Sound(mode, e)
  PROVE  EstimateForBlock(e) \in Estimate /\ Sound(mode, EstimateForBlock(e))
<1> DEFINE f == EstimateForBlock(e)
           h == e.blockHeight + 1
<1>1. e.blockHeight \in Int /\ e.streak \in Nat /\ h \in Int /\ GenesisHeight \in Nat
  BY FeeAssumption DEF Estimate
<1>2. f.blockHeight = h /\ f.streak = IF h \in Congested THEN e.streak + 1 ELSE 0
  BY DEF EstimateForBlock
<1>3. f \in Estimate
  BY <1>1 DEF EstimateForBlock, Estimate
<1>4. f.blockHeight >= GenesisHeight
  BY <1>1, <1>2 DEF Sound
<1>5. ASSUME mode = "full"
      PROVE  f.blockHeight >= FirstHeight - 1 /\ Exact(f)
  <2>1. /\ e.streak <= e.blockHeight - FirstHeight + 1
        /\ \A k \in (e.blockHeight - e.streak + 1) .. e.blockHeight : k \in Congested
        /\ e.blockHeight - e.streak >= FirstHeight => e.blockHeight - e.streak \notin Congested
        /\ e.blockHeight >= FirstHeight - 1
    BY <1>5 DEF Sound, Exact
  <2>2. FirstHeight \in Int
    BY FirstHeightAboveGenesis
  <2>3. CASE h \in Congested
    <3>1. f.streak = e.streak + 1 /\ f.blockHeight = e.blockHeight + 1
      BY <1>2, <2>3
    <3> HIDE DEF f
    <3>2. ASSUME NEW k \in (f.blockHeight - f.streak + 1) .. f.blockHeight
          PROVE  k \in Congested
      <4>1. k \in (e.blockHeight - e.streak + 1) .. e.blockHeight \/ k = h
        BY <1>1, <3>1
      <4> QED
        BY <2>1, <2>3, <4>1
    <3>3. f.blockHeight - f.streak = e.blockHeight - e.streak
      BY <1>1, <3>1
    <3>4. f.streak <= f.blockHeight - FirstHeight + 1
      BY <1>1, <2>1, <2>2, <3>1
    <3>5. f.blockHeight >= FirstHeight - 1
      BY <1>1, <2>1, <2>2, <3>1
    <3> QED
      BY <2>1, <3>2, <3>3, <3>4, <3>5 DEF Exact
  <2>4. CASE h \notin Congested
    <3>1. f.streak = 0 /\ f.blockHeight = h
      BY <1>2, <2>4
    <3> HIDE DEF f
    <3>2. f.blockHeight - f.streak = h
      BY <1>1, <3>1
    <3>3. (f.blockHeight - f.streak + 1) .. f.blockHeight = {}
      BY <1>1, <3>1
    <3>4. f.streak <= f.blockHeight - FirstHeight + 1 /\ f.blockHeight >= FirstHeight - 1
      BY <1>1, <2>1, <2>2, <3>1
    <3> QED
      BY <2>4, <3>2, <3>3, <3>4 DEF Exact
  <2> QED
    BY <2>3, <2>4
<1> QED
  BY <1>3, <1>4, <1>5 DEF Sound

\* A run starts from a sound estimate, its own or the one that is cached.
LEMMA StartIsSound ==
  ASSUME FeeInv, NEW mode \in Mode, NEW to \in Int
  PROVE  StartEstimate(mode, to) \in Estimate /\ Sound(mode, StartEstimate(mode, to))
<1> DEFINE from == FromHeight(mode, to)
           start == [blockHeight |-> from - 1, streak |-> 0]
           cachedHeight == IF mode = "full" /\ cache[mode] # NoEstimate
                           THEN cache[mode].blockHeight ELSE 0
<1>1. from \in Int /\ from >= GenesisHeight + 1 /\ (mode = "full" => from = FirstHeight)
  BY FromAboveGenesis
<1>2. StartEstimate(mode, to) = IF from > cachedHeight THEN start ELSE cache[mode]
  BY DEF StartEstimate
<1>3. GenesisHeight \in Nat
  BY FeeAssumption
<1> HIDE DEF from
<1>4. start \in Estimate /\ Sound(mode, start)
  <2>1. start \in Estimate /\ start.blockHeight = from - 1 /\ start.streak = 0
    BY <1>1 DEF Estimate
  <2>2. start.blockHeight >= GenesisHeight
    BY <1>1, <1>3, <2>1
  <2>3. ASSUME mode = "full"
        PROVE  start.blockHeight >= FirstHeight - 1 /\ Exact(start)
    <3>1. FirstHeight \in Int /\ start.blockHeight = FirstHeight - 1
      BY <1>1, <2>1, <2>3, FirstHeightAboveGenesis
    <3> HIDE DEF start
    <3>2. start.streak <= start.blockHeight - FirstHeight + 1
      BY <2>1, <3>1
    <3>3. (start.blockHeight - start.streak + 1) .. start.blockHeight = {}
      BY <2>1, <3>1
    <3>4. ~(start.blockHeight - start.streak >= FirstHeight)
      BY <2>1, <3>1
    <3> QED
      BY <3>1, <3>2, <3>3, <3>4 DEF Exact
  <2> QED
    BY <2>1, <2>2, <2>3 DEF Sound
<1>5. CASE from > cachedHeight
  BY <1>2, <1>4, <1>5
<1>6. CASE ~(from > cachedHeight)
  <2>1. cache[mode] # NoEstimate
    BY <1>1, <1>3, <1>6
  <2>2. cache[mode] \in Estimate /\ Sound(mode, cache[mode])
    BY <2>1 DEF FeeInv, FeeTypeOK, CacheSound
  <2> QED
    BY <1>2, <1>6, <2>2
<1> QED
  BY <1>5, <1>6

\* Every step of the fee estimator keeps the invariant.
LEMMA FeeStepKeeps ==
  ASSUME FeeInv, FeeNext
  PROVE  FeeInv'
<1> USE FeeAssumption DEF FeeInv, FeeTypeOK, CacheSound, RunsSound
<1>1. tip \in Int /\ \A r \in RunId : r[1] \in Mode /\ run[r].to \in Int
  BY DEF Height, RunId
<1>2. CASE NewBlock
  <2>1. tip' \in Height /\ tip' = tip + 1 /\ cache' = cache /\ faults' = faults
    BY <1>2 DEF NewBlock, Height
  <2>2. ASSUME NEW r \in RunId
        PROVE  /\ run'[r] \in [pc : Active \cup {"none", "done"}, to : Height \cup {0},
                               prev : Estimate]
               /\ run'[r].pc \in {"fold", "store"} => run'[r] = run[r]
    BY <1>2 DEF NewBlock, Active
  <2>3. run' \in [RunId -> [pc : Active \cup {"none", "done"}, to : Height \cup {0},
                            prev : Estimate]]
    BY <1>2, <2>2 DEF NewBlock
  <2>4. FeeTypeOK'
    BY <2>1, <2>3
  <2>5. ASSUME NEW m \in Mode, cache'[m] # NoEstimate
        PROVE  Sound(m, cache'[m]) /\ cache'[m].blockHeight <= tip'
    <3>1. cache[m].blockHeight \in Int
      BY DEF Estimate
    <3> QED
      BY <1>1, <2>1, <2>5, <3>1
  <2>6. ASSUME NEW r \in RunId, run'[r].pc \in {"fold", "store"}
        PROVE  Sound(r[1], run'[r].prev) /\ (run'[r].pc = "store" => run'[r].prev.blockHeight <= tip')
    <3>1. run[r].prev.blockHeight \in Int
      BY DEF Estimate
    <3> QED
      BY <1>1, <2>1, <2>2, <2>6, <3>1
  <2> QED
    BY <2>4, <2>5, <2>6 DEF Sound, Exact
<1>3. ASSUME NEW r \in RunId, GetLastBlock(r)
      PROVE  FeeInv'
  BY <1>3 DEF GetLastBlock, Active
<1>4. ASSUME NEW r \in RunId, ReadCache(r)
      PROVE  FeeInv'
  <2> DEFINE start == StartEstimate(r[1], run[r].to)
  <2>1. start \in Estimate /\ Sound(r[1], start)
    BY <1>1, StartIsSound
  <2>2. /\ run' = [run EXCEPT ![r].pc = "fold", ![r].prev = start]
        /\ UNCHANGED <<tip, cache, faults>>
    BY <1>4 DEF ReadCache
  <2> HIDE DEF start
  <2> QED
    BY <2>1, <2>2 DEF Active
<1>5. ASSUME NEW r \in RunId, FoldBlock(r)
      PROVE  FeeInv'
  <2> DEFINE next == EstimateForBlock(run[r].prev)
  <2>1. run[r].prev \in Estimate /\ Sound(r[1], run[r].prev)
    BY <1>5 DEF FoldBlock
  <2>2. next \in Estimate /\ Sound(r[1], next)
    BY <2>1, FoldKeepsSound
  <2>3. next.blockHeight = run[r].prev.blockHeight + 1
    BY DEF EstimateForBlock
  <2> HIDE DEF next
  <2>4. CASE run[r].prev.blockHeight + 1 <= tip
    <3>1. /\ run' = [run EXCEPT ![r].pc = "store", ![r].prev = next]
          /\ UNCHANGED <<tip, cache, faults>>
      BY <1>5, <2>4 DEF FoldBlock, next
    <3> QED
      BY <2>2, <2>3, <2>4, <3>1 DEF Active
  <2>5. CASE ~(run[r].prev.blockHeight + 1 <= tip)
    <3>1. /\ run' = [run EXCEPT ![r].pc = "done"]
          /\ UNCHANGED <<tip, cache, faults>>
      BY <1>5, <2>5 DEF FoldBlock
    <3> QED
      BY <3>1
  <2> QED
    BY <2>4, <2>5
<1>6. ASSUME NEW r \in RunId, StoreEstimate(r)
      PROVE  FeeInv'
  <2>1. /\ run[r].pc = "store" /\ r[1] \in Mode
        /\ run[r].prev \in Estimate /\ Sound(r[1], run[r].prev) /\ run[r].prev.blockHeight <= tip
    BY <1>1, <1>6 DEF StoreEstimate
  <2>2. PICK next \in {"fold", "done"} :
          /\ cache' = [cache EXCEPT ![r[1]] = run[r].prev]
          /\ run' = [run EXCEPT ![r].pc = next]
          /\ UNCHANGED <<tip, faults>>
    BY <1>6 DEF StoreEstimate
  <2> QED
    BY <2>1, <2>2 DEF Active
<1>7. ASSUME NEW r \in RunId, FailRun(r)
      PROVE  FeeInv'
  BY <1>7 DEF FailRun, Active
<1> QED
  BY <1>2, <1>3, <1>4, <1>5, <1>6, <1>7 DEF FeeNext, RunStep

\* A step of the connector is one of the fee estimator or leaves it alone.
LEMMA FeeSteps == [Next]_vars => FeeNext \/ UNCHANGED feeVars
BY Zenon DEF Next, vars, ClientStep, NodeStep, GenesisStep, FeeStep

\* FeeInv is inductive.
LEMMA FeeInvariant == Spec => []FeeInv
<1>1. Init => FeeInv
  BY FeeAssumption DEF Init, FeeInit, FeeInv, FeeTypeOK, CacheSound, RunsSound, Height, Estimate,
     NoEstimate, NotStarted, Active
<1>2. FeeInv /\ [Next]_vars => FeeInv'
  <2> SUFFICES ASSUME FeeInv, [Next]_vars
               PROVE  FeeInv'
    OBVIOUS
  <2>1. CASE UNCHANGED feeVars
    BY <2>1 DEF feeVars, FeeInv, FeeTypeOK, CacheSound, RunsSound
  <2> QED
    BY <2>1, FeeStepKeeps, FeeSteps
<1> QED
  BY <1>1, <1>2, PTL DEF Spec

\* The batch for the block after a sound estimate ends above the genesis block.
LEMMA BatchAboveGenesis ==
  ASSUME NEW e \in Estimate, e.blockHeight >= GenesisHeight, NEW h \in BatchHeights(e)
  PROVE  h > GenesisHeight
<1> DEFINE maxSize == e.blockHeight - GenesisHeight
           size == IF EmaBatchSize > maxSize THEN maxSize + 1 ELSE EmaBatchSize
<1>1. e.blockHeight \in Int /\ GenesisHeight \in Int /\ EmaBatchSize \in Int
  BY FeeAssumption DEF Estimate
<1>2. PICK i \in 0 .. (size - 1) : h = e.blockHeight + 1 - i
  BY DEF BatchHeights
<1>3. size \in Int /\ size <= maxSize + 1 /\ maxSize \in Int
  BY <1>1
<1> HIDE DEF size
<1> QED
  BY <1>1, <1>2, <1>3

\* However the runs of the fee estimator overlap, resume from one another and
\* fail, for every number of blocks, every batch size and every pattern of full
\* blocks: the full estimate is that of an undisturbed computation, no batch
\* reaches down to the genesis block, and no estimate is ahead of the node.
THEOREM FeeEstimatesSound == Spec => []EstimatesSound
<1>1. FeeInv => EstimatesSound
  <2> SUFFICES ASSUME FeeInv
               PROVE  EstimatesSound
    OBVIOUS
  <2> USE FeeAssumption DEF FeeInv, FeeTypeOK, CacheSound, RunsSound
  <2>1. FullEstimateIsExact
    BY DEF FullEstimateIsExact, Sound
  <2>2. ASSUME NEW r \in RunId, run[r].pc = "fold", NEW h \in BatchHeights(run[r].prev)
        PROVE  h > GenesisHeight
    BY <2>2, BatchAboveGenesis DEF Sound
  <2>3. ASSUME NEW m \in Mode
        PROVE  cache[m].blockHeight <= tip
    BY DEF NoEstimate, Height
  <2> QED
    BY <2>1, <2>2, <2>3 DEF EstimatesSound, BatchesWithinChain
<1> QED
  BY <1>1, FeeInvariant, PTL
-----------------------------------------------------------------------------
(* Genesis file *)

LoaderState == {"idle", "config", "exists", "download", "downloading", "verify", "extract",
                "extracting", "open", "read", "piped", "format", "node", "file", "answered"}

GenesisTypeOK ==
  /\ hosted \in {"none", "missing", "json", "archive"}
  /\ file \in {"absent", "partial", "damaged", "complete"}
  /\ readStream \in {"none", "consumed", "partial", "damaged", "complete"}
  /\ loaders \in [Loader -> LoaderState]
  /\ overlapped \in BOOLEAN
  /\ restarts \in Nat

\* Only what is hosted is downloaded.
DownloadsHosted ==
  \A l \in Loader : loaders[l] = "downloading" => hosted \in {"json", "archive"}

ReadsUndamaged == readStream # "damaged" /\ parser # "damaged" /\ genesisBlock # "damaged"

\* A file that is unpacked from an archive is never damaged.
ArchiveProtects == hosted # "json" => file # "damaged" /\ ReadsUndamaged

\* A file that is downloaded as it is may be damaged only while its loader has yet
\* to verify it, and nobody else reads it then.
LoneLoaderProtects ==
  hosted = "json" /\ restarts = 0 /\ ~overlapped =>
    /\ \A k, l \in pending : k = l
    /\ file = "damaged" => \E l \in Loader : loaders[l] = "verify"
    /\ parser = "reading" => \E l \in Loader : loaders[l] = "piped"
    /\ ReadsUndamaged

GenesisInv == GenesisTypeOK /\ DownloadsHosted /\ ArchiveProtects /\ LoneLoaderProtects

\* A restart ends all calls and forgets what was read.
LEMMA RestartKeepsGenesis ==
  ASSUME GenesisInv, RestartConnector, file' \in {"absent", "partial", "damaged", "complete"},
         file' = "damaged" => file = "damaged"
  PROVE  GenesisInv'
<1> USE DEF GenesisInv, GenesisTypeOK, ArchiveProtects, ReadsUndamaged, RestartConnector, LoaderState
<1>1. GenesisTypeOK'
  OBVIOUS
<1>2. DownloadsHosted'
  BY DEF DownloadsHosted
<1>3. ArchiveProtects'
  OBVIOUS
<1>4. LoneLoaderProtects'
  BY DEF LoneLoaderProtects
<1> QED
  BY <1>1, <1>2, <1>3, <1>4

\* What an attempt leaves behind is not damaged, or was left to another loader.
LEMMA AgainKeepsGenesis ==
  ASSUME GenesisInv, NEW l \in Loader, Again(l), loaders[l] \in {"download", "downloading", "verify", "extract"},
         file' \in {"absent", "partial", "damaged", "complete"},
         file' = "damaged" => file = "damaged" /\ loaders[l] # "verify"
  PROVE  GenesisInv'
<1>1. CASE RestartConnector
  BY <1>1, RestartKeepsGenesis
<1>2. CASE At(l, "download") /\ UNCHANGED <<configVars, readVars, overlapped, restarts>>
  BY <1>2 DEF GenesisInv, GenesisTypeOK, DownloadsHosted, ArchiveProtects, LoneLoaderProtects,
     ReadsUndamaged, LoaderState, At, configVars, readVars, pending
<1> QED
  BY <1>1, <1>2 DEF Again

\* A step of one loader keeps the invariant.
LEMMA LoaderStepKeepsGenesis ==
  ASSUME GenesisInv, NEW l \in Loader, getGenesisBlock(l) \/ LoadAgain(l) \/ LoaderStep(l)
  PROVE  GenesisInv'
<1> USE DEF GenesisInv, GenesisTypeOK, DownloadsHosted, ArchiveProtects, LoneLoaderProtects,
            ReadsUndamaged, LoaderState, At, configVars, readVars, diskVars, pending
<1>1. CASE getGenesisBlock(l)
  <2>1. PICK step \in {"node", "exists", "file", "config"} : loaders' = [loaders EXCEPT ![l] = step]
    BY <1>1 DEF getGenesisBlock, AfterConfig
  <2>2. loaders[l] = "idle" /\ UNCHANGED <<configVars, diskVars, readVars, restarts>>
    BY <1>1 DEF getGenesisBlock
  <2>3. overlapped' = (overlapped \/ pending # {})
    BY <1>1 DEF getGenesisBlock
  <2>4. overlapped' \in BOOLEAN
    BY <2>3, Zenon
  <2>5. ~overlapped' => ~overlapped /\ pending = {}
    BY <2>3, Zenon
  <2>6. GenesisTypeOK' /\ DownloadsHosted' /\ ArchiveProtects'
    BY <2>1, <2>2, <2>4
  <2>7. LoneLoaderProtects'
    BY <2>1, <2>2, <2>5
  <2> QED
    BY <2>6, <2>7
<1>2. CASE LoadAgain(l)
  BY <1>2 DEF LoadAgain
<1>3. CASE loadConfig(l)
  BY <1>3 DEF loadConfig, AfterConfig
<1>4. CASE exists(l)
  BY <1>4 DEF exists
<1>5. CASE DownloadStarts(l)
  BY <1>5 DEF DownloadStarts, Download
<1>6. CASE DownloadEnds(l)
  BY <1>6 DEF DownloadEnds, Download, downloaded
<1>7. CASE DownloadFails(l)
  BY <1>7, AgainKeepsGenesis DEF DownloadFails
<1>8. CASE DownloadNotFound(l)
  BY <1>8 DEF DownloadNotFound
<1>9. CASE VerifyDownload(l)
  <2>1. CASE Verified(downloaded)
    BY <1>9, <2>1 DEF VerifyDownload, Verified, downloaded
  <2>2. CASE ~Verified(downloaded)
    BY <1>9, <2>2, AgainKeepsGenesis DEF VerifyDownload
  <2> QED
    BY <2>1, <2>2
<1>10. CASE extractTarBall(l)
  <2>1. CASE archive # "absent"
    BY <1>10, <2>1 DEF extractTarBall
  <2>2. CASE archive = "absent"
    BY <1>10, <2>2, AgainKeepsGenesis DEF extractTarBall
  <2> QED
    BY <2>1, <2>2
<1>11. CASE ExtractEnds(l)
  BY <1>11 DEF ExtractEnds
<1>12. CASE createReadStream(l)
  <2>1. CASE file # "absent"
    BY <1>12, <2>1 DEF createReadStream
  <2>2. CASE file = "absent"
    BY <1>12, <2>2, RestartKeepsGenesis DEF createReadStream
  <2> QED
    BY <2>1, <2>2
<1>13. CASE Pipe(l)
  BY <1>13 DEF Pipe
<1>14. CASE formatGenesisBlock(l)
  BY <1>14 DEF formatGenesisBlock
<1>15. CASE AskNode(l)
  BY <1>15 DEF AskNode
<1> QED
  BY <1>1, <1>2, <1>3, <1>4, <1>5, <1>6, <1>7, <1>8, <1>9, <1>10, <1>11, <1>12, <1>13, <1>14, <1>15
  DEF LoaderStep

\* The end of the file keeps the invariant: while a lone loader reads, the file is
\* not one that has yet to be verified.
LEMMA EndOfFileKeepsGenesis ==
  ASSUME GenesisInv, EndOfFile
  PROVE  GenesisInv'
<1> USE DEF GenesisInv, GenesisTypeOK, DownloadsHosted, ArchiveProtects, LoneLoaderProtects,
            ReadsUndamaged, LoaderState, configVars, diskVars, pending
<1>1. PICK content \in {readStream} \cup ({file} \ {"absent"}), step \in {"format", "node", "piped"} :
        /\ parser = "reading"
        /\ parser' = content
        /\ readStream' = "consumed"
        /\ loaders' = [l \in Loader |-> IF loaders[l] = "piped" THEN step ELSE loaders[l]]
        /\ UNCHANGED <<configVars, diskVars, genesisBlock, overlapped, restarts>>
  BY DEF EndOfFile
<1>2. GenesisTypeOK' /\ DownloadsHosted'
  BY <1>1
<1>3. ArchiveProtects'
  BY <1>1
<1>4. ASSUME hosted = "json", restarts = 0, ~overlapped
      PROVE  content # "damaged"
  BY <1>1, <1>4
<1>5. LoneLoaderProtects'
  BY <1>1, <1>4
<1> QED
  BY <1>2, <1>3, <1>5

\* A step of the connector is one of the genesis file or leaves it alone.
LEMMA GenesisSteps == [Next]_vars => GenesisNext \/ UNCHANGED genesisVars
BY Zenon DEF Next, vars, ClientStep, NodeStep, GenesisStep, FeeStep

\* GenesisInv is inductive.
LEMMA GenesisInvariant == Spec => []GenesisInv
<1>1. Init => GenesisInv
  <2> SUFFICES ASSUME GenesisInit
               PROVE  GenesisInv
    BY DEF Init
  <2>1. overlapped \in BOOLEAN
    BY Zenon DEF GenesisInit
  <2> QED
    BY <2>1 DEF GenesisInit, GenesisInv, GenesisTypeOK, DownloadsHosted, ArchiveProtects,
       LoneLoaderProtects, ReadsUndamaged, LoaderState, pending
<1>2. GenesisInv /\ [Next]_vars => GenesisInv'
  <2> SUFFICES ASSUME GenesisInv, [Next]_vars
               PROVE  GenesisInv'
    OBVIOUS
  <2>1. CASE UNCHANGED genesisVars
    BY <2>1 DEF genesisVars, configVars, diskVars, readVars, GenesisInv, GenesisTypeOK,
       DownloadsHosted, ArchiveProtects, LoneLoaderProtects, ReadsUndamaged, pending
  <2>2. CASE setMetadata
    BY <2>2 DEF setMetadata, diskVars, readVars, GenesisInv, GenesisTypeOK,
       DownloadsHosted, ArchiveProtects, LoneLoaderProtects, ReadsUndamaged, pending
  <2>3. CASE Crash
    BY <2>3, RestartKeepsGenesis DEF Crash, diskVars, GenesisInv, GenesisTypeOK
  <2> QED
    BY <2>1, <2>2, <2>3, GenesisSteps, LoaderStepKeepsGenesis, EndOfFileKeepsGenesis DEF GenesisNext
<1> QED
  BY <1>1, <1>2, PTL DEF Spec

\* The genesis block that is served is not a damaged one.
LEMMA GenesisIsVerified == GenesisInv => GenesisVerified
BY DEF GenesisInv, GenesisTypeOK, ArchiveProtects, LoneLoaderProtects, ReadsUndamaged, GenesisVerified
-----------------------------------------------------------------------------
(* Endpoints *)

\* What a request stores, and how it treats an error: nothing; an answer, checked
\* if its cache is; or a value taken from another answer, which is stored unchecked.
StoresSafely(e) ==
  \/ e.caches = << >>
  \/ \E c \in Cache : /\ e.caches = <<c>>
                      /\ c \in CheckedCache => e.onError \in {"thrown", "undefined"}
  \/ \E c \in Cache, d \in Cache \ CheckedCache : e.caches = <<c, d>>

\* Every endpoint is of one of these kinds, and those that return undefined for an
\* error have a cache.
LEMMA EndpointsStoreSafely ==
  ASSUME NEW e \in nodeEndpoints
  PROVE  StoresSafely(e) /\ (e.onError = "undefined" => e.caches # << >>)
<1> USE DEF StoresSafely, Cache, CheckedCache, Ask, Formatted, CachedIn, encodeTransaction
<1>1. CASE e \in {getNetworkConnectedPeers, getNetworkDisconnectedPeers, getGeneratorStatus,
                  updateGeneratorStatus, postTransaction, getGenerators}
  BY <1>1 DEF getNetworkConnectedPeers, getNetworkDisconnectedPeers, getGeneratorStatus,
             updateGeneratorStatus, postTransaction, getGenerators
<1>2. CASE e \in {getLastBlock, getBlockByHeight, getBlockByID, getEventsByHeight, getTransactionByID,
                  getTransactionsByIDs, getTransactionsFromPool, dryRunTransaction}
  BY <1>2 DEF getLastBlock, getBlockByHeight, getBlockByID, getEventsByHeight, getTransactionByID,
             getTransactionsByIDs, getTransactionsFromPool, dryRunTransaction
<1>3. CASE e \in {getSchemas, getRegisteredActions, getRegisteredEvents, getNodeInfo,
                  getSystemMetadata, getRegisteredModules}
  BY <1>3 DEF getSchemas, getRegisteredActions, getRegisteredEvents, getNodeInfo,
             getSystemMetadata, getRegisteredModules
<1>4. CASE e \in {getTokenBalances, getTokenBalance, getEscrowedAmounts, getSupportedTokens,
                  getTotalSupply, getTokenInitializationFees, hasUserAccount}
  BY <1>4 DEF getTokenBalances, getTokenBalance, getEscrowedAmounts, getSupportedTokens,
             getTotalSupply, getTokenInitializationFees, hasUserAccount
<1>5. CASE e \in {getPosValidator, getAllPosValidators, getPosValidatorsByStake, getPosConstants,
                  getPosPendingUnlocks, getStaker, getPosClaimableRewards, getPosLockedReward,
                  getPoSGenesisStakers, getPoSGenesisValidators}
  BY <1>5 DEF getPosValidator, getAllPosValidators, getPosValidatorsByStake, getPosConstants,
             getPosPendingUnlocks, getStaker, getPosClaimableRewards, getPosLockedReward,
             getPoSGenesisStakers, getPoSGenesisValidators
<1>6. CASE e \in {getAnnualInflation, getDefaultRewardAtHeight, getAuthAccount,
                  getAuthMultiSigRegMsgSchema, getChainAccount, getMainchainID, getLegacyAccount,
                  validateBLSKey, getValidator}
  BY <1>6 DEF getAnnualInflation, getDefaultRewardAtHeight, getAuthAccount,
             getAuthMultiSigRegMsgSchema, getChainAccount, getMainchainID, getLegacyAccount,
             validateBLSKey, getValidator
<1>7. CASE e = getRewardTokenID
  <2>1. e.caches = <<"rewardTokenID">> /\ e.onError = "undefined"
    BY <1>7 DEF getRewardTokenID
  <2> QED
    BY <2>1
<1>8. CASE e = getGenesisConfig
  <2>1. e.caches = <<"genesisConfig", "nodeInfo">>
    BY <1>8 DEF getGenesisConfig
  <2> QED
    BY <2>1
<1> HIDE DEF StoresSafely, Cache, CheckedCache, Ask, Formatted, CachedIn, encodeTransaction
<1> QED
  BY <1>1, <1>2, <1>3, <1>4, <1>5, <1>6, <1>7, <1>8 DEF nodeEndpoints

\* So is every step of the start of the service.
LEMMA InitStepsStoreSafely ==
  ASSUME NEW i \in 1..9
  PROVE  StoresSafely(initSteps[i].endpoint) /\ initSteps[i].endpoint.caches # << >>
<1>1. \A e \in {getNodeInfo, getRegisteredActions, getRegisteredEvents, getSchemas, getSystemMetadata} :
        StoresSafely(e) /\ e.caches # << >>
  <2>1. StoresSafely(getNodeInfo) /\ getNodeInfo.caches # << >>
    BY DEF StoresSafely, Cache, CheckedCache, Ask, CachedIn, getNodeInfo
  <2>2. StoresSafely(getRegisteredActions) /\ getRegisteredActions.caches # << >>
    BY DEF StoresSafely, Cache, CheckedCache, Ask, CachedIn, getRegisteredActions
  <2>3. StoresSafely(getRegisteredEvents) /\ getRegisteredEvents.caches # << >>
    BY DEF StoresSafely, Cache, CheckedCache, Ask, CachedIn, getRegisteredEvents
  <2>4. StoresSafely(getSchemas) /\ getSchemas.caches # << >>
    BY DEF StoresSafely, Cache, CheckedCache, Ask, CachedIn, getSchemas
  <2>5. StoresSafely(getSystemMetadata) /\ getSystemMetadata.caches # << >>
    BY DEF StoresSafely, Cache, CheckedCache, Ask, CachedIn, getSystemMetadata
  <2> QED
    BY <2>1, <2>2, <2>3, <2>4, <2>5
<1>2. StoresSafely(getRegisteredModules) /\ getRegisteredModules.caches # << >>
  BY DEF StoresSafely, Cache, CheckedCache, Ask, CachedIn, getRegisteredModules
<1>3. /\ StoresSafely(cacheMinFeePerByte) /\ cacheMinFeePerByte.caches # << >>
      /\ StoresSafely(cacheFeeTokenID) /\ cacheFeeTokenID.caches # << >>
  BY DEF StoresSafely, Cache, CheckedCache, Ask, CachedIn, cacheMinFeePerByte, cacheFeeTokenID
<1>4. CASE i \in {1, 2, 3, 4, 8, 9}
  BY <1>1, <1>4 DEF initSteps
<1>5. CASE i \in {5, 6, 7}
  BY <1>2, <1>3, <1>5 DEF initSteps
<1> QED
  BY <1>4, <1>5

StoredAnswer == [kind : {"undefined", "value", "error", "missing"}, epoch : Nat]
NodeAnswer == [kind : {"undefined", "value", "error", "missing", "failure", "timeout",
                       "TimeoutException"}, epoch : Nat]
CallResult == [kind : {"undefined", "value", "error", "missing", "failed", "TimeoutException",
                       "timeout", "waiting"}, epoch : Nat]

\* A formatted answer is the answer, or a failure.
LEMMA FormattedOrFailed ==
  ASSUME NEW format, NEW a
  PROVE  FormatAs(format, a) \in {a, Failed}
<1>1. \A schemas : Decodes(a, schemas) \in {a, Failed}
  BY DEF Decodes
<1>2. \A schemas : Decodes(Failed, schemas) = Failed
  BY DEF Decodes
<1>3. formatTransaction(a) \in {a, Failed} /\ formatEvent(a) \in {a, Failed}
  BY <1>1 DEF formatTransaction, formatEvent
<1>4. formatBlock(a) \in {a, Failed}
  BY <1>1, <1>2 DEF formatBlock, formatTransaction
<1> QED
  BY <1>3, <1>4 DEF FormatAs

\* The ways an endpoint treats an answer.
LEMMA OutcomeCases ==
  ASSUME NEW e, NEW a
  PROVE  \/ Outcome(e, a) \in {translateTimeout(e), TimeoutException}
         \/ Outcome(e, a) = Failed
         \/ a.kind = "missing" /\ Outcome(e, a) = [a EXCEPT !.kind = "value"]
         \/ e.onError = "undefined" /\ Outcome(e, a) = Undefined
         \/ /\ Outcome(e, a) = FormatAs(e.format, a)
            /\ a.kind \notin {"timeout", "TimeoutException", "failure"}
            /\ a.kind \in {"error", "missing"} =>
                 e.onError \notin {"thrown", "undefined"} /\ ~IsTaken(e)
<1> DEFINE k == a.kind
           o == Outcome(e, a)
           emptied == [a EXCEPT !.kind = "value"]
           timeout == translateTimeout(e)
           lacking == ~e.needs \subseteq prepared
           formatted == FormatAs(e.format, a)
           onError == e.onError
           taken == IsTaken(e)
<1>1. o = CASE k = "timeout" -> timeout
            [] k = "TimeoutException" -> TimeoutException
            [] k = "failure" \/ lacking -> Failed
            [] k = "missing" /\ onError = "emptied" -> emptied
            [] k \in {"error", "missing"} /\ onError = "undefined" -> Undefined
            [] k \in {"error", "missing"} /\ (onError = "thrown" \/ taken) -> Failed
            [] OTHER -> formatted
  BY DEF Outcome
<1> SUFFICES \/ o \in {timeout, TimeoutException}
             \/ o = Failed
             \/ k = "missing" /\ o = emptied
             \/ onError = "undefined" /\ o = Undefined
             \/ /\ o = formatted
                /\ k \notin {"timeout", "TimeoutException", "failure"}
                /\ k \in {"error", "missing"} => onError \notin {"thrown", "undefined"} /\ ~taken
  OBVIOUS
<1> HIDE DEF k, o, emptied, timeout, lacking, formatted, onError, taken
<1> QED
  BY <1>1

\* What an endpoint makes of an answer: no value is older than the answer, an error
\* is passed on only by those that do not check, and an answer becomes undefined
\* only by those that make an error so.
LEMMA OutcomeOfAnswer ==
  ASSUME NEW e, NEW a \in NodeAnswer
  PROVE  /\ Outcome(e, a) \in CallResult
         /\ Outcome(e, a).kind # "waiting"
         /\ Outcome(e, a).kind = "undefined" => a.kind = "undefined" \/ e.onError = "undefined"
         /\ Outcome(e, a).kind \in {"value", "error"} => Outcome(e, a).epoch = a.epoch
         /\ Outcome(e, a).kind = "error" => e.onError \notin {"thrown", "undefined"} /\ ~IsTaken(e)
<1> DEFINE o == Outcome(e, a)
           emptied == [a EXCEPT !.kind = "value"]
<1> HIDE DEF o
<1> SUFFICES /\ o \in CallResult
             /\ o.kind # "waiting"
             /\ o.kind = "undefined" => a.kind = "undefined" \/ e.onError = "undefined"
             /\ o.kind \in {"value", "error"} => o.epoch = a.epoch
             /\ o.kind = "error" => e.onError \notin {"thrown", "undefined"} /\ ~IsTaken(e)
  BY DEF o
<1>1. CASE o \in {translateTimeout(e), TimeoutException}
  <2>1. o = TimeoutException \/ o = RawTimeout
    BY <1>1, Zenon DEF translateTimeout
  <2> QED
    BY <2>1 DEF CallResult, TimeoutException, RawTimeout
<1>2. CASE o = Failed \/ (o = Undefined /\ e.onError = "undefined")
  BY <1>2 DEF CallResult, Failed, Undefined
<1>3. CASE o = emptied
  <2>1. emptied \in CallResult /\ emptied.kind = "value" /\ emptied.epoch = a.epoch
    BY DEF NodeAnswer, CallResult
  <2> QED
    BY <1>3, <2>1
<1>4. CASE /\ o = FormatAs(e.format, a)
           /\ a.kind \notin {"timeout", "TimeoutException", "failure"}
           /\ a.kind \in {"error", "missing"} =>
                e.onError \notin {"thrown", "undefined"} /\ ~IsTaken(e)
  <2>1. CASE o = a
    <3>1. o \in CallResult /\ o.kind # "waiting"
      BY <1>4, <2>1 DEF NodeAnswer, CallResult
    <3> QED
      BY <1>4, <2>1, <3>1
  <2> QED
    BY <1>2, <1>4, <2>1, FormattedOrFailed
<1> QED
  BY <1>1, <1>2, <1>3, <1>4, OutcomeCases DEF o

\* Storing an outcome keeps errors out of the checked caches.
LEMMA StoredKeepsChecked ==
  ASSUME NEW e, StoresSafely(e), NEW a \in NodeAnswer, caches \in [Cache -> StoredAnswer],
         CheckedCachesSound
  PROVE  /\ Stored(e, a, Outcome(e, a)) \in [Cache -> StoredAnswer]
         /\ \A c \in CheckedCache :
              Stored(e, a, Outcome(e, a))[c].kind \in {"value", "undefined"}
<1> DEFINE o == Outcome(e, a)
           s == Stored(e, a, o)
<1>1. /\ o \in CallResult
      /\ o.kind = "error" => e.onError \notin {"thrown", "undefined"} /\ ~IsTaken(e)
  BY OutcomeOfAnswer
<1> HIDE DEF o
<1>2. s = [c \in Cache |->
             IF c \notin Range(e.caches) THEN caches[c]
             ELSE IF IsTaken(e) /\ c = e.caches[2] /\ a.kind \in {"error", "missing"} THEN a
             ELSE IF o.kind \in {"value", "error", "undefined"} THEN o
             ELSE caches[c]]
  BY DEF Stored
<1> HIDE DEF s
<1>3. s \in [Cache -> StoredAnswer]
  <2>1. ASSUME NEW c \in Cache
        PROVE  s[c] \in StoredAnswer
    <3>1. \/ s[c] = caches[c]
          \/ s[c] = o /\ o.kind \in {"value", "error", "undefined"}
          \/ s[c] = a /\ a.kind \in {"error", "missing"}
      BY <1>2
    <3>2. CASE s[c] = caches[c]
      BY <3>2
    <3>3. CASE s[c] = o /\ o.kind \in {"value", "error", "undefined"}
      BY <1>1, <3>3 DEF CallResult, StoredAnswer
    <3>4. CASE s[c] = a /\ a.kind \in {"error", "missing"}
      BY <3>4 DEF NodeAnswer, StoredAnswer
    <3> QED
      BY <3>1, <3>2, <3>3, <3>4
  <2> QED
    BY <1>2, <2>1
<1>4. ASSUME NEW c \in CheckedCache
      PROVE  s[c].kind \in {"value", "undefined"}
  <2>1. c \in Cache /\ caches[c].kind \in {"value", "undefined"}
    BY DEF CheckedCache, CheckedCachesSound
  <2>2. CASE c \notin Range(e.caches)
    BY <1>2, <2>1, <2>2
  <2>3. CASE c \in Range(e.caches)
    <3>1. PICK i \in DOMAIN e.caches : c = e.caches[i]
      BY <2>3 DEF Range
    <3>2. /\ e.onError \in {"thrown", "undefined"} \/ IsTaken(e)
          /\ IsTaken(e) => c # e.caches[2]
      <4>1. CASE e.caches = << >>
        BY <3>1, <4>1
      <4>2. ASSUME NEW d \in Cache, e.caches = <<d>>, d \in CheckedCache => e.onError \in {"thrown", "undefined"}
            PROVE  /\ e.onError \in {"thrown", "undefined"} \/ IsTaken(e)
                   /\ IsTaken(e) => c # e.caches[2]
        BY <3>1, <4>2 DEF IsTaken
      <4>3. ASSUME NEW d \in Cache, NEW f \in Cache \ CheckedCache, e.caches = <<d, f>>
            PROVE  /\ e.onError \in {"thrown", "undefined"} \/ IsTaken(e)
                   /\ IsTaken(e) => c # e.caches[2]
        BY <3>1, <4>3 DEF IsTaken
      <4> QED
        BY <4>1, <4>2, <4>3 DEF StoresSafely
    <3>3. o.kind # "error"
      BY <1>1, <3>2
    <3>4. (s[c] = o /\ o.kind \in {"value", "undefined"}) \/ s[c] = caches[c]
      BY <1>2, <2>1, <3>2, <3>3
    <3> QED
      BY <2>1, <3>4
  <2> QED
    BY <2>2, <2>3
<1> QED
  BY <1>3, <1>4 DEF s, o
-----------------------------------------------------------------------------
(* Calls, the start of the service and the chain events *)

ConnectorCall ==
  [endpoint : nodeEndpoints, asked : Nat, retries : 0..NUM_REQUEST_RETRIES, sent : Nat,
   thrown : SUBSET TimedOut, result : CallResult]

NodeTypeOK ==
  /\ nodeEpoch \in Nat
  /\ caches \in [Cache -> StoredAnswer]
  /\ nodeCalls \in [NodeCall -> ConnectorCall]
  /\ changes \in [NodeCall -> Nat]
  /\ initAt \in 1..11
  /\ eventsAt \in [1..MaxEpoch -> {"none", "nodeInfo", "escrowedAmounts", "dispatched", "lost"}]
  /\ dispatched \subseteq 1..MaxEpoch
  /\ refreshed \in [Refreshed -> Nat]

\* The requests of a call: the ones sent and the retries left add up while it
\* waits, it waits on only after a TimeoutException, and the node has acted on the
\* requests that were answered or thrown away at most.
RequestsSound(call, made) ==
  /\ call.sent <= NUM_REQUEST_RETRIES + 1
  /\ made <= call.sent
  /\ made > 1 => "TimeoutException" \in call.thrown
  /\ call.result = Waiting =>
       /\ call.sent = NUM_REQUEST_RETRIES - call.retries + 1
       /\ made < call.sent
       /\ made > 0 => "TimeoutException" \in call.thrown
       /\ "timeout" \notin call.thrown

\* An uncached endpoint returns no undefined; what must be fresh is.
ResultSound(call) ==
  /\ call.endpoint.caches = << >> => call.result # Undefined
  /\ call.asked <= nodeEpoch
  /\ call.result.kind = "value" /\ call.result.epoch > 0
       /\ (call.endpoint = getNodeInfo \/ call.endpoint.caches = << >>)
     => call.result.epoch >= call.asked

CallSound(call, made) == RequestsSound(call, made) /\ ResultSound(call)

CallsSound == \A c \in NodeCall : CallSound(nodeCalls[c], changes[c])

\* A chain event is not ahead of the node, and at its second refresh the first one
\* is done.
EventsSound ==
  \A event \in 1..MaxEpoch :
    /\ eventsAt[event] # "none" => event <= nodeEpoch
    /\ eventsAt[event] = "escrowedAmounts" => refreshed["nodeInfo"] >= event

NodeInv ==
  NodeTypeOK /\ CheckedCachesSound /\ CallsSound /\ EventsSound /\ EventsFollowRefresh

\* The node's answers are typed, and not older than the question.
LEMMA AnswersFollowQuestion ==
  ASSUME nodeEpoch \in Nat, NEW asked \in Nat, asked <= nodeEpoch, NEW a \in Answers(asked)
  PROVE  a \in NodeAnswer /\ a.epoch >= asked /\ a.kind # "undefined"
<1>1. CASE a \in {[kind |-> "value", epoch |-> e] : e \in asked..nodeEpoch}
  <2>1. PICK e \in asked..nodeEpoch : a = [kind |-> "value", epoch |-> e]
    BY <1>1
  <2> QED
    BY <2>1 DEF NodeAnswer
<1>2. CASE a \in [kind : {"error", "missing", "failure"} \cup TimedOut, epoch : {nodeEpoch}]
  BY <1>2 DEF NodeAnswer, TimedOut
<1> QED
  BY <1>1, <1>2 DEF Answers

LEMMA MaxOfTwo ==
  ASSUME NEW m \in Nat, NEW n \in Nat
  PROVE  Max({m, n}) \in Nat /\ Max({m, n}) >= m /\ Max({m, n}) >= n
<1>1. \E x \in {m, n} : \A y \in {m, n} : x >= y
  <2>1. CASE m >= n
    BY <2>1
  <2>2. CASE n >= m
    BY <2>2
  <2> QED
    BY <2>1, <2>2
<1> DEFINE x == CHOOSE x \in {m, n} : \A y \in {m, n} : x >= y
<1>2. x \in {m, n} /\ \A y \in {m, n} : x >= y
  BY <1>1
<1>3. Max({m, n}) = x
  BY DEF Max
<1> HIDE DEF x
<1> QED
  BY <1>2, <1>3

\* The history of the refreshed caches covers what is stored, and never falls.
LEMMA RefreshedGrows ==
  ASSUME refreshed \in [Refreshed -> Nat], caches' \in [Cache -> StoredAnswer],
         refreshed' = [r \in Refreshed |-> Max({refreshed[r], caches'[r].epoch})]
  PROVE  /\ refreshed' \in [Refreshed -> Nat]
         /\ \A r \in Refreshed : refreshed'[r] >= refreshed[r] /\ refreshed'[r] >= caches'[r].epoch
<1>1. ASSUME NEW r \in Refreshed
      PROVE  /\ refreshed'[r] \in Nat
             /\ refreshed'[r] >= refreshed[r]
             /\ refreshed'[r] >= caches'[r].epoch
  <2> DEFINE m == refreshed[r]
             n == caches'[r].epoch
  <2>1. m \in Nat /\ n \in Nat
    BY DEF Refreshed, Cache, StoredAnswer
  <2>2. refreshed'[r] = Max({m, n})
    OBVIOUS
  <2> HIDE DEF m, n
  <2>3. refreshed'[r] \in Nat /\ refreshed'[r] >= m /\ refreshed'[r] >= n
    BY <2>1, <2>2, MaxOfTwo
  <2> QED
    BY <2>3 DEF m, n
<1>2. DOMAIN refreshed' = Refreshed
  OBVIOUS
<1> QED
  BY <1>1, <1>2

\* What is refreshed covers the events as long as it does not fall.
LEMMA GrowthKeepsEvents ==
  ASSUME NodeTypeOK, EventsSound, EventsFollowRefresh, UNCHANGED <<nodeEpoch, eventsAt, dispatched>>,
         refreshed' \in [Refreshed -> Nat],
         \A r \in Refreshed : refreshed'[r] >= refreshed[r]
  PROVE  EventsSound' /\ EventsFollowRefresh'
<1>1. ASSUME NEW event \in Nat, NEW r \in Refreshed, refreshed[r] >= event
      PROVE  refreshed'[r] >= event
  <2>1. refreshed[r] \in Nat /\ refreshed'[r] \in Nat /\ refreshed'[r] >= refreshed[r]
    BY DEF NodeTypeOK
  <2> QED
    BY <1>1, <2>1
<1>2. EventsSound'
  BY <1>1 DEF EventsSound, Refreshed
<1>3. EventsFollowRefresh'
  <2>1. dispatched' \subseteq Nat
    BY DEF NodeTypeOK
  <2> QED
    BY <1>1, <2>1 DEF EventsFollowRefresh
<1> QED
  BY <1>2, <1>3

\* Whatever else a step does, an answer that it stores keeps the caches sound.
LEMMA StoringKeepsCaches ==
  ASSUME NodeTypeOK, CheckedCachesSound, NEW e, StoresSafely(e), NEW a \in NodeAnswer,
         caches' = Stored(e, a, Outcome(e, a)),
         refreshed' = [r \in Refreshed |-> Max({refreshed[r], caches'[r].epoch})]
  PROVE  /\ caches' \in [Cache -> StoredAnswer]
         /\ CheckedCachesSound'
         /\ refreshed' \in [Refreshed -> Nat]
         /\ \A r \in Refreshed : refreshed'[r] >= refreshed[r] /\ refreshed'[r] >= caches'[r].epoch
<1>1. caches' \in [Cache -> StoredAnswer]
  BY StoredKeepsChecked DEF NodeTypeOK
<1>2. CheckedCachesSound'
  BY StoredKeepsChecked DEF NodeTypeOK, CheckedCachesSound
<1>3. refreshed \in [Refreshed -> Nat]
  BY DEF NodeTypeOK
<1> QED
  BY <1>1, <1>2, <1>3, RefreshedGrows

\* What a request may have done to the node.
LEMMA ExecutionsCount ==
  ASSUME NEW c \in NodeCall, changes \in [NodeCall -> Nat], NEW a, Execute(c, a)
  PROVE  /\ changes' \in [NodeCall -> Nat]
         /\ changes'[c] \in {changes[c], changes[c] + 1}
         /\ \A d \in NodeCall \ {c} : changes'[d] = changes[d]
<1>1. PICK n \in Executions(nodeCalls[c].endpoint, a, changes[c]) : changes' = [changes EXCEPT ![c] = n]
  BY DEF Execute
<1>2. n \in {changes[c], changes[c] + 1}
  BY <1>1, Zenon DEF Executions
<1> QED
  BY <1>1, <1>2

LEMMA RetryCallKeepsInv ==
  ASSUME NodeInv, NEW c \in NodeCall, RetryCall(c)
  PROVE  NodeInv'
<1> DEFINE call == nodeCalls[c]
           again == [endpoint |-> call.endpoint, asked |-> call.asked,
                     retries |-> call.retries - 1, sent |-> call.sent + 1,
                     thrown |-> call.thrown \cup {"TimeoutException"}, result |-> Waiting]
<1>1. NodeTypeOK /\ CheckedCachesSound /\ CallsSound /\ EventsSound /\ EventsFollowRefresh
  BY DEF NodeInv
<1>2. PICK a \in Answers(call.asked) :
        /\ IsRetried(call, a)
        /\ nodeCalls' = [nodeCalls EXCEPT ![c] =
                           [endpoint |-> call.endpoint, asked |-> call.asked,
                            retries |-> call.retries - 1, sent |-> call.sent + 1,
                            thrown |-> call.thrown \cup {a.kind}, result |-> Waiting]]
        /\ Execute(c, a)
  BY DEF RetryCall
<1>3. call \in ConnectorCall /\ call.result = Waiting /\ CallSound(call, changes[c])
  BY <1>1 DEF NodeTypeOK, CallsSound, RetryCall
<1>4. call.retries # 0 /\ nodeCalls' = [nodeCalls EXCEPT ![c] = again]
  BY <1>2 DEF IsRetried
<1>5. /\ changes \in [NodeCall -> Nat]
      /\ changes' \in [NodeCall -> Nat]
      /\ changes'[c] \in {changes[c], changes[c] + 1}
      /\ \A d \in NodeCall \ {c} : changes'[d] = changes[d]
  BY <1>1, <1>2, ExecutionsCount DEF NodeTypeOK
<1>6. Waiting \in CallResult /\ Waiting.kind = "waiting" /\ Waiting # Undefined
  BY DEF Waiting, CallResult, Undefined
<1> HIDE DEF call
<1>7. again \in ConnectorCall
  BY <1>3, <1>4, <1>6, NodeAssumption DEF ConnectorCall, TimedOut
<1>8. RequestsSound(again, changes'[c])
  BY <1>3, <1>4, <1>5, NodeAssumption DEF CallSound, RequestsSound, ConnectorCall
<1>9. ResultSound(again)
  BY <1>3, <1>6 DEF CallSound, ResultSound
<1> HIDE DEF again
<1>10. nodeCalls'[c] = again /\ \A d \in NodeCall \ {c} : nodeCalls'[d] = nodeCalls[d]
  BY <1>1, <1>4 DEF NodeTypeOK
<1>11. nodeCalls' \in [NodeCall -> ConnectorCall]
  BY <1>1, <1>4, <1>7 DEF NodeTypeOK
<1>12. UNCHANGED <<nodeEpoch, caches, initAt, eventsAt, dispatched, refreshed>>
  BY DEF RetryCall, eventVars
<1>13. CallsSound'
  <2> SUFFICES ASSUME NEW d \in NodeCall
               PROVE  CallSound(nodeCalls[d], changes[d])'
    BY DEF CallsSound
  <2>1. CASE d = c
    BY <1>8, <1>9, <1>10, <1>12, <2>1 DEF CallSound, ResultSound, RequestsSound
  <2>2. CASE d # c
    BY <1>1, <1>5, <1>10, <1>12, <2>2 DEF CallsSound, CallSound, ResultSound, RequestsSound
  <2> QED
    BY <2>1, <2>2
<1> QED
  BY <1>1, <1>5, <1>11, <1>12, <1>13
  DEF NodeInv, NodeTypeOK, CheckedCachesSound, EventsSound, EventsFollowRefresh

LEMMA AnswerCallKeepsInv ==
  ASSUME NodeInv, NEW c \in NodeCall, AnswerCall(c)
  PROVE  NodeInv'
<1> DEFINE call == nodeCalls[c]
           e == call.endpoint
<1>1. NodeTypeOK /\ CheckedCachesSound /\ CallsSound /\ EventsSound /\ EventsFollowRefresh
  BY DEF NodeInv
<1>2. e \in nodeEndpoints /\ call.asked \in Nat /\ nodeEpoch \in Nat
  BY <1>1 DEF NodeTypeOK, ConnectorCall
<1>3. call \in ConnectorCall /\ call.result = Waiting /\ CallSound(call, changes[c])
  BY <1>1 DEF AnswerCall, NodeTypeOK, CallsSound
<1>4. PICK a \in Answers(call.asked) :
        /\ nodeCalls' = [nodeCalls EXCEPT ![c] =
                           [endpoint |-> e, asked |-> call.asked, retries |-> call.retries,
                            sent |-> call.sent, thrown |-> call.thrown \cup ({a.kind} \cap TimedOut),
                            result |-> Outcome(e, a)]]
        /\ caches' = Stored(e, a, Outcome(e, a))
        /\ Execute(c, a)
        /\ refreshed' = [r \in Refreshed |-> Max({refreshed[r], caches'[r].epoch})]
  BY DEF AnswerCall
<1> DEFINE o == Outcome(e, a)
           ended == [endpoint |-> e, asked |-> call.asked, retries |-> call.retries,
                     sent |-> call.sent, thrown |-> call.thrown \cup ({a.kind} \cap TimedOut),
                     result |-> o]
<1>5. a \in NodeAnswer /\ a.epoch >= call.asked /\ a.epoch \in Nat /\ a.kind # "undefined"
  <2>1. call.asked <= nodeEpoch
    BY <1>3 DEF CallSound, ResultSound
  <2>2. a \in NodeAnswer /\ a.epoch >= call.asked /\ a.kind # "undefined"
    BY <1>2, <2>1, AnswersFollowQuestion
  <2> QED
    BY <2>2 DEF NodeAnswer
<1>6. StoresSafely(e) /\ (e.onError = "undefined" => e.caches # << >>)
  BY <1>2, EndpointsStoreSafely
<1>7. /\ o \in CallResult
      /\ o.kind # "waiting"
      /\ o.kind = "undefined" => e.caches # << >>
      /\ o.kind \in {"value", "error"} => o.epoch = a.epoch
  BY <1>5, <1>6, OutcomeOfAnswer
<1>8. /\ caches' \in [Cache -> StoredAnswer]
      /\ CheckedCachesSound'
      /\ refreshed' \in [Refreshed -> Nat]
      /\ \A r \in Refreshed : refreshed'[r] >= refreshed[r]
  BY <1>1, <1>4, <1>5, <1>6, StoringKeepsCaches
<1>9. EventsSound' /\ EventsFollowRefresh'
  BY <1>1, <1>8, GrowthKeepsEvents DEF AnswerCall
<1>10. /\ changes \in [NodeCall -> Nat]
       /\ changes' \in [NodeCall -> Nat]
       /\ changes'[c] \in {changes[c], changes[c] + 1}
       /\ \A d \in NodeCall \ {c} : changes'[d] = changes[d]
  BY <1>1, <1>4, ExecutionsCount DEF NodeTypeOK
<1>11. nodeCalls' = [nodeCalls EXCEPT ![c] = ended] /\ UNCHANGED <<nodeEpoch, initAt, eventsAt, dispatched>>
  BY <1>4 DEF AnswerCall
<1> HIDE DEF o, call, e
<1>12. ended \in ConnectorCall
  BY <1>2, <1>3, <1>7 DEF ConnectorCall, TimedOut
<1>13. RequestsSound(ended, changes'[c])
  <2>1. o # Waiting
    BY <1>7 DEF Waiting
  <2>2. /\ call.sent \in Nat /\ changes[c] < call.sent /\ call.sent <= NUM_REQUEST_RETRIES + 1
        /\ changes[c] > 0 => "TimeoutException" \in call.thrown
    BY <1>3 DEF CallSound, RequestsSound, ConnectorCall
  <2> QED
    BY <1>10, <2>1, <2>2 DEF RequestsSound
<1>14. ResultSound(ended)
  <2>1. o = Undefined => e.caches # << >>
    BY <1>7 DEF Undefined
  <2>2. call.asked <= nodeEpoch
    BY <1>3 DEF CallSound, ResultSound
  <2> QED
    BY <1>5, <1>7, <2>1, <2>2 DEF ResultSound
<1> HIDE DEF ended
<1>15. nodeCalls'[c] = ended /\ \A d \in NodeCall \ {c} : nodeCalls'[d] = nodeCalls[d]
  BY <1>1, <1>11 DEF NodeTypeOK
<1>16. nodeCalls' \in [NodeCall -> ConnectorCall]
  BY <1>1, <1>11, <1>12 DEF NodeTypeOK
<1>17. CallsSound'
  <2> SUFFICES ASSUME NEW d \in NodeCall
               PROVE  CallSound(nodeCalls[d], changes[d])'
    BY DEF CallsSound
  <2>1. CASE d = c
    BY <1>11, <1>13, <1>14, <1>15, <2>1 DEF CallSound, ResultSound, RequestsSound
  <2>2. CASE d # c
    BY <1>1, <1>10, <1>11, <1>15, <2>2 DEF CallsSound, CallSound, ResultSound, RequestsSound
  <2> QED
    BY <2>1, <2>2
<1> QED
  BY <1>1, <1>8, <1>9, <1>10, <1>11, <1>16, <1>17 DEF NodeInv, NodeTypeOK

\* The first cache of an endpoint, and the second of one whose value is taken.
LEMMA CachesOfEndpoint ==
  ASSUME NEW e, StoresSafely(e)
  PROVE  /\ e.caches # << >> => e.caches[1] \in Cache
         /\ \A i \in DOMAIN e.caches : i = 1 \/ (i = 2 /\ IsTaken(e) /\ e.caches[2] \in Cache)
         /\ IsTaken(e) => e.caches[1] \in Cache /\ e.caches # << >>
         /\ e.caches = << >> => DOMAIN e.caches = {}
<1>1. CASE e.caches = << >>
  BY <1>1 DEF IsTaken
<1>2. ASSUME NEW c \in Cache, e.caches = <<c>>
      PROVE  e.caches[1] \in Cache /\ DOMAIN e.caches = {1} /\ ~IsTaken(e) /\ e.caches # << >>
  BY <1>2 DEF IsTaken
<1>3. ASSUME NEW c \in Cache, NEW d \in Cache, e.caches = <<c, d>>
      PROVE  /\ e.caches[1] \in Cache
             /\ e.caches[2] \in Cache
             /\ DOMAIN e.caches = {1, 2}
             /\ IsTaken(e)
             /\ e.caches # << >>
  BY <1>3 DEF IsTaken
<1> QED
  BY <1>1, <1>2, <1>3 DEF StoresSafely

LEMMA StartCallKeepsInv ==
  ASSUME NodeInv, NEW c \in NodeCall, NEW e \in nodeEndpoints, StartCall(c, e)
  PROVE  NodeInv'
<1> DEFINE forced == isForceUpdate(e)
           taken == IF caches[e.caches[2]].kind = "value" THEN caches[e.caches[2]]
                    ELSE IF e.onError = "undefined" THEN Undefined ELSE Failed
           found == IF IsAsked(e, forced) THEN Waiting
                     ELSE IF IsReturned(e, forced) THEN caches[e.caches[1]] ELSE taken
<1>1. NodeTypeOK /\ CheckedCachesSound /\ CallsSound /\ EventsSound /\ EventsFollowRefresh
  BY DEF NodeInv
<1>2. /\ nodeCalls' = [nodeCalls EXCEPT ![c] =
                          NewCall(e, nodeEpoch, IF found = Waiting THEN 1 ELSE 0, found)]
      /\ caches' = IF found.kind = "value" /\ IsTaken(e)
                   THEN [caches EXCEPT ![e.caches[1]] = found] ELSE caches
      /\ changes' = [changes EXCEPT ![c] = 0]
      /\ UNCHANGED <<nodeEpoch, initAt, prepared, eventVars>>
  BY DEF StartCall
<1>3. StoresSafely(e)
  BY EndpointsStoreSafely
<1>4. \/ found = Waiting
      \/ found = Failed
      \/ found \in StoredAnswer /\ e # getNodeInfo /\ e.caches # << >>
  <2>1. CASE IsAsked(e, forced)
    BY <2>1
  <2>2. CASE ~IsAsked(e, forced)
    <3>1. e # getNodeInfo /\ e.caches # << >> /\ \E i \in DOMAIN e.caches : IsStored(e.caches[i])
      BY <1>3, <2>2, CachesOfEndpoint DEF IsAsked, isForceUpdate
    <3>2. CASE IsReturned(e, forced)
      <4>1. found = caches[e.caches[1]]
        BY <2>2, <3>2
      <4>2. e.caches[1] \in Cache
        BY <1>3, <3>1, CachesOfEndpoint
      <4> HIDE DEF found
      <4> QED
        BY <1>1, <3>1, <4>1, <4>2 DEF NodeTypeOK
    <3>3. CASE ~IsReturned(e, forced)
      <4>1. found = taken
        BY <2>2, <3>3
      <4>2. ~IsStored(e.caches[1])
        BY <2>2, <3>1, <3>3 DEF IsReturned, IsAsked
      <4>3. e.caches[2] \in Cache
        BY <1>3, <3>1, <4>2, CachesOfEndpoint
      <4>4. caches[e.caches[2]] \in StoredAnswer
        BY <1>1, <4>3 DEF NodeTypeOK
      <4>5. taken \in StoredAnswer \/ taken = Failed
        <5>1. Undefined \in StoredAnswer
          BY DEF Undefined, StoredAnswer
        <5> QED
          BY <4>4, <5>1
      <4> HIDE DEF found, taken
      <4> QED
        BY <3>1, <4>1, <4>5
    <3> QED
      BY <3>2, <3>3
  <2> QED
    BY <2>1, <2>2
<1> HIDE DEF found
<1>5. /\ found \in CallResult
      /\ found.kind # "timeout"
      /\ found.kind = "value" => found \in StoredAnswer /\ e # getNodeInfo /\ e.caches # << >>
  BY <1>4 DEF Waiting, Failed, StoredAnswer, CallResult
<1>6. caches' \in [Cache -> StoredAnswer] /\ CheckedCachesSound'
  <2>1. CASE caches' = caches
    BY <1>1, <2>1 DEF NodeTypeOK, CheckedCachesSound
  <2>2. CASE /\ caches' = [caches EXCEPT ![e.caches[1]] = found]
             /\ found.kind = "value" /\ IsTaken(e)
    <3>1. found \in StoredAnswer
      BY <1>5, <2>2
    <3>2. caches' \in [Cache -> StoredAnswer]
      BY <1>1, <2>2, <3>1 DEF NodeTypeOK
    <3>3. \A d \in Cache : caches'[d] \in {found, caches[d]}
      BY <1>1, <2>2 DEF NodeTypeOK
    <3>4. CheckedCachesSound'
      BY <1>1, <2>2, <3>3 DEF CheckedCachesSound, CheckedCache
    <3> QED
      BY <3>2, <3>4
  <2> QED
    BY <1>2, <2>1, <2>2
<1> DEFINE call == NewCall(e, nodeEpoch, IF found = Waiting THEN 1 ELSE 0, found)
<1>7. call \in ConnectorCall
  BY <1>1, <1>5, NodeAssumption DEF NewCall, NodeTypeOK, ConnectorCall
<1>8. CallSound(call, 0)
  <2>1. found = Undefined => e.caches # << >>
    BY <1>4 DEF Undefined, Waiting, Failed
  <2> QED
    BY <1>1, <1>5, <2>1, NodeAssumption DEF NewCall, NodeTypeOK, CallSound, RequestsSound, ResultSound
<1>10. /\ nodeCalls' \in [NodeCall -> ConnectorCall] /\ nodeCalls'[c] = call
       /\ changes' \in [NodeCall -> Nat] /\ changes'[c] = 0
       /\ \A d \in NodeCall \ {c} : nodeCalls'[d] = nodeCalls[d] /\ changes'[d] = changes[d]
  <2> HIDE DEF call
  <2>1. nodeCalls' = [nodeCalls EXCEPT ![c] = call]
    BY <1>2 DEF call
  <2> QED
    BY <1>1, <1>2, <1>7, <2>1 DEF NodeTypeOK
<1> HIDE DEF call
<1>11. CallsSound'
  <2> SUFFICES ASSUME NEW d \in NodeCall
               PROVE  CallSound(nodeCalls[d], changes[d])'
    BY DEF CallsSound
  <2>1. CASE d = c
    BY <1>2, <1>8, <1>10, <2>1 DEF CallSound, ResultSound, RequestsSound
  <2>2. CASE d # c
    BY <1>1, <1>2, <1>10, <2>2 DEF CallsSound, CallSound, ResultSound, RequestsSound
  <2> QED
    BY <2>1, <2>2
<1>9. EventsSound' /\ EventsFollowRefresh'
  BY <1>1, <1>2 DEF EventsSound, EventsFollowRefresh, eventVars
<1> QED
  BY <1>1, <1>2, <1>6, <1>9, <1>10, <1>11 DEF NodeInv, NodeTypeOK, eventVars

\* Without a call nothing was asked and nothing done.
LEMMA NoCallSound ==
  ASSUME nodeEpoch \in Nat
  PROVE  NoCall \in ConnectorCall /\ CallSound(NoCall, 0)
<1>1. Undefined \in CallResult /\ Undefined # Waiting /\ Undefined.kind = "undefined"
  BY DEF Undefined, Waiting, CallResult
<1>2. NoCall = [endpoint |-> getNodeInfo, asked |-> 0, retries |-> NUM_REQUEST_RETRIES, sent |-> 0,
                thrown |-> {}, result |-> Undefined]
  BY DEF NoCall, NewCall
<1>3. getNodeInfo \in nodeEndpoints /\ getNodeInfo.caches # << >>
  BY DEF nodeEndpoints, getNodeInfo, CachedIn, Ask
<1>4. NoCall \in ConnectorCall
  BY <1>1, <1>2, <1>3, NodeAssumption DEF ConnectorCall
<1>5. RequestsSound(NoCall, 0)
  BY <1>1, <1>2, NodeAssumption DEF RequestsSound
<1>6. ResultSound(NoCall)
  BY <1>1, <1>2, <1>3 DEF ResultSound
<1> QED
  BY <1>4, <1>5, <1>6 DEF CallSound

\* A process that is started again knows nothing; the node keeps its age.
LEMMA RestartKeepsInv ==
  ASSUME NodeInv, Restart, UNCHANGED nodeEpoch
  PROVE  NodeInv'
<1>1. nodeEpoch \in Nat
  BY DEF NodeInv, NodeTypeOK
<1>2. Undefined \in StoredAnswer /\ Undefined.kind = "undefined"
  BY DEF Undefined, StoredAnswer
<1>3. NoCall \in ConnectorCall /\ CallSound(NoCall, 0)
  BY <1>1, NoCallSound
<1>4. NodeTypeOK'
  BY <1>1, <1>2, <1>3 DEF Restart, NodeTypeOK
<1>5. CheckedCachesSound'
  BY <1>2 DEF Restart, CheckedCachesSound, CheckedCache
<1>6. CallsSound'
  <2> SUFFICES ASSUME NEW c \in NodeCall
               PROVE  CallSound(nodeCalls[c], changes[c])'
    BY DEF CallsSound
  <2>1. nodeCalls'[c] = NoCall /\ changes'[c] = 0
    BY DEF Restart
  <2> QED
    BY <1>3, <2>1 DEF CallSound, ResultSound, RequestsSound
<1>7. EventsSound' /\ EventsFollowRefresh'
  BY DEF Restart, EventsSound, EventsFollowRefresh
<1> QED
  BY <1>4, <1>5, <1>6, <1>7 DEF NodeInv

LEMMA InitStepKeepsInv ==
  ASSUME NodeInv, InitStep
  PROVE  NodeInv'
<1> DEFINE e == initSteps[initAt].endpoint
           known == IF initAt = 4 THEN {} ELSE {caches[e.caches[1]]} \ {Undefined}
<1>1. NodeTypeOK /\ CheckedCachesSound /\ CallsSound /\ EventsSound /\ EventsFollowRefresh
  BY DEF NodeInv
<1>2. initAt \in 1..9
  BY <1>1 DEF InitStep, IsStarted, initSteps, NodeTypeOK
<1>3. StoresSafely(e) /\ e.caches[1] \in Cache
  BY <1>2, InitStepsStoreSafely, CachesOfEndpoint
<1>4. PICK a \in IF known # {} THEN known ELSE Answers(nodeEpoch) :
        \/ Restart
        \/ \E failed \in BOOLEAN :
             /\ initAt' = 1 \/ initAt' = NextStep(failed)
             /\ caches' = Stored(e, a, Outcome(e, a))
             /\ refreshed' = [r \in Refreshed |-> Max({refreshed[r], caches'[r].epoch})]
             /\ UNCHANGED <<nodeCalls, changes, eventsAt, dispatched>>
  <2> DEFINE step == initSteps[initAt]
             isFailed(a) == Outcome(e, a).kind \notin {"value", "error"}
             isFatal(a) == isFailed(a) /\ initAt > 1 /\ step.sets # "fees"
  <2>1. PICK a \in IF known # {} THEN known ELSE Answers(nodeEpoch) :
          \/ isFatal(a) /\ Restart
          \/ /\ ~isFatal(a)
             /\ initAt' = IF initAt = 1 /\ isFailed(a) THEN 1 ELSE NextStep(isFailed(a))
             /\ caches' = Stored(e, a, Outcome(e, a))
             /\ prepared' = prepared \cup ({step.sets} \ {"none", "fees"})
             /\ refreshed' = [r \in Refreshed |-> Max({refreshed[r], caches'[r].epoch})]
             /\ UNCHANGED <<nodeCalls, changes, eventsAt, dispatched>>
    BY Zenon DEF InitStep
  <2>2. isFailed(a) \in BOOLEAN
    OBVIOUS
  <2> QED
    BY <2>1, <2>2, Zenon
<1>5. UNCHANGED nodeEpoch
  BY DEF InitStep
<1>6. CASE Restart
  BY <1>5, <1>6, RestartKeepsInv
<1>7. ASSUME NEW failed \in BOOLEAN,
             initAt' = 1 \/ initAt' = NextStep(failed),
             caches' = Stored(e, a, Outcome(e, a)),
             refreshed' = [r \in Refreshed |-> Max({refreshed[r], caches'[r].epoch})],
             UNCHANGED <<nodeCalls, changes, eventsAt, dispatched>>
      PROVE  NodeInv'
  <2>1. a \in NodeAnswer
    <3>1. CASE a \in known
      <4>1. a = caches[e.caches[1]]
        BY <3>1
      <4>2. a \in StoredAnswer
        BY <1>1, <1>3, <4>1 DEF NodeTypeOK
      <4> QED
        BY <4>2 DEF StoredAnswer, NodeAnswer
    <3>2. CASE a \in Answers(nodeEpoch)
      BY <1>1, <3>2, AnswersFollowQuestion DEF NodeTypeOK
    <3> QED
      BY <3>1, <3>2
  <2>2. /\ caches' \in [Cache -> StoredAnswer]
        /\ CheckedCachesSound'
        /\ refreshed' \in [Refreshed -> Nat]
        /\ \A r \in Refreshed : refreshed'[r] >= refreshed[r]
    BY <1>1, <1>3, <1>7, <2>1, StoringKeepsCaches
  <2>3. EventsSound' /\ EventsFollowRefresh'
    BY <1>1, <1>5, <1>7, <2>2, GrowthKeepsEvents
  <2>4. initAt' \in 1..11
    BY <1>2, <1>7 DEF NextStep
  <2>5. CallsSound'
    BY <1>1, <1>5, <1>7 DEF CallsSound, CallSound, ResultSound, RequestsSound
  <2> QED
    BY <1>1, <1>5, <1>7, <2>2, <2>3, <2>4, <2>5 DEF NodeInv, NodeTypeOK
<1> QED
  BY <1>4, <1>6, <1>7, Zenon

LEMMA NodeMovesKeepsInv ==
  ASSUME NodeInv, NodeMoves
  PROVE  NodeInv'
<1>1. NodeTypeOK /\ CheckedCachesSound /\ CallsSound /\ EventsSound /\ EventsFollowRefresh
  BY DEF NodeInv
<1>2. /\ nodeEpoch' = nodeEpoch + 1 /\ nodeEpoch \in Nat /\ nodeEpoch' \in 1..MaxEpoch
      /\ eventsAt' \in {eventsAt, [eventsAt EXCEPT ![nodeEpoch'] = "nodeInfo"]}
      /\ UNCHANGED <<caches, nodeCalls, changes, initAt, prepared, dispatched, refreshed>>
  BY <1>1, NodeAssumption DEF NodeMoves, NodeTypeOK, callVars
<1>3. NodeTypeOK'
  BY <1>1, <1>2 DEF NodeTypeOK
<1>4. CheckedCachesSound' /\ EventsFollowRefresh'
  BY <1>1, <1>2 DEF CheckedCachesSound, EventsFollowRefresh
<1>5. CallsSound'
  <2> SUFFICES ASSUME NEW c \in NodeCall
               PROVE  CallSound(nodeCalls[c], changes[c])'
    BY DEF CallsSound
  <2>1. nodeCalls[c].asked \in Nat /\ CallSound(nodeCalls[c], changes[c])
    BY <1>1 DEF NodeTypeOK, ConnectorCall, CallsSound
  <2> QED
    BY <1>2, <2>1 DEF CallSound, ResultSound, RequestsSound
<1>6. EventsSound'
  <2> SUFFICES ASSUME NEW event \in 1..MaxEpoch
               PROVE  /\ eventsAt'[event] # "none" => event <= nodeEpoch'
                      /\ eventsAt'[event] = "escrowedAmounts" => refreshed'["nodeInfo"] >= event
    BY DEF EventsSound
  <2>1. \/ eventsAt'[event] = eventsAt[event]
        \/ eventsAt'[event] = "nodeInfo" /\ event = nodeEpoch'
    BY <1>1, <1>2 DEF NodeTypeOK
  <2> QED
    BY <1>1, <1>2, <2>1 DEF EventsSound
<1> QED
  BY <1>3, <1>4, <1>5, <1>6 DEF NodeInv

\* The refreshing requests store their own answer, also an error.
LEMMA RefreshStores ==
  ASSUME NEW c \in Refreshed, NEW e, e = IF c = "nodeInfo" THEN getNodeInfo ELSE getEscrowedAmounts
  PROVE  /\ e \in nodeEndpoints
         /\ \A a, o : o.kind \in {"value", "error"} => Stored(e, a, o)[c] = o
<1>1. e.caches = <<c>> /\ e \in nodeEndpoints
  <2>1. CASE c = "nodeInfo"
    BY <2>1 DEF getNodeInfo, CachedIn, Ask, nodeEndpoints
  <2>2. CASE c = "escrowedAmounts"
    BY <2>2 DEF getEscrowedAmounts, CachedIn, Ask, nodeEndpoints
  <2> QED
    BY <2>1, <2>2 DEF Refreshed
<1>2. c \in Range(e.caches)
  BY <1>1 DEF Range
<1>3. c \in Cache
  BY DEF Refreshed, Cache
<1> QED
  <2>1. ~IsTaken(e)
    BY <1>1 DEF IsTaken
  <2>2. \A a, o : o.kind \in {"value", "error"} => Stored(e, a, o)[c] = o
    BY <1>2, <1>3, <2>1 DEF Stored
  <2> QED
    BY <1>1, <2>2

LEMMA RefreshOnEventKeepsInv ==
  ASSUME NodeInv, NEW event \in 1..MaxEpoch, RefreshOnEvent(event)
  PROVE  NodeInv'
<1> DEFINE c == eventsAt[event]
           e == IF c = "nodeInfo" THEN getNodeInfo ELSE getEscrowedAmounts
<1>1. NodeTypeOK /\ CheckedCachesSound /\ CallsSound /\ EventsSound /\ EventsFollowRefresh
  BY DEF NodeInv
<1>2. c \in Refreshed /\ UNCHANGED <<nodeEpoch, nodeCalls, changes, callsMade, initAt, prepared>>
  BY DEF RefreshOnEvent
<1>3. event \in Nat /\ event <= nodeEpoch /\ nodeEpoch \in Nat
  BY <1>1, <1>2, NodeAssumption DEF EventsSound, Refreshed, NodeTypeOK
<1>4. PICK a \in Answers(event) :
        LET o == Outcome(e, a)
            next == IF o.kind \in {"value", "error"} THEN AfterRefresh(c) ELSE "lost"
        IN  /\ eventsAt' = [eventsAt EXCEPT ![event] = next]
            /\ dispatched' = IF next = "dispatched" THEN dispatched \cup {event} ELSE dispatched
            /\ caches' = Stored(e, a, o)
            /\ refreshed' = [r \in Refreshed |-> Max({refreshed[r], caches'[r].epoch})]
  BY DEF RefreshOnEvent
<1> DEFINE o == Outcome(e, a)
           next == IF o.kind \in {"value", "error"} THEN AfterRefresh(c) ELSE "lost"
<1>5. a \in NodeAnswer /\ a.epoch >= event
  BY <1>3, AnswersFollowQuestion
<1>6. /\ e \in nodeEndpoints
      /\ o.kind \in {"value", "error"} => Stored(e, a, o)[c] = o
  BY <1>2, RefreshStores
<1>7. StoresSafely(e)
  BY <1>6, EndpointsStoreSafely
<1>8. o.kind \in {"value", "error"} => o.epoch = a.epoch
  BY <1>5, OutcomeOfAnswer
<1>9. /\ caches' \in [Cache -> StoredAnswer]
      /\ CheckedCachesSound'
      /\ refreshed' \in [Refreshed -> Nat]
      /\ \A r \in Refreshed : refreshed'[r] >= refreshed[r] /\ refreshed'[r] >= caches'[r].epoch
  BY <1>1, <1>4, <1>5, <1>7, StoringKeepsCaches
<1>10. next # "lost" => refreshed'[c] >= event
  <2>1. next # "lost" => o.kind \in {"value", "error"}
    OBVIOUS
  <2>2. next # "lost" => caches'[c].epoch = a.epoch
    BY <1>4, <1>6, <1>8, <2>1
  <2>3. a.epoch \in Nat /\ refreshed'[c] \in Nat /\ refreshed'[c] >= caches'[c].epoch
    BY <1>2, <1>5, <1>9 DEF NodeAnswer
  <2> HIDE DEF next, c
  <2> QED
    BY <1>3, <1>5, <2>2, <2>3
<1>11. /\ eventsAt' = [eventsAt EXCEPT ![event] = next]
       /\ dispatched' = IF next = "dispatched" THEN dispatched \cup {event} ELSE dispatched
  BY <1>4
<1>12. next \in {"lost", AfterRefresh(c)}
  OBVIOUS
<1> HIDE DEF next, o, e
<1>13. ASSUME NEW r \in Refreshed, NEW n \in Nat, refreshed[r] >= n
       PROVE  refreshed'[r] >= n
  <2>1. refreshed[r] \in Nat /\ refreshed'[r] \in Nat /\ refreshed'[r] >= refreshed[r]
    BY <1>1, <1>9 DEF NodeTypeOK
  <2> QED
    BY <1>13, <2>1
<1>14. /\ next = "escrowedAmounts" => c = "nodeInfo"
       /\ next = "dispatched" => c = "escrowedAmounts"
       /\ next \in {"escrowedAmounts", "dispatched", "lost"}
  BY <1>2, <1>12 DEF AfterRefresh, Refreshed
<1>15. EventsSound'
  <2> SUFFICES ASSUME NEW other \in 1..MaxEpoch
               PROVE  /\ eventsAt'[other] # "none" => other <= nodeEpoch'
                      /\ eventsAt'[other] = "escrowedAmounts" => refreshed'["nodeInfo"] >= other
    BY DEF EventsSound
  <2>1. CASE other = event
    <3>1. eventsAt'[other] = next
      BY <1>1, <1>11, <2>1 DEF NodeTypeOK
    <3> QED
      BY <1>2, <1>3, <1>10, <1>14, <2>1, <3>1
  <2>2. CASE other # event
    <3>1. eventsAt'[other] = eventsAt[other]
      BY <1>1, <1>11, <2>2 DEF NodeTypeOK
    <3>2. other \in Nat /\ "nodeInfo" \in Refreshed
      BY NodeAssumption DEF Refreshed
    <3> QED
      BY <1>1, <1>2, <1>13, <3>1, <3>2 DEF EventsSound
  <2> QED
    BY <2>1, <2>2
<1>16. EventsFollowRefresh'
  <2> SUFFICES ASSUME NEW d \in dispatched', NEW r \in Refreshed
               PROVE  refreshed'[r] >= d
    BY DEF EventsFollowRefresh
  <2>1. CASE d \in dispatched
    BY <1>1, <1>13, <2>1 DEF EventsFollowRefresh, NodeTypeOK
  <2>2. CASE d \notin dispatched
    <3>1. d = event /\ next = "dispatched"
      BY <1>11, <2>2
    <3>2. refreshed["nodeInfo"] >= event /\ refreshed'["escrowedAmounts"] >= event
      BY <1>1, <1>10, <1>14, <3>1 DEF EventsSound
    <3>3. refreshed'["nodeInfo"] >= event
      BY <1>3, <1>13, <3>2 DEF Refreshed
    <3> QED
      BY <3>1, <3>2, <3>3 DEF Refreshed
  <2> QED
    BY <2>1, <2>2
<1>17. NodeTypeOK'
  BY <1>1, <1>2, <1>9, <1>11, <1>14 DEF NodeTypeOK
<1>18. CallsSound'
  BY <1>1, <1>2 DEF CallsSound, CallSound, ResultSound, RequestsSound
<1> QED
  BY <1>9, <1>15, <1>16, <1>17, <1>18 DEF NodeInv

\* A step of the connector is a call, a step of its start or an event, or leaves
\* their state alone.
LEMMA NodeSteps ==
  [Next]_vars =>
    \/ \E c \in NodeCall : RetryCall(c) \/ AnswerCall(c) \/ \E e \in nodeEndpoints : StartCall(c, e)
    \/ InitStep
    \/ EventsNext
    \/ UNCHANGED <<nodeEpoch, caches, nodeCalls, changes, initAt, eventVars>>
<1> SUFFICES ASSUME [Next]_vars
             PROVE  \/ \E c \in NodeCall : RetryCall(c) \/ AnswerCall(c) \/ \E e \in nodeEndpoints : StartCall(c, e)
                    \/ InitStep
                    \/ EventsNext
                    \/ UNCHANGED <<nodeEpoch, caches, nodeCalls, changes, initAt, eventVars>>
  OBVIOUS
<1>1. Overlapping \subseteq nodeEndpoints
  BY DEF Overlapping, nodeEndpoints
<1>2. CASE CallsNext(nodeEndpoints) \/ CallsNext(Overlapping)
  BY <1>1, <1>2 DEF CallsNext
<1>3. CASE UNCHANGED nodeVars
  BY <1>3 DEF nodeVars, callVars
<1>4. CASE AskBlocks
  BY <1>4 DEF AskBlocks, callVars
<1>5. CASE PeersNext
  BY <1>5 DEF PeersNext, PeerMoves, AskPeers, StorePeers, callVars
<1> QED
  BY <1>2, <1>3, <1>4, <1>5, Zenon DEF Next, vars, ClientStep, NodeStep, GenesisStep, FeeStep

\* NodeInv is inductive.
LEMMA NodeInvariant == Spec => []NodeInv
<1>1. Init => NodeInv
  <2> SUFFICES ASSUME NodeInit
               PROVE  NodeInv
    BY DEF Init
  <2>1. Undefined \in StoredAnswer /\ Undefined.kind = "undefined"
    BY DEF Undefined, StoredAnswer
  <2>2. NoCall \in ConnectorCall /\ CallSound(NoCall, 0)
    <3>1. nodeEpoch \in Nat
      BY DEF NodeInit
    <3> QED
      BY <3>1, NoCallSound
  <2>3. NodeTypeOK
    BY <2>1, <2>2 DEF NodeInit, NodeTypeOK
  <2>4. CheckedCachesSound
    BY <2>1 DEF NodeInit, CheckedCachesSound, CheckedCache
  <2>5. CallsSound
    BY <2>2 DEF NodeInit, CallsSound
  <2>6. EventsSound /\ EventsFollowRefresh
    BY DEF NodeInit, EventsSound, EventsFollowRefresh
  <2> QED
    BY <2>3, <2>4, <2>5, <2>6 DEF NodeInv
<1>2. NodeInv /\ [Next]_vars => NodeInv'
  <2> SUFFICES ASSUME NodeInv, [Next]_vars
               PROVE  NodeInv'
    OBVIOUS
  <2>1. CASE UNCHANGED <<nodeEpoch, caches, nodeCalls, changes, initAt, eventVars>>
    BY <2>1 DEF eventVars, NodeInv, NodeTypeOK, CheckedCachesSound, CallsSound, CallSound, ResultSound, RequestsSound,
       EventsSound, EventsFollowRefresh
  <2> QED
    BY <2>1, NodeSteps, RetryCallKeepsInv, AnswerCallKeepsInv, StartCallKeepsInv, InitStepKeepsInv, NodeMovesKeepsInv,
       RefreshOnEventKeepsInv DEF EventsNext
<1> QED
  BY <1>1, <1>2, PTL DEF Spec

\* Refreshed and uncached answers are no older than the call, and a chain event is
\* passed on only after answers of its time were stored, for any number of calls,
\* events and restarts in any order (endpoints_1.js, events.js).
THEOREM NodeAnswersAreFaithful == Spec => []NodeAnswersFaithful
<1>1. NodeInv => NodeAnswersFaithful
  BY DEF NodeInv, CallsSound, CallSound, ResultSound, NodeAnswersFaithful, RefreshedAnswersFresh
<1> QED
  BY <1>1, NodeInvariant, PTL

\* A request is sent at most NUM_REQUEST_RETRIES + 1 times, again only after a
\* TimeoutException, the node acts on it at most once each time, and the loop ends
\* with an answer or an error, for any number of retries, calls and restarts
\* (client.js, invokeEndpoint).
THEOREM TimeoutsAreSafe == Spec => []TimeoutsSafe
<1>1. NodeInv => TimeoutsSafe
  BY DEF NodeInv, CallsSound, CallSound, RequestsSound, ResultSound, TimeoutsSafe
<1> QED
  BY <1>1, NodeInvariant, PTL
-----------------------------------------------------------------------------
(* The list of peers *)

KnownPeer == Peer \X {"connected", "disconnected"}

\* What the peer lists and statistics are made from.
PeerInv ==
  /\ peerStore \in [peers : SUBSET KnownPeer, connected : SUBSET KnownPeer,
                    disconnected : SUBSET KnownPeer,
                    statistics : [totalPeers : Nat, connectedPeers : Nat, disconnectedPeers : Nat]]
  /\ reloads \in [Reload -> [at : {"idle", "connected", "locations"}, peers : SUBSET KnownPeer]]
  /\ PeerCacheConsistent

LEMMA KnownPeersFinite == IsFiniteSet(KnownPeer)
<1>1. IsFiniteSet({"connected", "disconnected"})
  <2>1. {"connected", "disconnected"} = {"connected"} \cup {"disconnected"}
    OBVIOUS
  <2> QED
    <3>1. IsFiniteSet({"connected"}) /\ IsFiniteSet({"disconnected"})
      BY FS_Singleton
    <3>2. IsFiniteSet({"connected"} \cup {"disconnected"})
      BY <3>1, FS_Union
    <3> QED
      BY <2>1, <3>2
<1> QED
  BY <1>1, NodeAssumption, FS_Product DEF KnownPeer

\* A list of peers splits into the connected and the disconnected ones, and a peer
\* that is on both counts in both.
LEMMA PeersSplit ==
  ASSUME NEW peers \in SUBSET KnownPeer
  PROVE  LET connected == {p \in peers : p[2] = "connected"}
             disconnected == {p \in peers : p[2] = "disconnected"}
         IN  /\ connected \cup disconnected = peers
             /\ connected \subseteq KnownPeer /\ disconnected \subseteq KnownPeer
             /\ Cardinality(connected) \in Nat /\ Cardinality(disconnected) \in Nat
             /\ Cardinality(peers) = Cardinality(connected) + Cardinality(disconnected)
<1> DEFINE connected == {p \in peers : p[2] = "connected"}
           disconnected == {p \in peers : p[2] = "disconnected"}
<1>1. connected \cup disconnected = peers /\ connected \cap disconnected = {}
  BY DEF KnownPeer
<1>2. connected \subseteq KnownPeer /\ disconnected \subseteq KnownPeer
  OBVIOUS
<1> HIDE DEF connected, disconnected
<1>3. IsFiniteSet(connected) /\ IsFiniteSet(disconnected)
  BY <1>2, KnownPeersFinite, FS_Subset
<1>4. Cardinality(connected) \in Nat /\ Cardinality(disconnected) \in Nat
  BY <1>3, FS_CardinalityType
<1>5. Cardinality(connected \cup disconnected)
        = Cardinality(connected) + Cardinality(disconnected) - Cardinality({})
  BY <1>1, <1>3, FS_Union
<1>6. Cardinality({}) = 0
  BY FS_EmptySet
<1>7. Cardinality(peers) = Cardinality(connected) + Cardinality(disconnected)
  BY <1>1, <1>4, <1>5, <1>6
<1> QED
  BY <1>1, <1>2, <1>4, <1>7 DEF connected, disconnected

LEMMA StorePeersKeepsInv ==
  ASSUME PeerInv, NEW r \in Reload, StorePeers(r)
  PROVE  PeerInv'
<1> DEFINE peers == reloads[r].peers
           connected == {p \in peers : p[2] = "connected"}
           disconnected == {p \in peers : p[2] = "disconnected"}
<1>1. peers \in SUBSET KnownPeer
  BY DEF PeerInv
<1>2. /\ connected \cup disconnected = peers
      /\ connected \subseteq KnownPeer /\ disconnected \subseteq KnownPeer
      /\ Cardinality(connected) \in Nat /\ Cardinality(disconnected) \in Nat
      /\ Cardinality(peers) = Cardinality(connected) + Cardinality(disconnected)
  BY <1>1, PeersSplit
<1>3. NewPeers(peers) = [peers |-> peers, connected |-> connected, disconnected |-> disconnected,
                         statistics |-> peerStore.statistics]
  <2> HIDE DEF peers, connected, disconnected
  <2>1. NewPeers(peers) = [peerStore EXCEPT !.peers = peers, !.connected = connected,
                                            !.disconnected = disconnected]
    BY DEF NewPeers, connected, disconnected
  <2> QED
    BY <2>1 DEF PeerInv
<1> HIDE DEF peers, connected, disconnected
<1> DEFINE statistics == [totalPeers |-> Cardinality(peers), connectedPeers |-> Cardinality(connected),
                          disconnectedPeers |-> Cardinality(disconnected)]
<1>4. refreshStatistics(NewPeers(peers)) = statistics
  BY <1>3 DEF refreshStatistics
<1> HIDE DEF statistics
<1>5. peerStore' = [peers |-> peers, connected |-> connected, disconnected |-> disconnected,
                    statistics |-> statistics]
  <2>1. peerStore' = [NewPeers(peers) EXCEPT !.statistics = statistics]
    BY <1>4 DEF StorePeers, reload, peers
  <2> QED
    BY <1>3, <2>1
<1>6. statistics \in [totalPeers : Nat, connectedPeers : Nat, disconnectedPeers : Nat]
  BY <1>2 DEF statistics
<1>7. PeerCacheConsistent'
  BY <1>2, <1>5 DEF PeerCacheConsistent, statistics
<1>8. reloads' \in [Reload -> [at : {"idle", "connected", "locations"}, peers : SUBSET KnownPeer]]
  BY DEF StorePeers, PeerInv
<1> QED
  BY <1>1, <1>2, <1>5, <1>6, <1>7, <1>8 DEF PeerInv

LEMMA AskPeersKeepsInv ==
  ASSUME PeerInv, NEW r \in Reload, AskPeers(r)
  PROVE  PeerInv'
<1>1. With(ConnectedPeers, "connected") \subseteq KnownPeer
  BY DEF With, ConnectedPeers, KnownPeer
<1>2. With(Peer \ ConnectedPeers, "disconnected") \subseteq KnownPeer
  BY DEF With, KnownPeer
<1>3. PICK reading \in [at : {"idle", "connected", "locations"}, peers : SUBSET KnownPeer] :
        reloads' = [reloads EXCEPT ![r] = reading]
  <2>1. reloads[r].peers \subseteq KnownPeer
    BY DEF PeerInv
  <2>2. CASE AskConnected(r)
    BY <1>1, <2>2 DEF AskConnected
  <2>3. CASE AskDisconnected(r)
    <3> DEFINE both == reloads[r].peers \cup With(Peer \ ConnectedPeers, "disconnected")
    <3>1. both \in SUBSET KnownPeer
      BY <1>2, <2>1
    <3>2. reloads' = [reloads EXCEPT ![r] = [at |-> "locations", peers |-> both]]
      BY <2>3 DEF AskDisconnected, PeerInv
    <3> HIDE DEF both
    <3> QED
      BY <3>1, <3>2
  <2>4. CASE ReloadFails(r)
    BY <2>4 DEF ReloadFails
  <2> QED
    BY <2>2, <2>3, <2>4 DEF AskPeers
<1>4. reloads' \in [Reload -> [at : {"idle", "connected", "locations"}, peers : SUBSET KnownPeer]]
  BY <1>3 DEF PeerInv
<1> QED
  BY <1>4 DEF AskPeers, PeerInv, PeerCacheConsistent

\* A step of the connector is one of the peers' or leaves their lists alone.
LEMMA PeerSteps ==
  [Next]_vars => PeersNext \/ UNCHANGED <<peerStore, reloads>>
<1> SUFFICES ASSUME [Next]_vars
             PROVE  PeersNext \/ UNCHANGED <<peerStore, reloads>>
  OBVIOUS
<1>1. ASSUME NEW endpoints, CallsNext(endpoints)
      PROVE  UNCHANGED <<peerStore, reloads>>
  BY <1>1 DEF CallsNext, RetryCall, AnswerCall, StartCall, InitStep, peerVars
<1>2. CASE EventsNext
  BY <1>2 DEF EventsNext, NodeMoves, RefreshOnEvent, peerVars
<1>3. CASE AskBlocks
  BY <1>3 DEF AskBlocks, peerVars
<1>4. CASE UNCHANGED nodeVars
  BY <1>4 DEF nodeVars, peerVars
<1> QED
  BY <1>1, <1>2, <1>3, <1>4, Zenon DEF Next, vars, ClientStep, NodeStep, GenesisStep, FeeStep

\* PeerInv is inductive.
LEMMA PeerInvariant == Spec => []PeerInv
<1>1. Init => PeerInv
  <2>1. Cardinality({}) = 0
    BY FS_EmptySet
  <2> QED
    BY <2>1 DEF Init, NodeInit, PeerInv, PeerCacheConsistent
<1>2. PeerInv /\ [Next]_vars => PeerInv'
  <2> SUFFICES ASSUME PeerInv, [Next]_vars
               PROVE  PeerInv'
    OBVIOUS
  <2>1. CASE UNCHANGED <<peerStore, reloads>>
    BY <2>1 DEF PeerInv, PeerCacheConsistent
  <2>2. ASSUME NEW p \in Peer, PeerMoves(p)
        PROVE  UNCHANGED <<peerStore, reloads>>
    BY <2>2 DEF PeerMoves
  <2> QED
    BY <2>1, <2>2, PeerSteps, AskPeersKeepsInv, StorePeersKeepsInv DEF PeersNext
<1> QED
  BY <1>1, <1>2, PTL DEF Spec

\* The caches that are checked for an error never hold one, the lists of peers and
\* their statistics belong together, and a damaged genesis block is served only
\* from an uncompressed file that was interrupted or downloaded twice at a time
\* (endpoints_1.js, peerCache.js, genesisBlock.js).
THEOREM ConnectorCachesSound == Spec => []CachesSound
<1>1. NodeInv /\ PeerInv /\ GenesisInv => CachesSound
  BY GenesisIsVerified DEF NodeInv, PeerInv, CachesSound
<1> QED
  BY <1>1, NodeInvariant, PeerInvariant, GenesisInvariant, PTL
=============================================================================
