--------------------------- MODULE IndexerProofs ---------------------------
(***************************************************************************)
(* Parts of the indexer, proved for every index, set of services and       *)
(* number of checks, faults, restarts, validators and overlapping tasks:   *)
(* the search for gaps, what the gateway may conclude from its polls, and  *)
(* the list of validators.                                                 *)
(***************************************************************************)
EXTENDS MCIndexer, OperatorProofs, TLAPS

(* The search for gaps *)

\* The variables stay within the bound while reported heights are indexed.
RangeOK ==
  /\ indexed \in SUBSET (1..MaxHeight)
  /\ from \in 1..MaxHeight
  /\ to \in from..MaxHeight

\* RangeOK is inductive.
LEMMA RangeInvariant == IndexerSpec => []RangeOK
<1>1. IndexerInit => RangeOK
  BY DEF IndexerInit, Init, RangeOK
<1>2. RangeOK /\ [IndexerNext]_indexerVars => RangeOK'
  <2> SUFFICES ASSUME RangeOK, [IndexerNext]_indexerVars
               PROVE  RangeOK'
    OBVIOUS
  <2>1. Next \/ UNCHANGED vars
    BY Zenon DEF IndexerNext, indexerVars, GapStep, ValidatorStep, ReadinessStep
  <2>2. CASE Next
    <3>1. PICK h \in 1..MaxHeight : IndexReported(h)
      BY <2>2 DEF Next
    <3> QED
      BY <3>1 DEF RangeOK, IndexReported
  <2>3. CASE UNCHANGED vars
    BY <2>3 DEF RangeOK, vars
  <2> QED
    BY <2>1, <2>2, <2>3
<1> QED
  BY <1>1, <1>2, PTL DEF IndexerSpec

\* findMissingBlocksInRange finds every gap below a row short of the top of
\* the range, before and after every block it reported is indexed, for every
\* MaxHeight.
THEOREM GapsAlwaysFound == IndexerSpec => []InteriorGapsFound
<1>1. RangeOK => InteriorGapsFound
  <2> SUFFICES ASSUME RangeOK
               PROVE  InteriorGapsFound
    OBVIOUS
  <2>1. indexed \in SUBSET Nat /\ from \in Nat /\ to \in Nat
    BY MaxHeightAssumption DEF RangeOK
  <2> QED
    BY <2>1, SearchFindsInteriorGaps DEF InteriorGapsFound
<1> QED
  BY <1>1, RangeInvariant, PTL
-----------------------------------------------------------------------------
(* Readiness *)

CallState == {"idle", "called", "trying", "true", "false"}

ReadinessTypeOK ==
  /\ nodeChain \in Seq(Branch) /\ nextBranch \in Branch
  /\ IsFiniteSet(indexedRows)
  /\ checks \in [Check -> [at : {"idle", "height", "count"}, chain : Seq(Branch)]]
  /\ isIndexReady \in BOOLEAN
  /\ isReady \in BOOLEAN
  /\ calls \in [Service -> CallState]
  /\ currentSvcStatus \in [Service -> BOOLEAN]
  /\ wasIndexed \in BOOLEAN

\* Every trace that a successful comparison leaves, on its way from the indexer's
\* flag to the gateway's map, is preceded by the comparison.
IndexTraceBacked ==
  \/ isIndexReady
  \/ "index" \in serviceTasks
  \/ isReady
  \/ calls["indexer"] = "true"
  \/ currentSvcStatus["indexer"]
  => wasIndexed

OthersBacked ==
  \A s \in Service \ {"indexer"} : currentSvcStatus[s] => s \in othersReady

ReadinessInv == ReadinessTypeOK /\ IndexTraceBacked /\ OthersBacked

\* A chain has as many blocks as it is long.
LEMMA BlocksAreCounted ==
  ASSUME NEW c \in Seq(Branch)
  PROVE  IsFiniteSet(BlocksOf(c)) /\ Cardinality(BlocksOf(c)) = Len(c)
<1> DEFINE f == [h \in 1..Len(c) |-> <<h, c[h]>>]
<1>1. Len(c) \in Nat /\ DOMAIN c = 1..Len(c)
  OBVIOUS
<1>2. IsFiniteSet(1..Len(c)) /\ Cardinality(1..Len(c)) = Len(c)
  BY <1>1, FS_Interval
<1>3. f \in Bijection(1..Len(c), BlocksOf(c))
  <2>1. f \in [1..Len(c) -> BlocksOf(c)]
    BY <1>1 DEF BlocksOf
  <2>2. \A h, k \in 1..Len(c) : f[h] = f[k] => h = k
    OBVIOUS
  <2>3. \A x \in BlocksOf(c) : \E h \in 1..Len(c) : f[h] = x
    BY <1>1 DEF BlocksOf
  <2> QED
    BY <2>1, <2>2, <2>3 DEF Bijection, Injection, Surjection, IsInjective
<1>4. ExistsBijection(1..Len(c), BlocksOf(c))
  BY <1>3 DEF ExistsBijection
<1> QED
  BY <1>2, <1>4, FS_Bijection

\* What the comparison of two numbers says of the blocks: for every block but one
\* that has no row, there is a row of another block.
LEMMA ComparisonMeans ==
  ASSUME NEW c \in Seq(Branch), IsFiniteSet(indexedRows),
         Cardinality(indexedRows) >= Len(c) - 1
  PROVE  Cardinality(Unindexed(c)) <= 1 + Cardinality(OtherRows(c))
<1> DEFINE B == BlocksOf(c)
           both == Cardinality(indexedRows \cap B)
<1>1. IsFiniteSet(B) /\ Cardinality(B) = Len(c)
  BY BlocksAreCounted
<1> HIDE DEF B
<1>2. Cardinality(B \ indexedRows) = Len(c) - both
  <2>1. Cardinality(B \ indexedRows) = Cardinality(B) - Cardinality(B \cap indexedRows)
    BY <1>1, FS_Difference
  <2>2. B \cap indexedRows = indexedRows \cap B
    OBVIOUS
  <2> QED
    BY <1>1, <2>1, <2>2
<1>3. Cardinality(indexedRows \ B) = Cardinality(indexedRows) - both
  BY FS_Difference
<1>4. both \in Nat /\ Cardinality(indexedRows) \in Nat /\ Len(c) \in Nat
  <2>1. IsFiniteSet(indexedRows \cap B)
    BY FS_Subset
  <2> QED
    BY <2>1, FS_CardinalityType
<1> QED
  BY <1>2, <1>3, <1>4 DEF Unindexed, OtherRows, B

\* A step of the chain or of another service keeps the invariant.
LEMMA ChainStepKeepsReadiness ==
  ASSUME ReadinessInv, ChainStep
  PROVE  ReadinessInv'
<1> USE ReadinessAssumption
    DEF ReadinessInv, ReadinessTypeOK, IndexTraceBacked, OthersBacked,
        checkVars, statusVars, gatewayStatusVars, nodeVars
<1>1. CASE ChainGrows
  BY <1>1 DEF ChainGrows
<1>2. CASE ChainForks
  <2>1. Len(nodeChain) \in Nat \ {0}
    BY <1>2 DEF ChainForks
  <2>2. nodeChain' \in Seq(Branch)
    BY <1>2, <2>1 DEF ChainForks, Front
  <2> QED
    BY <1>2, <2>2 DEF ChainForks
<1>3. CASE OtherBecomesReady
  BY <1>3 DEF OtherBecomesReady
<1>4. ASSUME NEW b \in (1..MaxChainHeight) \X Branch, RowChanges(b)
      PROVE  ReadinessInv'
  <2>1. IsFiniteSet(indexedRows')
    BY <1>4, FS_AddElement, FS_RemoveElement DEF RowChanges
  <2> QED
    BY <1>4, <2>1 DEF RowChanges
<1> QED
  BY <1>1, <1>2, <1>3, <1>4 DEF ChainStep

\* A step of a check keeps the invariant: the flag of the index is set only by
\* a check that counted as many rows as the chain has blocks, but one.
LEMMA CheckStepKeepsReadiness ==
  ASSUME ReadinessInv, NEW c \in Check, CheckStep(c) \/ getIndexStatsFails(c)
  PROVE  ReadinessInv'
<1> USE ReadinessAssumption
    DEF ReadinessInv, ReadinessTypeOK, IndexTraceBacked, OthersBacked,
        checkVars, statusVars, gatewayStatusVars, platformVars, nodeVars, NoCheck
<1>1. CASE checkIndexReadiness(c)
  BY <1>1 DEF checkIndexReadiness
<1>2. CASE getCurrentHeight(c)
  BY <1>2 DEF getCurrentHeight
<1>3. CASE setIndexReadyStatus(c)
  <2> DEFINE seen == checks[c].chain
             enough == Cardinality(indexedRows) >= Len(seen) - 1
             backed == Cardinality(Unindexed(seen)) <= 1 + Cardinality(OtherRows(seen))
  <2>1. seen \in Seq(Branch)
    OBVIOUS
  <2>2. /\ isIndexReady' = (isIndexReady \/ enough)
        /\ wasIndexed' = (wasIndexed \/ backed)
        /\ checks' = [checks EXCEPT ![c] = NoCheck]
        /\ UNCHANGED <<platformVars, statusVars, gatewayStatusVars>>
    BY <1>3 DEF setIndexReadyStatus, validateIndexReadiness
  <2>3. enough => backed
    BY <2>1, ComparisonMeans
  <2>4. enough \in BOOLEAN /\ backed \in BOOLEAN
    OBVIOUS
  <2> HIDE DEF enough, backed
  <2>5. (isIndexReady' => wasIndexed') /\ (wasIndexed => wasIndexed')
    BY <2>2, <2>3, Zenon
  <2>6. isIndexReady' \in BOOLEAN /\ wasIndexed' \in BOOLEAN
    BY <2>2, <2>4, Zenon
  <2>7. ReadinessTypeOK'
    BY <2>2, <2>6
  <2>8. IndexTraceBacked'
    BY <2>2, <2>5, Zenon
  <2>9. OthersBacked'
    BY <2>2
  <2> QED
    BY <2>7, <2>8, <2>9
<1>4. CASE getIndexStatsFails(c)
  BY <1>4 DEF getIndexStatsFails
<1> QED
  BY <1>1, <1>2, <1>3, <1>4 DEF CheckStep

\* A step of a status call keeps the invariant.
LEMMA StatusStepKeepsReadiness ==
  ASSUME ReadinessInv, StatusStep \/ IndexerRestarts
  PROVE  ReadinessInv'
<1> USE ReadinessAssumption
    DEF ReadinessInv, ReadinessTypeOK, IndexTraceBacked, OthersBacked,
        checkVars, statusVars, gatewayStatusVars, platformVars, nodeVars, CallState
<1>1. CASE updateSvcStatus
  BY <1>1 DEF updateSvcStatus
<1>2. CASE getStatus
  BY <1>2 DEF getStatus
<1>3. CASE tryEndpoints
  <2>1. /\ calls["indexer"] = "trying"
        /\ UNCHANGED <<nodeVars, indexedRows, othersReady, checks, isIndexReady, wasIndexed,
                       currentSvcStatus>>
    BY <1>3 DEF tryEndpoints
  <2>2. CASE /\ serviceTasks' = serviceTasks \cup answering
             /\ isReady' = (isReady \/ isIndexerServiceReady(serviceTasks'))
             /\ calls' = [calls EXCEPT !["indexer"] = IF isReady' THEN "true" ELSE "false"]
    <3>1. isReady' \in BOOLEAN
      BY <2>2, Zenon DEF isIndexerServiceReady
    <3>2. "index" \in serviceTasks' => "index" \in serviceTasks
      BY <2>2 DEF answering
    <3>3. isReady' => isReady \/ "index" \in serviceTasks
      BY <2>2, <3>2 DEF isIndexerServiceReady
    <3>4. calls' \in [Service -> CallState] /\ (calls'["indexer"] = "true" => isReady')
      BY <2>2, <3>1
    <3>5. ReadinessTypeOK'
      BY <2>1, <3>1, <3>4
    <3>6. IndexTraceBacked' /\ OthersBacked'
      BY <2>1, <3>2, <3>3, <3>4
    <3> QED
      BY <3>5, <3>6
  <2>3. CASE calls' = [calls EXCEPT !["indexer"] = "false"] /\ UNCHANGED <<serviceTasks, isReady>>
    BY <2>1, <2>3
  <2> QED
    BY <1>3, <2>2, <2>3, Zenon DEF tryEndpoints, statusVars
<1>4. CASE statusIndexer
  BY <1>4 DEF statusIndexer
<1>5. ASSUME NEW s \in Service, statusOther(s)
      PROVE  ReadinessInv'
  <2>1. PICK answer \in BOOLEAN : /\ currentSvcStatus' = [currentSvcStatus EXCEPT ![s] = answer]
                                  /\ answer => s \in othersReady
    <3>1. (s \in othersReady) \in BOOLEAN /\ FALSE \in BOOLEAN
      BY SMT
    <3>2. CASE currentSvcStatus' = [currentSvcStatus EXCEPT ![s] = s \in othersReady]
      BY <3>1, <3>2, Zenon
    <3>3. CASE currentSvcStatus' = [currentSvcStatus EXCEPT ![s] = FALSE]
      BY <3>1, <3>3, Zenon
    <3> QED
      BY <1>5, <3>2, <3>3, Zenon DEF statusOther
  <2>2. /\ s # "indexer"
        /\ calls' = [calls EXCEPT ![s] = "idle"]
        /\ UNCHANGED <<checkVars, platformVars, statusVars>>
    BY <1>5, Zenon DEF statusOther
  <2>3. ReadinessTypeOK'
    BY <2>1, <2>2
  <2>4. IndexTraceBacked'
    BY <2>1, <2>2
  <2>5. OthersBacked'
    BY <2>1, <2>2
  <2> QED
    BY <2>3, <2>4, <2>5
<1>6. CASE IndexerRestarts
  <2>1. isIndexReady' = FALSE /\ isReady' = FALSE /\ wasIndexed' = wasIndexed
    BY <1>6 DEF IndexerRestarts
  <2>2. isIndexReady' \in BOOLEAN /\ isReady' \in BOOLEAN
    BY <2>1, Zenon
  <2>3. /\ checks' = [c \in Check |-> NoCheck]
        /\ serviceTasks' = {}
        /\ calls' = [calls EXCEPT !["indexer"] = IF @ = "idle" THEN "idle" ELSE "false"]
        /\ UNCHANGED <<nodeVars, indexedRows, othersReady, currentSvcStatus>>
    BY <1>6 DEF IndexerRestarts
  <2>4. ReadinessTypeOK'
    BY <2>1, <2>2, <2>3 DEF NoCheck
  <2>5. IndexTraceBacked'
    BY <2>1, <2>3
  <2>6. OthersBacked'
    BY <2>3
  <2> QED
    BY <2>4, <2>5, <2>6
<1> QED
  BY <1>1, <1>2, <1>3, <1>4, <1>5, <1>6 DEF StatusStep

\* ReadinessInv is inductive.
LEMMA ReadinessInvariant == IndexerSpec => []ReadinessInv
<1>1. IndexerInit => ReadinessInv
  <2> SUFFICES ASSUME ReadinessInit
               PROVE  ReadinessInv
    BY DEF IndexerInit
  <2> USE ReadinessAssumption DEF ReadinessInit, NoCheck, CallState
  <2>1. isIndexReady \in BOOLEAN /\ isReady \in BOOLEAN /\ wasIndexed \in BOOLEAN
    BY Zenon
  <2>2. currentSvcStatus \in [Service -> BOOLEAN]
    BY Zenon
  <2>3. ReadinessTypeOK
    BY <2>1, <2>2, FS_EmptySet DEF ReadinessTypeOK
  <2>4. IndexTraceBacked
    BY DEF IndexTraceBacked
  <2>5. OthersBacked
    BY DEF OthersBacked
  <2> QED
    BY <2>3, <2>4, <2>5 DEF ReadinessInv
<1>2. ReadinessInv /\ [IndexerNext]_indexerVars => ReadinessInv'
  <2> SUFFICES ASSUME ReadinessInv, [IndexerNext]_indexerVars
               PROVE  ReadinessInv'
    OBVIOUS
  <2>1. ReadinessNext \/ UNCHANGED readinessVars
    BY Zenon DEF IndexerNext, indexerVars, GapStep, ValidatorStep, ReadinessStep
  <2>2. CASE ReadinessNext
    BY <2>2, ChainStepKeepsReadiness, CheckStepKeepsReadiness, StatusStepKeepsReadiness
    DEF ReadinessNext
  <2>3. CASE UNCHANGED readinessVars
    BY <2>3 DEF readinessVars, ReadinessInv, ReadinessTypeOK,
                IndexTraceBacked, OthersBacked
  <2> QED
    BY <2>1, <2>2, <2>3
<1> QED
  BY <1>1, <1>2, PTL DEF IndexerSpec

\* The gateway answers that the platform is ready only after the index was compared
\* with the chain, and lacked no more of its blocks than one and one for each row of
\* another block, and every service it depends on and polls said that it is ready,
\* for every length of the chain and every number of overlapping checks,
\* failed requests and restarts of the indexer.
THEOREM ReadyAnswersBacked == IndexerSpec => []ReadyIsBacked
<1>1. ReadinessInv => ReadyIsBacked
  BY ReadinessAssumption DEF ReadinessInv, ReadinessTypeOK, IndexTraceBacked, OthersBacked,
     ReadyIsBacked, getReady
<1> QED
  BY <1>1, ReadinessInvariant, PTL
-----------------------------------------------------------------------------
(* The list of validators *)

ValidatorStatus == {Unset, "banned", "punished", "active", "standby", "ineligible"}
Entry == [address : Validator, weight : Nat, isBanned : BOOLEAN, rank : Nat,
          status : ValidatorStatus]

\* What the node returns has neither a rank nor a status.
NewEntry == {e \in Entry : e.rank = 0 /\ e.status = Unset}

Distinct(l) == \A i, j \in DOMAIN l : l[i].address = l[j].address => i = j

\* Those that are listed as active were, when the statuses were computed, among no
\* more than the protocol has.
FewActive(l) ==
  \E A : /\ IsFiniteSet(A) /\ Cardinality(A) <= numberActiveValidators
         /\ \A i \in DOMAIN l : l[i].status = "active" => l[i].address \in A

ListOK(l) == l \in Seq(Entry) /\ Distinct(l) /\ FewActive(l)
Ranked(l) == \A i \in DOMAIN l : l[i].rank \in {0, i}
FreshList(l) == l \in Seq(NewEntry) /\ Distinct(l)

LEMMA EntryUpdates ==
  ASSUME NEW e \in Entry, NEW r \in Nat, NEW st \in ValidatorStatus
  PROVE  /\ e.address \in Validator /\ e.weight \in Nat /\ e.rank \in Nat /\ e.status \in ValidatorStatus
         /\ [e EXCEPT !.rank = r] \in Entry
         /\ [e EXCEPT !.rank = r].address = e.address
         /\ [e EXCEPT !.rank = r].status = e.status
         /\ [e EXCEPT !.rank = r].rank = r
         /\ [e EXCEPT !.status = st] \in Entry
         /\ [e EXCEPT !.status = st].address = e.address
         /\ [e EXCEPT !.status = st].status = st
         /\ [e EXCEPT !.status = st].rank = e.rank
<1> HIDE DEF ValidatorStatus
<1> QED
  BY DEF Entry

LEMMA RegisteredAre ==
  ASSUME NEW ch \in Seq(PosBlock)
  PROVE  registered(ch) \subseteq Validator /\ IsFiniteSet(registered(ch))
<1>1. \A c \in PosCommands(ch) : c \in PosCommand
  <2>1. SUFFICES ASSUME NEW b \in ToSet(ch), NEW c \in ToSet(PosTransactions[b]) PROVE c \in PosCommand
    BY DEF PosCommands
  <2>2. b \in PosBlock
    BY DEF ToSet
  <2>3. PosTransactions[b] \in Seq(PosCommand)
    BY <2>2, ValidatorAssumption
  <2> QED
    BY <2>3 DEF ToSet
<1>2. \A c \in PosCommand : ToSet(c.of) \subseteq Validator
  BY DEF PosCommand, ToSet
<1>3. registered(ch) \subseteq Validator
  BY <1>1, <1>2, ValidatorAssumption DEF registered
<1> QED
  BY <1>3, ValidatorAssumption, FS_Subset

LEMMA NodeEntryIs ==
  ASSUME NEW ch \in Seq(PosBlock), NEW v \in Validator
  PROVE  PosValidator(ch, v) \in NewEntry /\ PosValidator(ch, v).address = v
<1>1. totalStake(ch, v) \in Nat
  <2> DEFINE D == 1..Len(ch)
             f == [i \in D |-> ch[i]]
  <2>1. IsFiniteSet(D) /\ DOMAIN ch = D
    BY FS_Interval
  <2>2. f \in Surjection(D, ToSet(ch))
    BY <2>1 DEF Surjection, ToSet
  <2>3. IsFiniteSet(ToSet(ch))
    BY <2>1, <2>2, FS_Surjection
  <2> DEFINE T == {b \in ToSet(ch) :
                     \E c \in ToSet(PosTransactions[b]) : c.command = "stake" /\ v \in ToSet(c.of)}
  <2>4. Cardinality(T) \in Nat
    BY <2>3, FS_Subset, FS_CardinalityType
  <2> QED
    BY <2>4 DEF totalStake
<1>2. Min({totalStake(ch, v), StakeCap}) \in Nat
  BY <1>1, OfTwo, ValidatorAssumption
<1>3. validatorWeight(ch, v) \in Nat
  BY <1>2 DEF validatorWeight
<1>4. isBanned(ch, v) \in BOOLEAN
  BY Zenon DEF isBanned
<1> HIDE DEF isBanned
<1> QED
  BY <1>3, <1>4 DEF PosValidator, NewEntry, Entry, ValidatorStatus

LEMMA NodeListIsFresh ==
  ASSUME NEW ch \in Seq(PosBlock)
  PROVE  FreshList(allPosValidators(ch))
<1> DEFINE R == registered(ch)
           n == Cardinality(R)
           kept == SetToSeq(R)
<1>1. R \subseteq Validator /\ IsFiniteSet(R) /\ n \in Nat
  BY RegisteredAre, FS_CardinalityType
<1>2. kept \in [1..n -> R] /\ IsInjective(kept)
  <2>1. ExistsBijection(1..n, R)
    BY <1>1, FS_NatBijection, FS_CardinalityType
  <2>2. PICK f \in Bijection(1..n, R) : TRUE
    BY <2>1 DEF ExistsBijection
  <2>3. f \in [1..n -> R] /\ IsInjective(f)
    BY <2>2 DEF Bijection, Injection, IsInjective
  <2>4. kept = CHOOSE g \in [1..n -> R] : IsInjective(g)
    BY DEF SetToSeq
  <2> HIDE DEF kept
  <2> QED
    BY <2>3, <2>4, Zenon
<1>3. allPosValidators(ch) = [i \in DOMAIN kept |-> PosValidator(ch, kept[i])]
  BY DEF allPosValidators
<1> HIDE DEF kept, n, R
<1>4. DOMAIN kept = 1..n /\ \A i \in 1..n : kept[i] \in Validator
  BY <1>1, <1>2
<1>5. \A i \in 1..n : PosValidator(ch, kept[i]) \in NewEntry /\ PosValidator(ch, kept[i]).address = kept[i]
  BY <1>4, NodeEntryIs
<1> DEFINE l == allPosValidators(ch)
<1>6. l = [i \in 1..n |-> PosValidator(ch, kept[i])]
  BY <1>3, <1>4
<1> HIDE DEF l
<1>7. DOMAIN l = 1..n /\ \A i \in 1..n : l[i] \in NewEntry /\ l[i].address = kept[i]
  BY <1>5, <1>6
<1>8. l \in Seq(NewEntry)
  BY <1>1, <1>6, <1>5
<1>9. Distinct(l)
  BY <1>2, <1>4, <1>7 DEF Distinct, IsInjective
<1> QED
  BY <1>8, <1>9 DEF FreshList, l

\* As many come first as are taken.
LEMMA FirstAreFew ==
  ASSUME NEW I \in SUBSET Entry, IsFiniteSet(I), NEW n \in Nat,
         \A e, f \in I : e.address = f.address => e = f
  PROVE  /\ IsFiniteSet(addressesFrom(I, 0, n))
         /\ Cardinality(addressesFrom(I, 0, n)) <= n
<1> DEFINE before(e) == {f \in I : validatorComparator(f, e)}
           T == {e \in I : positionIn(I, e) \in 0..n - 1}
           A == addressesFrom(I, 0, n)
<1>1. \A e \in I : e.address \in Int /\ e.weight \in Int
  <2>1. Validator \subseteq Int
    BY ValidatorAssumption
  <2>2. \A e \in Entry : e.address \in Validator /\ e.weight \in Nat
    BY DEF Entry
  <2>3. SUFFICES ASSUME NEW e \in I PROVE e.address \in Int /\ e.weight \in Int
    OBVIOUS
  <2>4. e.address \in Validator /\ e.weight \in Nat
    BY <2>2
  <2>5. e.address \in Int
    BY <2>1, <2>4, Zenon
  <2> QED
    BY <2>4, <2>5
<1>2. /\ \A e \in I : ~validatorComparator(e, e)
      /\ \A e, f \in I : e # f => validatorComparator(e, f) \/ validatorComparator(f, e)
      /\ \A e, f, g \in I : validatorComparator(g, e) /\ validatorComparator(e, f)
                              => validatorComparator(g, f)
  <2>1. \A e, f \in I : e # f => e.address # f.address
    OBVIOUS
  <2> QED
    BY <1>1, <2>1 DEF validatorComparator
<1>3. \A e \in I : IsFiniteSet(before(e)) /\ positionIn(I, e) = Cardinality(before(e))
                   /\ positionIn(I, e) \in Nat
  <2>1. SUFFICES ASSUME NEW e \in I
                 PROVE  IsFiniteSet(before(e)) /\ positionIn(I, e) = Cardinality(before(e))
                        /\ positionIn(I, e) \in Nat
    BY Zenon
  <2>2. IsFiniteSet(before(e))
    BY FS_Subset
  <2>3. positionIn(I, e) = Cardinality(before(e))
    BY DEF positionIn
  <2> QED
    BY <2>2, <2>3, FS_CardinalityType
<1>4. ASSUME NEW e \in I, NEW f \in I, validatorComparator(e, f)
      PROVE  positionIn(I, e) < positionIn(I, f)
  <2>1. before(e) \subseteq before(f) /\ e \in before(f) /\ e \notin before(e)
    BY <1>2, <1>4
  <2>2. before(e) # before(f)
    BY <2>1
  <2> HIDE DEF before
  <2>3. Cardinality(before(e)) <= Cardinality(before(f)) /\ Cardinality(before(e)) # Cardinality(before(f))
    BY <1>3, <2>1, <2>2, FS_Subset
  <2>4. positionIn(I, e) <= positionIn(I, f) /\ positionIn(I, e) # positionIn(I, f)
    BY <1>3, <2>3
  <2> QED
    BY <1>3, <2>4
<1>5. \A e, f \in I : positionIn(I, e) = positionIn(I, f) => e = f
  <2>1. SUFFICES ASSUME NEW e \in I, NEW f \in I, positionIn(I, e) = positionIn(I, f), e # f
                 PROVE  FALSE
    OBVIOUS
  <2>2. positionIn(I, e) \in Nat /\ positionIn(I, f) \in Nat
    BY <1>3
  <2>3. validatorComparator(e, f) \/ validatorComparator(f, e)
    BY <1>2, <2>1
  <2>4. positionIn(I, e) < positionIn(I, f) \/ positionIn(I, f) < positionIn(I, e)
    BY <1>4, <2>3
  <2> QED
    BY <2>1, <2>2, <2>4
<1> DEFINE g == [e \in T |-> positionIn(I, e)]
           h == [e \in T |-> e.address]
<1>6. g \in Injection(T, 0..n - 1)
  <2>1. g \in [T -> 0..n - 1]
    OBVIOUS
  <2>2. \A e, f \in T : g[e] = g[f] => e = f
    BY <1>5
  <2> QED
    BY <2>1, <2>2 DEF Injection, IsInjective
<1>7. IsFiniteSet(0..n - 1) /\ Cardinality(0..n - 1) = n
  BY FS_Interval
<1>8. IsFiniteSet(T) /\ Cardinality(T) <= n
  BY <1>6, <1>7, FS_Injection
<1>9. A = {e.address : e \in T}
  BY DEF addressesFrom
<1>10. h \in Surjection(T, A)
  BY <1>9 DEF Surjection
<1> HIDE DEF T, A, g, h
<1>11. IsFiniteSet(A) /\ Cardinality(A) <= Cardinality(T)
  BY <1>8, <1>10, FS_Surjection
<1>12. Cardinality(A) \in Nat /\ Cardinality(T) \in Nat
  BY <1>8, <1>11, FS_CardinalityType
<1> QED
  BY <1>8, <1>11, <1>12 DEF A

LEMMA RankKeepsList ==
  ASSUME NEW l, ListOK(l)
  PROVE  ListOK(computeValidatorRank(l)) /\ Ranked(computeValidatorRank(l))
<1> DEFINE m == computeValidatorRank(l)
<1>1. l \in Seq(Entry) /\ DOMAIN l = 1..Len(l) /\ Len(l) \in Nat
  BY DEF ListOK
<1>2. m = [i \in 1..Len(l) |-> [l[i] EXCEPT !.rank = i]]
  BY <1>1 DEF computeValidatorRank
<1> HIDE DEF m
<1>3. \A i \in 1..Len(l) : /\ m[i] \in Entry /\ m[i].address = l[i].address
                           /\ m[i].status = l[i].status /\ m[i].rank = i
  <2>1. SUFFICES ASSUME NEW i \in 1..Len(l)
                 PROVE  /\ m[i] \in Entry /\ m[i].address = l[i].address
                        /\ m[i].status = l[i].status /\ m[i].rank = i
    BY Zenon
  <2>2. l[i] \in Entry /\ i \in Nat
    BY <1>1
  <2>4. m[i] = [l[i] EXCEPT !.rank = i]
    BY <1>2, Zenon
  <2>3. Unset \in ValidatorStatus
    BY DEF ValidatorStatus
  <2>5. /\ [l[i] EXCEPT !.rank = i] \in Entry
        /\ [l[i] EXCEPT !.rank = i].address = l[i].address
        /\ [l[i] EXCEPT !.rank = i].status = l[i].status
        /\ [l[i] EXCEPT !.rank = i].rank = i
    BY <2>2, <2>3, EntryUpdates, Zenon
  <2> QED
    BY <2>4, <2>5, Zenon
<1>4. m \in Seq(Entry) /\ DOMAIN m = DOMAIN l
  BY <1>1, <1>2, <1>3
<1>5. Distinct(m)
  BY <1>1, <1>3, <1>4 DEF ListOK, Distinct
<1>6. FewActive(m)
  BY <1>1, <1>3, <1>4 DEF ListOK, FewActive
<1>7. Ranked(m)
  BY <1>1, <1>3, <1>4 DEF Ranked
<1> QED
  BY <1>4, <1>5, <1>6, <1>7 DEF ListOK, m

LEMMA StatusKeepsList ==
  ASSUME NEW l, ListOK(l), Ranked(l), NEW generators
  PROVE  /\ ListOK(computeValidatorStatus(l, generators))
         /\ Ranked(computeValidatorStatus(l, generators))
<1> DEFINE m == computeValidatorStatus(l, generators)
           info == generatorInfo(l, generators)
           A == activeGenerators(info)
<1>1. l \in Seq(Entry) /\ DOMAIN l = 1..Len(l) /\ Len(l) \in Nat
  BY DEF ListOK
<1>2. IsFiniteSet(A) /\ Cardinality(A) <= numberActiveValidators
  <2>1. IsFiniteSet(ToSet(l))
    <3> DEFINE f == [i \in 1..Len(l) |-> l[i]]
    <3>1. IsFiniteSet(1..Len(l))
      BY <1>1, FS_Interval
    <3>2. f \in Surjection(1..Len(l), ToSet(l))
      BY <1>1 DEF Surjection, ToSet
    <3> QED
      BY <3>1, <3>2, FS_Surjection
  <2>2. info \subseteq ToSet(l) /\ ToSet(l) \subseteq Entry
    BY <1>1 DEF generatorInfo, ToSet
  <2>3. \A e, f \in info : e.address = f.address => e = f
    BY <1>1 DEF generatorInfo, ToSet, ListOK, Distinct
  <2>4. info \in SUBSET Entry /\ IsFiniteSet(info)
    BY <2>1, <2>2, FS_Subset
  <2> HIDE DEF info
  <2> QED
    BY <2>3, <2>4, FirstAreFew, ValidatorAssumption DEF activeGenerators
<1>3. m = [i \in 1..Len(l) |-> [l[i] EXCEPT !.status = statusOf(l[i], info)]]
  BY <1>1 DEF computeValidatorStatus
<1> HIDE DEF m, info, A
<1>4. ASSUME NEW e \in Entry
      PROVE  /\ statusOf(e, info) \in ValidatorStatus
             /\ statusOf(e, info) = "active" => e.address \in A
  BY DEF statusOf, ValidatorStatus, A, verifyIfPunished
<1>5. \A i \in 1..Len(l) : /\ m[i] \in Entry /\ m[i].address = l[i].address
                           /\ m[i].status = statusOf(l[i], info) /\ m[i].rank = l[i].rank
  <2>1. SUFFICES ASSUME NEW i \in 1..Len(l)
                 PROVE  /\ m[i] \in Entry /\ m[i].address = l[i].address
                        /\ m[i].status = statusOf(l[i], info) /\ m[i].rank = l[i].rank
    BY Zenon
  <2>2. l[i] \in Entry
    BY <1>1
  <2>5. m[i] = [l[i] EXCEPT !.status = statusOf(l[i], info)]
    BY <1>3, Zenon
  <2>3. statusOf(l[i], info) \in ValidatorStatus
    BY <1>4, <2>2
  <2>4. 0 \in Nat
    OBVIOUS
  <2> QED
    <3> DEFINE st == statusOf(l[i], info)
    <3>1. /\ [l[i] EXCEPT !.status = st] \in Entry
          /\ [l[i] EXCEPT !.status = st].address = l[i].address
          /\ [l[i] EXCEPT !.status = st].status = st
          /\ [l[i] EXCEPT !.status = st].rank = l[i].rank
      BY <2>2, <2>3, <2>4, EntryUpdates, Zenon
    <3> QED
      BY <2>5, <3>1, Zenon
<1>6. m \in Seq(Entry) /\ DOMAIN m = DOMAIN l
  BY <1>1, <1>3, <1>5
<1>7. Distinct(m)
  BY <1>1, <1>5, <1>6 DEF ListOK, Distinct
<1>8. \A i \in DOMAIN m : m[i].status = "active" => m[i].address \in A
  BY <1>1, <1>4, <1>5, <1>6
<1>9. FewActive(m)
  BY <1>2, <1>8 DEF FewActive
<1>10. Ranked(m)
  BY <1>1, <1>5, <1>6 DEF Ranked
<1> QED
  BY <1>6, <1>7, <1>9, <1>10 DEF ListOK, m

\* Statuses are computed without touching the ranks.
LEMMA StatusKeepsRanks ==
  ASSUME NEW l, ListOK(l), NEW generators
  PROVE  /\ DOMAIN computeValidatorStatus(l, generators) = DOMAIN l
         /\ \A i \in DOMAIN l : computeValidatorStatus(l, generators)[i].rank = l[i].rank
<1>1. l \in Seq(Entry) /\ \A i \in DOMAIN l : l[i] \in Entry
  BY DEF ListOK
<1>2. \A e \in Entry : \A st : [e EXCEPT !.status = st].rank = e.rank
  BY DEF Entry
<1> QED
  BY <1>1, <1>2 DEF computeValidatorStatus

\* What the listener does with a validator that the node returned.
LEMMA UpdateKeepsList ==
  ASSUME NEW type, NEW l, ListOK(l), NEW e \in NewEntry
  PROVE  ListOK(updateValidator(type, l, e))
<1> DEFINE found == positionOf(l, e.address)
           m == updateValidator(type, l, e)
<1>1. l \in Seq(Entry) /\ DOMAIN l = 1..Len(l) /\ Len(l) \in Nat
  BY DEF ListOK
<1>2. e \in Entry /\ e.status = Unset /\ Unset # "active"
  BY DEF NewEntry, Unset
<1>3. PICK A : /\ IsFiniteSet(A) /\ Cardinality(A) <= numberActiveValidators
               /\ \A i \in DOMAIN l : l[i].status = "active" => l[i].address \in A
  BY DEF ListOK, FewActive
<1>4. Distinct(l)
  BY DEF ListOK
<1> DEFINE Good(s) ==
             /\ s \in Seq(Entry) /\ Distinct(s)
             /\ \A i \in DOMAIN s : s[i].status = "active" => s[i].address \in A
<1>5. \A s : Good(s) => ListOK(s)
  BY <1>3 DEF ListOK, FewActive
<1>6. CASE found = {}
  <2>1. m = Append(l, e)
    BY <1>6 DEF updateValidator
  <2>2. \A i \in 1..Len(l) : l[i].address # e.address
    BY <1>1, <1>6 DEF positionOf
  <2> HIDE DEF m
  <2>3. /\ m \in Seq(Entry) /\ DOMAIN m = 1..Len(l) + 1
        /\ \A i \in 1..Len(l) : m[i] = l[i]
        /\ m[Len(l) + 1] = e
    BY <1>1, <1>2, <2>1
  <2>4. Distinct(m)
    BY <1>1, <1>4, <2>2, <2>3 DEF Distinct
  <2>5. \A i \in DOMAIN m : m[i].status = "active" => m[i].address \in A
    BY <1>1, <1>2, <1>3, <2>3
  <2> QED
    BY <1>5, <2>3, <2>4, <2>5 DEF m
<1>7. CASE found # {}
  <2>1. PICK k \in 1..Len(l) : found = {k} /\ l[k].address = e.address
    BY <1>1, <1>4, <1>7 DEF positionOf, Distinct
  <2>2. Min(found) = k
    BY <2>1 DEF Min
  <2>3. m = IF type = "deleteBlock" THEN RemoveAt(l, k)
            ELSE [l EXCEPT ![k] = [e EXCEPT !.status = l[k].status]]
    BY <1>7, <2>2 DEF updateValidator
  <2> HIDE DEF m, found
  <2>4. CASE type = "deleteBlock"
    <3> DEFINE a == SubSeq(l, 1, k - 1)
               b == SubSeq(l, k + 1, Len(l))
    <3>1. m = a \o b
      BY <2>3, <2>4 DEF RemoveAt
    <3>2. a \in Seq(Entry) /\ Len(a) = k - 1 /\ \A i \in 1..k - 1 : a[i] = l[i]
      BY <1>1, <2>1
    <3>3. b \in Seq(Entry) /\ Len(b) = Len(l) - k /\ \A i \in 1..Len(l) - k : b[i] = l[k + i]
      <4>1. b \in Seq(Entry)
        BY <1>1, <2>1
      <4>2. Len(b) = Len(l) - k
        <5>1. k + 1 <= Len(l) + 1 /\ k + 1 \in 1..Len(l) + 1 /\ Len(l) - (k + 1) + 1 = Len(l) - k
          BY <1>1, <2>1
        <5>2. Len(b) = IF k + 1 <= Len(l) THEN Len(l) - (k + 1) + 1 ELSE 0
          BY <1>1, <5>1
        <5> HIDE DEF b
        <5>3. CASE k = Len(l)
          BY <1>1, <5>2, <5>3
        <5>4. CASE k + 1 <= Len(l)
          BY <5>1, <5>2, <5>4
        <5>5. k = Len(l) \/ k + 1 <= Len(l)
          <6>1. Len(l) \in Nat /\ k \in 1..Len(l)
            BY <1>1
          <6> DEFINE x == Len(l)
          <6>2. x \in Nat /\ k \in 1..x
            BY <6>1
          <6> HIDE DEF x
          <6>3. k = x \/ k + 1 <= x
            BY <6>2
          <6> QED
            BY <6>3 DEF x
        <5> QED
          BY <5>3, <5>4, <5>5, Zenon
      <4>3. \A i \in 1..Len(l) - k : b[i] = l[k + 1 + i - 1] /\ k + 1 + i - 1 = k + i
        BY <1>1, <2>1
      <4> QED
        BY <4>1, <4>2, <4>3
    <3> HIDE DEF a, b
    <3>4. /\ m \in Seq(Entry) /\ Len(m) = Len(l) - 1 /\ DOMAIN m = 1..Len(l) - 1
          /\ \A i \in 1..Len(l) - 1 : m[i] = l[IF i < k THEN i ELSE i + 1]
      <4>1. m \in Seq(Entry) /\ Len(m) = Len(l) - 1
        <5>1. m \in Seq(Entry) /\ Len(m) = Len(a) + Len(b)
          BY <3>1, <3>2, <3>3, ConcatIs
        <5> QED
          BY <1>1, <2>1, <3>2, <3>3, <5>1
      <4>2. \A i \in 1..k - 1 : m[i] = a[i]
        BY <1>1, <2>1, <3>1, <3>2, <3>3
      <4>3. \A i \in k..Len(l) - 1 : m[i] = b[i - (k - 1)]
        BY <1>1, <2>1, <3>1, <3>2, <3>3
      <4>4. \A i \in k..Len(l) - 1 : b[i - (k - 1)] = l[i + 1]
        BY <1>1, <2>1, <3>3
      <4>5. ASSUME NEW i \in 1..Len(l) - 1
            PROVE  m[i] = l[IF i < k THEN i ELSE i + 1]
        <5>1. CASE i < k
          BY <1>1, <2>1, <3>2, <4>2, <5>1
        <5>2. CASE ~(i < k)
          BY <1>1, <2>1, <4>3, <4>4, <5>2
        <5> QED
          BY <5>1, <5>2
      <4> QED
        BY <4>1, <4>5
    <3> DEFINE old(i) == IF i < k THEN i ELSE i + 1
    <3>5. /\ \A i \in DOMAIN m : old(i) \in DOMAIN l /\ m[i] = l[old(i)]
          /\ \A i, j \in DOMAIN m : old(i) = old(j) => i = j
      BY <1>1, <2>1, <3>4
    <3> HIDE DEF old
    <3>6. Distinct(m)
      BY <1>4, <3>5 DEF Distinct
    <3>7. \A i \in DOMAIN m : m[i].status = "active" => m[i].address \in A
      BY <1>3, <3>5
    <3> QED
      BY <1>5, <3>4, <3>6, <3>7 DEF m
  <2>5. CASE type # "deleteBlock"
    <3> DEFINE n == [e EXCEPT !.status = l[k].status]
    <3>1. n \in Entry /\ n.address = l[k].address /\ n.status = l[k].status
      <4>1. l[k] \in Entry /\ 0 \in Nat
        BY <1>1, <2>1
      <4>2. l[k].status \in ValidatorStatus
        BY <4>1 DEF Entry
      <4> QED
        BY <1>2, <2>1, <4>1, <4>2, EntryUpdates
    <3> HIDE DEF n
    <3>2. m = [l EXCEPT ![k] = n]
      BY <2>3, <2>5 DEF n
    <3>3. m \in Seq(Entry) /\ DOMAIN m = DOMAIN l
      BY <1>1, <2>1, <3>1, <3>2
    <3>4. \A i \in DOMAIN m : m[i].address = l[i].address /\ m[i].status = l[i].status
      BY <1>1, <2>1, <3>1, <3>2
    <3>5. Distinct(m)
      BY <1>4, <3>3, <3>4 DEF Distinct
    <3>6. \A i \in DOMAIN m : m[i].status = "active" => m[i].address \in A
      BY <1>3, <3>3, <3>4
    <3> QED
      BY <1>5, <3>3, <3>5, <3>6 DEF m
  <2> QED
    BY <2>4, <2>5
<1> QED
  BY <1>6, <1>7

\* The lists that the listener goes through, one for each validator returned.
Updates(f, type, l, es, n) ==
  f = [i \in 0..n |-> IF i = 0 THEN l ELSE updateValidator(type, f[i - 1], es[i])]

LEMMA UpdatesExist ==
  ASSUME NEW type, NEW l, NEW es, NEW n \in Nat
  PROVE  \E f : Updates(f, type, l, es, n)
<1> DEFINE B == {m \in Nat : ~\E f : Updates(f, type, l, es, m)}
<1>1. SUFFICES ASSUME B # {} PROVE FALSE
  OBVIOUS
<1>2. PICK m \in B : \A x \in B : m <= x
  BY <1>1, LeastNatural
<1>3. m \in Nat /\ ~\E f : Updates(f, type, l, es, m)
  BY <1>2
<1>4. CASE m = 0
  <2> DEFINE f == [i \in 0..m |-> l]
  <2>1. f = [i \in 0..m |-> IF i = 0 THEN l ELSE updateValidator(type, f[i - 1], es[i])]
    <3>1. \A i \in 0..m : i = 0
      BY <1>4
    <3> QED
      BY <3>1
  <2> QED
    BY <1>3, <2>1 DEF Updates
<1>5. CASE m > 0
  <2>1. m - 1 \in Nat /\ m - 1 \notin B
    <3>1. m - 1 \in Nat /\ ~(m <= m - 1)
      BY <1>3, <1>5
    <3> QED
      BY <1>2, <3>1
  <2>2. PICK g : Updates(g, type, l, es, m - 1)
    BY <2>1
  <2> HIDE DEF B
  <2>3. \A i \in 0..(m - 1) : g[i] = IF i = 0 THEN l ELSE updateValidator(type, g[i - 1], es[i])
    BY <2>2, Zenon DEF Updates
  <2> DEFINE last == updateValidator(type, g[m - 1], es[m])
             f == [i \in 0..m |-> IF i = m THEN last ELSE g[i]]
  <2>4. \A i \in 0..m : /\ i # m => i \in 0..(m - 1)
                        /\ i # 0 => i - 1 \in 0..m /\ i - 1 # m
    BY <1>3
  <2>5. ASSUME NEW i \in 0..m
        PROVE  f[i] = IF i = 0 THEN l ELSE updateValidator(type, f[i - 1], es[i])
    <3>1. CASE i = m
      <4>1. i # 0 /\ f[i] = last
        BY <1>5, <3>1
      <4>2. f[i - 1] = g[m - 1]
        BY <2>4, <3>1, <4>1
      <4> QED
        BY <3>1, <4>1, <4>2, Zenon
    <3>2. CASE i # m /\ i # 0
      <4>1. f[i] = g[i] /\ f[i - 1] = g[i - 1] /\ i \in 0..(m - 1)
        BY <2>4, <3>2
      <4> QED
        BY <2>3, <3>2, <4>1, Zenon
    <3>3. CASE i # m /\ i = 0
      <4>1. f[i] = g[i] /\ i \in 0..(m - 1)
        BY <2>4, <3>3
      <4> QED
        BY <2>3, <3>3, <4>1, Zenon
    <3> QED
      BY <3>1, <3>2, <3>3
  <2>6. f = [i \in 0..m |-> f[i]]
    BY Zenon
  <2> HIDE DEF f
  <2>7. Updates(f, type, l, es, m)
    BY <2>5, <2>6 DEF Updates
  <2> QED
    BY <1>3, <2>7
<1> QED
  BY <1>3, <1>4, <1>5

LEMMA UpdatesKeepList ==
  ASSUME NEW type, NEW l, ListOK(l), NEW es \in Seq(NewEntry)
  PROVE  ListOK(updateValidators(type, l, es))
<1> DEFINE n == Len(es)
           f == CHOOSE g : Updates(g, type, l, es, n)
<1>1. n \in Nat /\ \A i \in 1..n : es[i] \in NewEntry
  OBVIOUS
<1>2. updateValidators(type, l, es) = f[n]
  BY DEF updateValidators, Updates
<1>3. Updates(f, type, l, es, n)
  BY <1>1, UpdatesExist
<1> HIDE DEF f, n
<1>4. \A i \in 0..n : f[i] = IF i = 0 THEN l ELSE updateValidator(type, f[i - 1], es[i])
  BY <1>3, Zenon DEF Updates
<1> DEFINE B == {m \in 0..n : ~ListOK(f[m])}
<1>5. ASSUME B # {} PROVE FALSE
  <2>1. B \subseteq Nat
    BY <1>1
  <2>2. PICK m \in B : \A x \in B : m <= x
    BY <1>5, <2>1, LeastNatural
  <2>3. m \in 0..n /\ ~ListOK(f[m])
    BY <2>2
  <2>4. CASE m = 0
    <3>1. f[m] = l
      BY <1>4, <2>3, <2>4, Zenon
    <3> QED
      BY <2>3, <3>1
  <2>5. CASE m # 0
    <3>1. m - 1 \in 0..n /\ ~(m <= m - 1) /\ m \in 1..n
      BY <1>1, <2>3, <2>5
    <3>2. ListOK(f[m - 1])
      BY <2>2, <3>1
    <3>3. f[m] = updateValidator(type, f[m - 1], es[m])
      BY <1>4, <2>3, <2>5, Zenon
    <3>4. es[m] \in NewEntry
      BY <1>1, <3>1
    <3> QED
      BY <2>3, <3>2, <3>3, <3>4, UpdateKeepsList
  <2> QED
    BY <2>4, <2>5
<1>6. n \in 0..n
  BY <1>1
<1> QED
  BY <1>2, <1>5, <1>6

\* The validators that a block names.
LEMMA AddressesAre ==
  ASSUME NEW b \in PosBlock
  PROVE  updatedValidatorAddresses(b) \in Seq(Validator)
<1> DEFINE txs == PosTransactions[b]
           of(i) == IF txs[i].command \in {"registerValidator", "stake"} THEN txs[i].of ELSE << >>
           ss == [i \in DOMAIN txs |-> of(i)]
<1>1. txs \in Seq(PosCommand)
  BY ValidatorAssumption
<1> HIDE DEF txs
<1>2. \A c \in PosCommand : c.of \in Seq(Validator)
  BY DEF PosCommand
<1>3. ss \in Seq(Seq(Validator))
  <2>1. DOMAIN txs = 1..Len(txs) /\ Len(txs) \in Nat /\ \A i \in DOMAIN txs : txs[i] \in PosCommand
    BY <1>1
  <2>2. \A i \in 1..Len(txs) : of(i) \in Seq(Validator)
    BY <1>2, <2>1
  <2> HIDE DEF of
  <2> QED
    BY <2>1, <2>2
<1> HIDE DEF ss
<1>4. FlattenSeq(ss) \in Seq(Validator)
  BY <1>3, FlattenIs DEF Joined
<1> QED
  BY <1>4 DEF updatedValidatorAddresses, ss, txs

StepName == {"askAll", "assign", "rank", "status", "askGenerators", "setGenerators", "askSome",
             "apply", "answer"}

\* What is assigned or applied was asked for just before, and what is assigned is
\* ranked next.
Ordered(steps) ==
  /\ steps \in Seq(StepName)
  /\ \A i \in 1..Len(steps) :
       /\ steps[i] = "askAll" => i + 1 \in 1..Len(steps) /\ steps[i + 1] = "assign"
       /\ steps[i] = "assign" => i + 1 \in 1..Len(steps) /\ steps[i + 1] = "rank"
       /\ steps[i] = "assign" /\ i > 1 => steps[i - 1] = "askAll"
       /\ steps[i] = "apply" /\ i > 1 => steps[i - 1] = "askSome"

Starting(steps) == Ordered(steps) /\ (steps # << >> => Head(steps) \notin {"assign", "apply"})

\* What a task is about to write is what the node returned.
StepsOK(steps, got) ==
  /\ Ordered(steps)
  /\ steps # << >> /\ Head(steps) = "assign" => FreshList(got)
  /\ steps # << >> /\ Head(steps) = "apply" => got \in Seq(NewEntry)

TaskOK(x) ==
  /\ DOMAIN x = {"steps", "type", "addresses", "got"}
  /\ x.addresses \in Seq(Validator)
  /\ StepsOK(x.steps, x.got)

TasksOK == DOMAIN tasks = Task /\ \A t \in Task : TaskOK(tasks[t])

EventOK(e) == e.type = "newBlock" => e.height \in Nat \ {0}
PosNodeOK ==
  /\ posChain \in Seq(PosBlock)
  /\ posEvents \in Seq([type : {"newBlock", "deleteBlock", "newRound"},
                        block : PosBlock \cup {Unset}, height : Int])
  /\ \A i \in 1..Len(posEvents) : EventOK(posEvents[i])

ValidatorInv == PosNodeOK /\ TasksOK /\ ListOK(validatorList) /\ Ranked(validatorList)

LEMMA TailIsOrdered ==
  ASSUME NEW s, Ordered(s), s # << >>
  PROVE  /\ Ordered(Tail(s))
         /\ Head(s) = "askAll" => Tail(s) # << >> /\ Head(Tail(s)) = "assign"
         /\ Head(s) = "assign" => Tail(s) # << >> /\ Head(Tail(s)) = "rank"
         /\ Tail(s) # << >> /\ Head(Tail(s)) = "assign" => Head(s) = "askAll"
         /\ Tail(s) # << >> /\ Head(Tail(s)) = "apply" => Head(s) = "askSome"
<1>1. s \in Seq(StepName) /\ Len(s) \in Nat /\ Len(s) > 0
  BY DEF Ordered
<1> DEFINE u == Tail(s)
<1>2. /\ u \in Seq(StepName) /\ Len(u) = Len(s) - 1
      /\ \A i \in 1..Len(u) : u[i] = s[i + 1]
      /\ Head(s) = s[1]
  BY <1>1
<1> HIDE DEF u
<1>3. u # << >> => Len(u) > 0 /\ Head(u) = u[1]
  BY <1>2
<1>4. Len(u) > 0 => u # << >>
  BY <1>2
<1>5. \A i \in 1..Len(s) :
        /\ s[i] = "askAll" => i + 1 \in 1..Len(s) /\ s[i + 1] = "assign"
        /\ s[i] = "assign" => i + 1 \in 1..Len(s) /\ s[i + 1] = "rank"
        /\ s[i] = "assign" /\ i > 1 => s[i - 1] = "askAll"
        /\ s[i] = "apply" /\ i > 1 => s[i - 1] = "askSome"
  BY DEF Ordered
<1>6. ASSUME NEW i \in 1..Len(u)
      PROVE  /\ u[i] = "askAll" => i + 1 \in 1..Len(u) /\ u[i + 1] = "assign"
             /\ u[i] = "assign" => i + 1 \in 1..Len(u) /\ u[i + 1] = "rank"
             /\ u[i] = "assign" /\ i > 1 => u[i - 1] = "askAll"
             /\ u[i] = "apply" /\ i > 1 => u[i - 1] = "askSome"
  <2>1. i + 1 \in 1..Len(s) /\ i + 1 > 1 /\ (i + 1) - 1 = i
    BY <1>1, <1>2
  <2>2. /\ s[i + 1] = "askAll" => (i + 1) + 1 \in 1..Len(s) /\ s[(i + 1) + 1] = "assign"
        /\ s[i + 1] = "assign" => (i + 1) + 1 \in 1..Len(s) /\ s[(i + 1) + 1] = "rank"
        /\ s[i + 1] = "assign" => s[i] = "askAll"
        /\ s[i + 1] = "apply" => s[i] = "askSome"
    BY <1>5, <2>1
  <2>3. u[i] = s[i + 1]
    BY <1>2
  <2>4. (i + 1) + 1 \in 1..Len(s) => i + 1 \in 1..Len(u)
    BY <1>1, <1>2
  <2>5. i + 1 \in 1..Len(u) => u[i + 1] = s[(i + 1) + 1]
    BY <1>2
  <2>6. i > 1 => u[i - 1] = s[i]
    <3>1. SUFFICES ASSUME i > 1 PROVE u[i - 1] = s[i]
      OBVIOUS
    <3>2. i - 1 \in 1..Len(u) /\ (i - 1) + 1 = i
      BY <1>1, <1>2, <3>1
    <3> QED
      BY <1>2, <3>2
  <2> QED
    BY <2>2, <2>3, <2>4, <2>5, <2>6
<1>7. Ordered(u)
  BY <1>2, <1>6 DEF Ordered
<1>8. 1 \in 1..Len(s) /\ (Len(u) > 0 => 2 \in 1..Len(s) /\ u[1] = s[2])
  BY <1>1, <1>2
<1>9. /\ s[1] = "askAll" => Len(u) > 0 /\ s[2] = "assign"
      /\ s[1] = "assign" => Len(u) > 0 /\ s[2] = "rank"
  BY <1>1, <1>2, <1>5, <1>8
<1>10. 2 \in 1..Len(s) => /\ s[2] = "assign" => s[1] = "askAll"
                          /\ s[2] = "apply" => s[1] = "askSome"
  BY <1>5
<1> QED
  BY <1>2, <1>3, <1>4, <1>7, <1>8, <1>9, <1>10 DEF u

LEMMA ConcatIsOrdered ==
  ASSUME NEW a, NEW b, Ordered(a), Starting(b)
  PROVE  Ordered(a \o b) /\ (Starting(a) => Starting(a \o b))
<1> DEFINE c == a \o b
<1>1. a \in Seq(StepName) /\ b \in Seq(StepName)
  BY DEF Ordered, Starting
<1>2. /\ c \in Seq(StepName)
      /\ Len(a) \in Nat /\ Len(b) \in Nat /\ Len(c) = Len(a) + Len(b)
      /\ \A i \in 1..Len(a) : i \in 1..Len(c) /\ c[i] = a[i]
      /\ \A i \in 1..Len(b) : Len(a) + i \in 1..Len(c) /\ c[Len(a) + i] = b[i]
      /\ \A i \in 1..Len(c) : \/ i \in 1..Len(a) /\ c[i] = a[i]
                              \/ i - Len(a) \in 1..Len(b) /\ c[i] = b[i - Len(a)]
  BY <1>1, ConcatIs
<1>3. /\ Len(b) > 0 => b[1] \notin {"assign", "apply"}
      /\ Starting(a) /\ Len(a) > 0 => a[1] \notin {"assign", "apply"}
  <2>1. \A q \in Seq(StepName) : Len(q) > 0 => q # << >> /\ Head(q) = q[1]
    OBVIOUS
  <2> QED
    BY <1>1, <2>1 DEF Starting
<1> HIDE DEF c
<1>4. \A i \in 1..Len(a) :
        /\ a[i] = "askAll" => i + 1 \in 1..Len(a) /\ a[i + 1] = "assign"
        /\ a[i] = "assign" => i + 1 \in 1..Len(a) /\ a[i + 1] = "rank"
        /\ a[i] = "assign" /\ i > 1 => a[i - 1] = "askAll"
        /\ a[i] = "apply" /\ i > 1 => a[i - 1] = "askSome"
  BY DEF Ordered
<1>5. \A i \in 1..Len(b) :
        /\ b[i] = "askAll" => i + 1 \in 1..Len(b) /\ b[i + 1] = "assign"
        /\ b[i] = "assign" => i + 1 \in 1..Len(b) /\ b[i + 1] = "rank"
        /\ b[i] = "assign" /\ i > 1 => b[i - 1] = "askAll"
        /\ b[i] = "apply" /\ i > 1 => b[i - 1] = "askSome"
  BY DEF Ordered, Starting
<1>6. ASSUME NEW i \in 1..Len(c)
      PROVE  /\ c[i] = "askAll" => i + 1 \in 1..Len(c) /\ c[i + 1] = "assign"
             /\ c[i] = "assign" => i + 1 \in 1..Len(c) /\ c[i + 1] = "rank"
             /\ c[i] = "assign" /\ i > 1 => c[i - 1] = "askAll"
             /\ c[i] = "apply" /\ i > 1 => c[i - 1] = "askSome"
  <2>1. CASE i \in 1..Len(a) /\ c[i] = a[i]
    <3>1. i > 1 => i - 1 \in 1..Len(a) /\ c[i - 1] = a[i - 1]
      <4>1. i > 1 => i - 1 \in 1..Len(a)
        BY <1>2, <2>1
      <4> QED
        BY <1>2, <4>1
    <3>2. i + 1 \in 1..Len(a) => i + 1 \in 1..Len(c) /\ c[i + 1] = a[i + 1]
      BY <1>2
    <3> QED
      BY <1>4, <2>1, <3>1, <3>2
  <2>2. CASE i - Len(a) \in 1..Len(b) /\ c[i] = b[i - Len(a)]
    <3> DEFINE j == i - Len(a)
    <3>1. j \in 1..Len(b) /\ c[i] = b[j]
      BY <2>2
    <3>2. j + 1 \in 1..Len(b) => i + 1 \in 1..Len(c) /\ c[i + 1] = b[j + 1]
      <4>1. Len(a) + (j + 1) = i + 1
        BY <1>2
      <4> QED
        BY <1>2, <4>1
    <3>3. j > 1 => c[i - 1] = b[j - 1]
      <4>1. j > 1 => j - 1 \in 1..Len(b) /\ Len(a) + (j - 1) = i - 1
        BY <1>2, <3>1
      <4> QED
        BY <1>2, <4>1
    <3>4. j = 1 => c[i] \notin {"assign", "apply"}
      BY <1>2, <1>3, <3>1
    <3>5. j = 1 \/ j > 1
      BY <1>2, <3>1
    <3> HIDE DEF j
    <3> QED
      BY <1>5, <3>1, <3>2, <3>3, <3>4, <3>5
  <2> QED
    BY <1>2, <2>1, <2>2
<1>7. Ordered(c)
  BY <1>2, <1>6 DEF Ordered
<1>8. ASSUME Starting(a), c # << >> PROVE Head(c) \notin {"assign", "apply"}
  <2>1. Len(c) > 0 /\ Head(c) = c[1]
    BY <1>2, <1>8
  <2>2. CASE Len(a) > 0
    <3>1. c[1] = a[1]
      BY <1>2, <2>2
    <3> QED
      BY <1>3, <1>8, <2>1, <2>2, <3>1
  <2>3. CASE Len(a) = 0
    <3>1. Len(b) > 0 /\ c[1] = b[1]
      BY <1>2, <2>1, <2>3
    <3> QED
      BY <1>3, <2>1, <3>1
  <2> QED
    BY <1>2, <2>2, <2>3
<1> QED
  BY <1>7, <1>8 DEF Starting, c

LEMMA StepListsStart ==
  /\ Starting(reloadValidatorCache) /\ Starting(reloadGeneratorsCache) /\ Starting(newRoundProcessor)
  /\ Starting(updateValidatorCacheListener) /\ Starting(<< >>)
  /\ Starting(<< >> \o <<"answer">>) /\ Starting(reloadValidatorCache \o <<"answer">>)
<1>1. Starting(reloadValidatorCache)
  BY DEF reloadValidatorCache, Ordered, Starting, StepName
<1>2. Starting(reloadGeneratorsCache)
  BY DEF reloadGeneratorsCache, Ordered, Starting, StepName
<1>3. Starting(newRoundProcessor)
  BY <1>1, <1>2, ConcatIsOrdered DEF newRoundProcessor, Starting
<1>4. Starting(updateValidatorCacheListener)
  BY DEF updateValidatorCacheListener, Ordered, Starting, StepName
<1>5. Starting(<<"answer">>)
  BY DEF Ordered, Starting, StepName
<1>6. Starting(<< >>)
  BY DEF Ordered, Starting
<1>7. Starting(reloadValidatorCache \o <<"answer">>) /\ Starting(<< >> \o <<"answer">>)
  BY <1>1, <1>5, <1>6, ConcatIsOrdered DEF Starting
<1> QED
  BY <1>1, <1>2, <1>3, <1>4, <1>6, <1>7

LEMMA StartingIsOK ==
  ASSUME NEW steps, NEW got, Starting(steps)
  PROVE  StepsOK(steps, got)
BY DEF Starting, StepsOK

LEMMA IdleIsOK == TaskOK(Idle)
<1>1. StepsOK(<< >>, << >>)
  BY StepListsStart, StartingIsOK
<1> QED
  BY <1>1 DEF TaskOK, Idle

\* One task changes, and what it becomes is sound.
LEMMA OneTaskChanges ==
  ASSUME TasksOK, NEW t \in Task, NEW x, TaskOK(x), tasks' = [tasks EXCEPT ![t] = x]
  PROVE  TasksOK'
<1>1. DOMAIN tasks = Task /\ \A u \in Task : TaskOK(tasks[u])
  BY DEF TasksOK
<1>2. DOMAIN tasks' = Task /\ \A u \in Task : tasks'[u] = x \/ tasks'[u] = tasks[u]
  BY <1>1
<1>3. \A u \in Task : TaskOK(tasks'[u])
  BY <1>1, <1>2
<1> QED
  BY <1>2, <1>3 DEF TasksOK, TaskOK, StepsOK, Ordered, FreshList, Distinct

LEMMA TaskGoesOn ==
  ASSUME TasksOK, NEW t \in Task, NEW steps, NEW got, StepsOK(steps, got),
         tasks' = [tasks EXCEPT ![t].steps = steps, ![t].got = got]
  PROVE  TasksOK'
<1> DEFINE x == [tasks[t] EXCEPT !.steps = steps, !.got = got]
<1>1. DOMAIN tasks = Task /\ TaskOK(tasks[t])
  BY DEF TasksOK
<1>2. tasks' = [tasks EXCEPT ![t] = x]
  BY <1>1
<1>3. DOMAIN x = {"steps", "type", "addresses", "got"} /\ x.addresses = tasks[t].addresses
      /\ x.steps = steps /\ x.got = got
  BY <1>1 DEF TaskOK
<1> HIDE DEF x
<1>4. TaskOK(x)
  BY <1>1, <1>3 DEF TaskOK
<1> QED
  BY <1>2, <1>4, OneTaskChanges

LEMMA TaskSteps ==
  ASSUME TasksOK, NEW t \in Task, NEW steps, (\A got : StepsOK(steps, got)), Goes(t, steps)
  PROVE  TasksOK'
<1>1. DOMAIN tasks = Task /\ TaskOK(tasks[t])
  BY DEF TasksOK
<1> DEFINE x == [tasks[t] EXCEPT !.steps = steps]
<1>2. tasks' = [tasks EXCEPT ![t] = x]
  BY <1>1 DEF Goes
<1>3. DOMAIN x = {"steps", "type", "addresses", "got"} /\ x.addresses = tasks[t].addresses
      /\ x.steps = steps
  BY <1>1 DEF TaskOK
<1> HIDE DEF x
<1>4. TaskOK(x)
  BY <1>1, <1>3 DEF TaskOK
<1> QED
  BY <1>2, <1>4, OneTaskChanges

\* A step of a task keeps the invariant.
LEMMA TaskStepKeepsInv ==
  ASSUME ValidatorInv, NEW t \in Task, TaskStep(t)
  PROVE  ValidatorInv'
<1> DEFINE s == tasks[t].steps
<1>0. PosNodeOK /\ TasksOK /\ ListOK(validatorList) /\ Ranked(validatorList)
  BY DEF ValidatorInv
<1>1. TaskOK(tasks[t]) /\ Ordered(s) /\ DOMAIN tasks = Task
  BY <1>0 DEF TasksOK, TaskOK, StepsOK
<1>2. posChain \in Seq(PosBlock)
  BY <1>0 DEF PosNodeOK
<1>3. ASSUME NodeStays PROVE PosNodeOK'
  BY <1>0, <1>3 DEF NodeStays, PosNodeOK
<1>4. ASSUME UNCHANGED validatorList PROVE ListOK(validatorList)' /\ Ranked(validatorList)'
  BY <1>0, <1>4 DEF ListOK, Ranked, Distinct, FewActive
<1>5. ASSUME NEW l, ListOK(l), Ranked(l), validatorList' = l
      PROVE  ListOK(validatorList)' /\ Ranked(validatorList)'
  BY <1>5 DEF ListOK, Ranked, Distinct, FewActive
<1>6. ASSUME PosNodeOK', TasksOK', ListOK(validatorList)', Ranked(validatorList)'
      PROVE  ValidatorInv'
  BY <1>6 DEF ValidatorInv
<1>7. ASSUME s # << >>, Head(s) \notin {"askAll", "askSome"}
      PROVE  \A got : StepsOK(Tail(s), got)
  BY <1>1, <1>7, TailIsOrdered DEF StepsOK
<1>8. ASSUME Ends(t) PROVE TasksOK'
  BY <1>0, <1>8, IdleIsOK, OneTaskChanges DEF Ends
<1>9. ASSUME NEW a, Got(t, a), StepsOK(Tail(s), a) PROVE TasksOK'
  BY <1>0, <1>9, TaskGoesOn DEF Got
<1>10. ASSUME Done(t), StepsOK(Tail(s), << >>) PROVE TasksOK'
  BY <1>0, <1>10, TaskGoesOn DEF Done
<1>11. CASE getAllPosValidators(t)
  <2>1. s # << >> /\ Head(s) = "askAll" /\ NodeStays /\ UNCHANGED validatorList
    BY <1>11 DEF getAllPosValidators, Step, ListsStay
  <2>2. /\ Ordered(Tail(s)) /\ Tail(s) # << >> /\ Head(Tail(s)) = "assign"
    BY <1>1, <2>1, TailIsOrdered
  <2>3. CASE Got(t, allPosValidators(posChain))
    <3>1. StepsOK(Tail(s), allPosValidators(posChain))
      BY <1>2, <2>2, NodeListIsFresh DEF StepsOK
    <3> QED
      BY <1>3, <1>4, <1>6, <1>9, <2>1, <2>3, <3>1
  <2>4. CASE Goes(t, Tail(Tail(s)))
    <3>1. \A got : StepsOK(Tail(Tail(s)), got)
      BY <2>2, TailIsOrdered DEF StepsOK
    <3>2. TasksOK'
      BY <1>0, <2>4, <3>1, TaskSteps
    <3> QED
      BY <1>3, <1>4, <1>6, <2>1, <3>2
  <2> QED
    BY <1>11, <2>3, <2>4 DEF getAllPosValidators
<1>12. CASE loadAllPosValidators(t)
  <2>1. /\ s # << >> /\ Head(s) = "assign" /\ NodeStays /\ Done(t)
        /\ validatorList' = tasks[t].got
    BY <1>12 DEF loadAllPosValidators, Step
  <2>2. FreshList(tasks[t].got)
    BY <1>1, <2>1 DEF TaskOK, StepsOK
  <2>3. ListOK(tasks[t].got) /\ Ranked(tasks[t].got)
    <3> DEFINE l == tasks[t].got
    <3>1. l \in Seq(NewEntry) /\ Distinct(l)
      BY <2>2 DEF FreshList
    <3> HIDE DEF l
    <3>2. DOMAIN l = 1..Len(l) /\ \A i \in 1..Len(l) : l[i] \in NewEntry
      BY <3>1
    <3>3. \A i \in DOMAIN l : l[i] \in Entry /\ l[i].rank = 0 /\ l[i].status # "active"
      BY <3>2 DEF NewEntry, Unset
    <3>4. l \in Seq(Entry)
      BY <3>1, <3>2, <3>3
    <3>5. FewActive(l)
      <4>1. IsFiniteSet({}) /\ Cardinality({}) = 0
        BY FS_EmptySet
      <4>2. Cardinality({}) <= numberActiveValidators
        BY <4>1, ValidatorAssumption
      <4> QED
        BY <3>3, <4>1, <4>2 DEF FewActive
    <3>6. Ranked(l)
      BY <3>3 DEF Ranked
    <3> QED
      BY <3>1, <3>4, <3>5, <3>6 DEF ListOK, l
  <2>4. TasksOK'
    BY <1>7, <1>10, <2>1
  <2> QED
    BY <1>3, <1>5, <1>6, <2>1, <2>3, <2>4
<1>13. CASE rankAll(t)
  <2>1. /\ s # << >> /\ Head(s) = "rank" /\ NodeStays /\ Done(t)
        /\ validatorList' = computeValidatorRank(validatorList)
    BY <1>13 DEF rankAll, Step
  <2>2. ListOK(computeValidatorRank(validatorList)) /\ Ranked(computeValidatorRank(validatorList))
    BY <1>0, RankKeepsList
  <2>3. TasksOK'
    BY <1>7, <1>10, <2>1
  <2> QED
    BY <1>3, <1>5, <1>6, <2>1, <2>2, <2>3
<1>14. CASE statusOfAll(t)
  <2>1. s # << >> /\ Head(s) = "status" /\ NodeStays
    BY <1>14 DEF statusOfAll, Step
  <2>2. CASE Goes(t, reloadGeneratorsCache \o s) /\ UNCHANGED validatorList
    <3>1. Starting(s)
      BY <1>1, <2>1 DEF Starting
    <3>2. Starting(reloadGeneratorsCache \o s)
      BY <3>1, StepListsStart, ConcatIsOrdered DEF Starting
    <3>3. \A got : StepsOK(reloadGeneratorsCache \o s, got)
      BY <3>2, StartingIsOK
    <3>4. TasksOK'
      BY <1>0, <2>2, <3>3, TaskSteps
    <3> QED
      BY <1>3, <1>4, <1>6, <2>1, <2>2, <3>4
  <2>3. CASE /\ validatorList' = computeValidatorStatus(validatorList, generatorsListCache)
             /\ Done(t)
    <3>1. /\ ListOK(computeValidatorStatus(validatorList, generatorsListCache))
          /\ Ranked(computeValidatorStatus(validatorList, generatorsListCache))
      BY <1>0, StatusKeepsList
    <3>2. TasksOK'
      BY <1>7, <1>10, <2>1, <2>3
    <3> QED
      BY <1>3, <1>5, <1>6, <2>1, <2>3, <3>1, <3>2
  <2> QED
    BY <1>14, <2>2, <2>3, Zenon DEF statusOfAll
<1>15. CASE getGeneratorsInfo(t)
  <2>1. s # << >> /\ Head(s) = "askGenerators" /\ NodeStays /\ UNCHANGED validatorList
    BY <1>15 DEF getGeneratorsInfo, Step, ListsStay
  <2>2. CASE Got(t, generatorList)
    BY <1>3, <1>4, <1>6, <1>7, <1>9, <2>1, <2>2
  <2>3. CASE Goes(t, newRoundProcessor)
    <3>1. \A got : StepsOK(newRoundProcessor, got)
      BY StepListsStart, StartingIsOK
    <3>2. TasksOK'
      BY <1>0, <2>3, <3>1, TaskSteps
    <3> QED
      BY <1>3, <1>4, <1>6, <2>1, <3>2
  <2>4. CASE Ends(t)
    BY <1>3, <1>4, <1>6, <1>8, <2>1, <2>4
  <2> QED
    BY <1>15, <2>2, <2>3, <2>4, Zenon DEF getGeneratorsInfo
<1>16. CASE setGenerators(t)
  <2>1. s # << >> /\ Head(s) = "setGenerators" /\ NodeStays /\ Done(t) /\ UNCHANGED validatorList
    BY <1>16 DEF setGenerators, Step
  <2>2. TasksOK'
    BY <1>7, <1>10, <2>1
  <2> QED
    BY <1>3, <1>4, <1>6, <2>1, <2>2
<1>17. CASE getPosValidatorsOf(t)
  <2> DEFINE wanted == tasks[t].addresses
             some == [i \in DOMAIN wanted |-> PosValidator(posChain, wanted[i])]
  <2>1. s # << >> /\ Head(s) = "askSome" /\ NodeStays /\ UNCHANGED validatorList
    BY <1>17 DEF getPosValidatorsOf, Step, ListsStay
  <2>2. CASE Got(t, some)
    <3>1. wanted \in Seq(Validator)
      BY <1>1 DEF TaskOK
    <3>2. DOMAIN wanted = 1..Len(wanted) /\ Len(wanted) \in Nat
          /\ \A i \in 1..Len(wanted) : wanted[i] \in Validator
      BY <3>1
    <3>3. \A i \in 1..Len(wanted) : PosValidator(posChain, wanted[i]) \in NewEntry
      BY <1>2, <3>2, NodeEntryIs
    <3> HIDE DEF wanted
    <3>4. some \in Seq(NewEntry)
      BY <3>2, <3>3
    <3>5. StepsOK(Tail(s), some)
      BY <1>1, <2>1, <3>4, TailIsOrdered DEF StepsOK
    <3> QED
      BY <1>3, <1>4, <1>6, <1>9, <2>1, <2>2, <3>5
  <2>3. CASE Ends(t)
    BY <1>3, <1>4, <1>6, <1>8, <2>1, <2>3
  <2> QED
    BY <1>17, <2>2, <2>3 DEF getPosValidatorsOf
<1>18. CASE updateValidatorList(t)
  <2> DEFINE l == updateValidators(tasks[t].type, validatorList, tasks[t].got)
  <2>1. /\ s # << >> /\ Head(s) = "apply" /\ NodeStays /\ Ends(t)
        /\ validatorList' = computeValidatorRank(l)
    BY <1>18 DEF updateValidatorList, Step
  <2>2. tasks[t].got \in Seq(NewEntry)
    BY <1>1, <2>1 DEF TaskOK, StepsOK
  <2>3. ListOK(l)
    BY <1>0, <2>2, UpdatesKeepList
  <2> HIDE DEF l
  <2>4. ListOK(computeValidatorRank(l)) /\ Ranked(computeValidatorRank(l))
    BY <2>3, RankKeepsList
  <2> QED
    BY <1>3, <1>5, <1>6, <1>8, <2>1, <2>4
<1>19. CASE answerQuery(t)
  <2>1. NodeStays /\ Ends(t)
    BY <1>19 DEF answerQuery
  <2>2. validatorList' = computeValidatorRank(validatorList) \/ validatorList' = validatorList
    BY <1>19 DEF answerQuery
  <2>3. ListOK(computeValidatorRank(validatorList)) /\ Ranked(computeValidatorRank(validatorList))
    BY <1>0, RankKeepsList
  <2> QED
    BY <1>0, <1>3, <1>5, <1>6, <1>8, <2>1, <2>2, <2>3
<1> HIDE DEF s
<1> QED
  BY <1>11, <1>12, <1>13, <1>14, <1>15, <1>16, <1>17, <1>18, <1>19 DEF TaskStep

LEMMA TaskStarts ==
  ASSUME NEW t \in Task, NEW steps, Starting(steps), TasksOK,
         tasks' = Starts(t, steps)
  PROVE  TasksOK'
<1> DEFINE x == [Idle EXCEPT !.steps = steps]
<1>1. x.steps = steps /\ DOMAIN x = {"steps", "type", "addresses", "got"} /\ x.addresses = << >>
  BY DEF Idle
<1> HIDE DEF x
<1>2. TaskOK(x)
  BY <1>1, StartingIsOK DEF TaskOK
<1> QED
  BY <1>2, OneTaskChanges DEF Starts, x

\* A block or a deletion is dispatched to the listeners.
LEMMA DispatchKeepsTasks ==
  ASSUME TasksOK, NEW type, NEW block \in PosBlock, Dispatch(type, block)
  PROVE  TasksOK'
<1> DEFINE starting == updatedValidatorAddresses(block)
           reloading == IF type = "newBlock" THEN Starts("generators", reloadGeneratorsCache)
                                             ELSE tasks
<1>1. starting \in Seq(Validator)
  BY AddressesAre
<1>2. DOMAIN tasks = Task /\ \A t \in Task : TaskOK(tasks[t])
  BY DEF TasksOK
<1>3. DOMAIN reloading = Task /\ \A t \in Task : TaskOK(reloading[t])
  <2> DEFINE x == [Idle EXCEPT !.steps = reloadGeneratorsCache]
  <2>1. /\ x.steps = reloadGeneratorsCache /\ x.addresses = << >>
        /\ DOMAIN x = {"steps", "type", "addresses", "got"}
    BY DEF Idle
  <2> HIDE DEF x
  <2>2. TaskOK(x)
    BY <2>1, StartingIsOK, StepListsStart DEF TaskOK
  <2>3. reloading = [tasks EXCEPT !["generators"] = x] \/ reloading = tasks
    BY DEF Starts, x
  <2> HIDE DEF reloading
  <2>4. CASE reloading = [tasks EXCEPT !["generators"] = x]
    <3>1. DOMAIN reloading = Task /\ \A t \in Task : reloading[t] = x \/ reloading[t] = tasks[t]
      BY <1>2, <2>4
    <3> QED
      BY <1>2, <2>2, <3>1
  <2> QED
    BY <1>2, <2>3, <2>4
<1>4. \/ tasks' = reloading
      \/ \E l \in Listener :
           tasks' = [reloading EXCEPT ![l] = [steps |-> updateValidatorCacheListener,
                                              type |-> type, addresses |-> starting,
                                              got |-> << >>]]
  BY Zenon DEF Dispatch
<1> DEFINE y == [steps |-> updateValidatorCacheListener, type |-> type, addresses |-> starting,
                 got |-> << >>]
<1>5. TaskOK(y)
  <2>1. /\ y.steps = updateValidatorCacheListener /\ y.addresses = starting
        /\ DOMAIN y = {"steps", "type", "addresses", "got"}
    OBVIOUS
  <2> HIDE DEF y, starting
  <2> QED
    BY <1>1, <2>1, StartingIsOK, StepListsStart DEF TaskOK
<1> HIDE DEF y, reloading, starting
<1>6. DOMAIN tasks' = Task /\ \A t \in Task : tasks'[t] = y \/ tasks'[t] = reloading[t]
  <2>1. CASE tasks' = reloading
    BY <1>3, <2>1
  <2>2. ASSUME NEW l \in Listener, tasks' = [reloading EXCEPT ![l] = y]
        PROVE  DOMAIN tasks' = Task /\ \A t \in Task : tasks'[t] = y \/ tasks'[t] = reloading[t]
    BY <1>3, <2>2
  <2> QED
    BY <1>4, <2>1, <2>2 DEF y
<1>7. \A t \in Task : TaskOK(tasks'[t])
  BY <1>3, <1>5, <1>6
<1> QED
  BY <1>6, <1>7 DEF TasksOK, TaskOK, StepsOK, Ordered, FreshList, Distinct

LEMMA EventAdded ==
  ASSUME PosNodeOK, posChain' \in Seq(PosBlock),
         NEW e \in [type : {"newBlock", "deleteBlock", "newRound"},
                    block : PosBlock \cup {Unset}, height : Int],
         EventOK(e), posEvents' = Append(posEvents, e)
  PROVE  PosNodeOK'
<1> DEFINE E == [type : {"newBlock", "deleteBlock", "newRound"},
                 block : PosBlock \cup {Unset}, height : Int]
<1>1. posEvents \in Seq(E) /\ \A i \in 1..Len(posEvents) : EventOK(posEvents[i])
  BY DEF PosNodeOK
<1>2. e \in E
  OBVIOUS
<1> HIDE DEF E
<1>3. /\ posEvents' \in Seq(E) /\ Len(posEvents') = Len(posEvents) + 1
      /\ \A i \in 1..Len(posEvents) : posEvents'[i] = posEvents[i]
      /\ posEvents'[Len(posEvents) + 1] = e
      /\ Len(posEvents) \in Nat
  BY <1>1, <1>2
<1>4. \A i \in 1..Len(posEvents') : i \in 1..Len(posEvents) \/ i = Len(posEvents) + 1
  BY <1>3
<1>5. \A i \in 1..Len(posEvents') : EventOK(posEvents'[i])
  BY <1>1, <1>3, <1>4
<1> QED
  BY <1>3, <1>5 DEF PosNodeOK, EventOK, E

\* Every step keeps the invariant.
LEMMA ValidatorStepKeepsInv ==
  ASSUME ValidatorInv, ValidatorNext
  PROVE  ValidatorInv'
<1>0. PosNodeOK /\ TasksOK /\ ListOK(validatorList) /\ Ranked(validatorList)
  BY DEF ValidatorInv
<1>1. ASSUME NodeStays PROVE PosNodeOK'
  BY <1>0, <1>1 DEF NodeStays, PosNodeOK
<1>2. ASSUME ListsStay PROVE ListOK(validatorList)' /\ Ranked(validatorList)'
  BY <1>0, <1>2 DEF ListsStay, ListOK, Ranked, Distinct, FewActive
<1>3. ASSUME UNCHANGED tasks PROVE TasksOK'
  BY <1>0, <1>3 DEF TasksOK, TaskOK, StepsOK, Ordered, FreshList, Distinct
<1>4. ASSUME PosNodeOK', TasksOK', ListOK(validatorList)', Ranked(validatorList)'
      PROVE  ValidatorInv'
  BY <1>4 DEF ValidatorInv
<1>5. {"job", "events", "generators", "query"} \subseteq Task
  BY DEF Task
<1>6. ASSUME NEW t \in Task, TaskStep(t) PROVE ValidatorInv'
  BY <1>6, TaskStepKeepsInv
<1>7. CASE reloadJob
  <2>1. TasksOK'
    BY <1>0, <1>5, <1>7, TaskStarts, StepListsStart DEF reloadJob
  <2> QED
    BY <1>1, <1>2, <1>4, <1>7, <2>1 DEF reloadJob
<1>8. CASE getAllValidators
  <2> DEFINE steps == (IF validatorList = << >> THEN reloadValidatorCache ELSE << >>) \o <<"answer">>
  <2>1. Starting(steps)
    BY StepListsStart
  <2>2. tasks' = Starts("query", steps) /\ NodeStays /\ ListsStay
    BY <1>8 DEF getAllValidators, NodeStays
  <2> HIDE DEF steps
  <2>3. TasksOK'
    BY <1>0, <1>5, <2>1, <2>2, TaskStarts
  <2> QED
    BY <1>1, <1>2, <1>4, <2>2, <2>3
<1>9. CASE initEventsProcess
  <2> DEFINE E == [type : {"newBlock", "deleteBlock", "newRound"},
                   block : PosBlock \cup {Unset}, height : Int]
             e == Head(posEvents)
  <2>1. /\ posEvents # << >> /\ posEvents' = Tail(posEvents) /\ ListsStay
        /\ UNCHANGED <<posChain, generatorList, posChanges, disturbances>>
    BY <1>9 DEF initEventsProcess
  <2>2. /\ posEvents \in Seq(E) /\ posChain \in Seq(PosBlock)
        /\ \A i \in 1..Len(posEvents) : EventOK(posEvents[i])
    BY <1>0 DEF PosNodeOK
  <2> HIDE DEF E
  <2>3. /\ posEvents' \in Seq(E) /\ Len(posEvents') = Len(posEvents) - 1 /\ Len(posEvents) \in Nat \ {0}
        /\ \A i \in 1..Len(posEvents') : posEvents'[i] = posEvents[i + 1]
        /\ e = posEvents[1]
    BY <2>1, <2>2
  <2>4. \A i \in 1..Len(posEvents') : i + 1 \in 1..Len(posEvents)
    BY <2>3
  <2>5. \A i \in 1..Len(posEvents') : EventOK(posEvents'[i])
    BY <2>2, <2>3, <2>4
  <2>6. PosNodeOK'
    BY <2>1, <2>2, <2>3, <2>5 DEF PosNodeOK, EventOK, E
  <2>7. EventOK(e)
    BY <2>2, <2>3
  <2>8. TasksOK'
    <3>1. \/ e.type = "newBlock" /\ Len(posChain) >= e.height
             /\ Dispatch("newBlock", posChain[e.height])
          \/ e.block \in ToSet(posChain) /\ Dispatch("deleteBlock", e.block)
          \/ UNCHANGED tasks
          \/ tasks' = Starts("events", newRoundProcessor)
      BY <1>9 DEF initEventsProcess
    <3>2. CASE e.type = "newBlock" /\ Len(posChain) >= e.height /\ Dispatch("newBlock", posChain[e.height])
      <4> DEFINE h == e.height
      <4>1. h \in Nat \ {0} /\ Len(posChain) >= h
        BY <2>7, <3>2 DEF EventOK
      <4> HIDE DEF h, e
      <4>2. h \in 1..Len(posChain)
        BY <2>2, <4>1
      <4>3. posChain[h] \in PosBlock
        BY <2>2, <4>2
      <4> QED
        BY <1>0, <3>2, <4>3, DispatchKeepsTasks DEF h
    <3>3. CASE e.block \in ToSet(posChain) /\ Dispatch("deleteBlock", e.block)
      <4>1. e.block \in PosBlock
        BY <2>2, <3>3 DEF ToSet
      <4> QED
        BY <1>0, <3>3, <4>1, DispatchKeepsTasks
    <3>4. CASE tasks' = Starts("events", newRoundProcessor)
      BY <1>0, <1>5, <3>4, TaskStarts, StepListsStart
    <3> QED
      BY <1>3, <3>1, <3>2, <3>3, <3>4
  <2> QED
    BY <1>2, <1>4, <2>1, <2>6, <2>8
<1>10. ASSUME NEW b \in PosBlock, PosNodeAdds(b) PROVE ValidatorInv'
  <2> DEFINE e == [type |-> "newBlock", block |-> b, height |-> Len(posChain')]
  <2>1. posChain' = Append(posChain, b) /\ posEvents' = Append(posEvents, e)
        /\ ListsStay /\ UNCHANGED tasks
    BY <1>10 DEF PosNodeAdds
  <2>2. posChain \in Seq(PosBlock)
    BY <1>0 DEF PosNodeOK
  <2>3. posChain' \in Seq(PosBlock) /\ Len(posChain') \in Nat \ {0}
    BY <2>1, <2>2
  <2>4. e.type = "newBlock" /\ e.height = Len(posChain')
    OBVIOUS
  <2>5. EventOK(e)
    BY <2>3, <2>4 DEF EventOK
  <2>6. e \in [type : {"newBlock", "deleteBlock", "newRound"},
               block : PosBlock \cup {Unset}, height : Int]
    BY <2>3
  <2> HIDE DEF e
  <2>7. PosNodeOK'
    BY <1>0, <2>1, <2>3, <2>5, <2>6, EventAdded
  <2> QED
    BY <1>2, <1>3, <1>4, <2>1, <2>7
<1>11. CASE PosNodeRemoves
  <2> DEFINE e == [type |-> "deleteBlock", block |-> Last(posChain), height |-> Len(posChain)]
  <2>1. posChain # << >> /\ posChain' = Front(posChain) /\ posEvents' = Append(posEvents, e)
        /\ ListsStay /\ UNCHANGED tasks
    BY <1>11 DEF PosNodeRemoves
  <2>2. posChain \in Seq(PosBlock)
    BY <1>0 DEF PosNodeOK
  <2>3. Len(posChain) \in Nat /\ Len(posChain) > 0
    BY <2>1, <2>2
  <2>4. posChain' = SubSeq(posChain, 1, Len(posChain) - 1) /\ Last(posChain) = posChain[Len(posChain)]
    BY <2>1 DEF Front, Last
  <2>5. posChain' \in Seq(PosBlock) /\ Last(posChain) \in PosBlock
    BY <2>2, <2>3, <2>4
  <2>6. e.type = "deleteBlock"
    OBVIOUS
  <2>7. EventOK(e)
    BY <2>6 DEF EventOK
  <2>8. e \in [type : {"newBlock", "deleteBlock", "newRound"},
               block : PosBlock \cup {Unset}, height : Int]
    BY <2>3, <2>5
  <2> HIDE DEF e
  <2>9. PosNodeOK'
    BY <1>0, <2>1, <2>5, <2>7, <2>8, EventAdded
  <2> QED
    BY <1>2, <1>3, <1>4, <2>1, <2>9
<1>12. CASE PosNodeRound
  <2> DEFINE e == [type |-> "newRound", block |-> Unset, height |-> NoHeight]
  <2>1. UNCHANGED posChain /\ posEvents' = Append(posEvents, e) /\ ListsStay /\ UNCHANGED tasks
    BY <1>12 DEF PosNodeRound
  <2>2. posChain' \in Seq(PosBlock)
    BY <1>0, <2>1 DEF PosNodeOK
  <2>3. e.type = "newRound"
    OBVIOUS
  <2>4. EventOK(e)
    BY <2>3 DEF EventOK
  <2>5. e \in [type : {"newBlock", "deleteBlock", "newRound"},
               block : PosBlock \cup {Unset}, height : Int]
    BY DEF NoHeight
  <2> HIDE DEF e
  <2>6. PosNodeOK'
    BY <1>0, <2>1, <2>2, <2>4, <2>5, EventAdded
  <2> QED
    BY <1>2, <1>3, <1>4, <2>1, <2>6
<1> QED
  BY <1>6, <1>7, <1>8, <1>9, <1>10, <1>11, <1>12 DEF ValidatorNext

\* The list has all its ranks, or the task that loaded it is about to give them.
FullyRanked(l) == \A i \in DOMAIN l : l[i].rank = i
RankPending ==
  (\A i \in DOMAIN validatorList : validatorList[i].rank = 0) /\ \E t \in Task : Step(t, "rank")
RankInv == FullyRanked(validatorList) \/ RankPending

\* Ranks do not change, and no task that is about to give them is disturbed.
LEMMA PendingStays ==
  ASSUME RankInv, DOMAIN validatorList' = DOMAIN validatorList,
         \A i \in DOMAIN validatorList : validatorList'[i].rank = validatorList[i].rank,
         \A u \in Task : Step(u, "rank") => tasks'[u] = tasks[u]
  PROVE  RankInv'
BY DEF RankInv, FullyRanked, RankPending, Step

\* The list is ranked anew.
LEMMA RankedAnew ==
  ASSUME NEW l, ListOK(l), validatorList' = computeValidatorRank(l)
  PROVE  RankInv'
<1>1. l \in Seq(Entry) /\ DOMAIN l = 1..Len(l)
  BY DEF ListOK
<1>2. ASSUME NEW i \in 1..Len(l) PROVE [l[i] EXCEPT !.rank = i].rank = i
  <2>1. l[i] \in Entry /\ i \in Nat /\ Unset \in ValidatorStatus
    BY <1>1 DEF ValidatorStatus
  <2> QED
    BY <2>1, EntryUpdates, Zenon
<1>3. DOMAIN validatorList' = 1..Len(l) /\ \A i \in 1..Len(l) : validatorList'[i].rank = i
  BY <1>1, <1>2 DEF computeValidatorRank
<1> QED
  BY <1>3 DEF RankInv, FullyRanked

\* Every step keeps the ranks complete.
LEMMA RanksStayComplete ==
  ASSUME ValidatorInv, RankInv, ValidatorNext
  PROVE  RankInv'
<1>0. TasksOK /\ ListOK(validatorList) /\ DOMAIN tasks = Task
  BY DEF ValidatorInv, TasksOK
<1> DEFINE Others(t) == \A u \in Task \ {t} : tasks'[u] = tasks[u]
<1>1. ASSUME NEW t \in Task, UNCHANGED validatorList, Others(t), ~Step(t, "rank")
      PROVE  RankInv'
  BY <1>1, PendingStays
<1>2. \A t \in Task : \A x : Goes(t, x) \/ Got(t, x) \/ tasks' = Starts(t, x) => Others(t)
  BY <1>0 DEF Goes, Got, Starts
<1>3. \A t \in Task : Done(t) \/ Ends(t) => Others(t)
  BY <1>0 DEF Done, Ends
<1>4. ASSUME NEW t \in Task, TaskStep(t) PROVE RankInv'
  <2>1. CASE getAllPosValidators(t)
    BY <1>1, <1>2, <2>1 DEF getAllPosValidators, ListsStay, Step
  <2>2. CASE loadAllPosValidators(t)
    <3>1. TaskOK(tasks[t]) /\ Step(t, "assign") /\ Done(t) /\ validatorList' = tasks[t].got
      BY <1>0, <2>2 DEF loadAllPosValidators, TasksOK
    <3>2. Ordered(tasks[t].steps) /\ FreshList(tasks[t].got)
      BY <3>1 DEF TaskOK, StepsOK, Step
    <3> DEFINE l == tasks[t].got
    <3>3. \A i \in DOMAIN l : l[i].rank = 0
      <4>1. l \in Seq(NewEntry)
        BY <3>2 DEF FreshList
      <4> HIDE DEF l
      <4> QED
        BY <4>1 DEF NewEntry
    <3>4. /\ Tail(tasks[t].steps) # << >> /\ Head(Tail(tasks[t].steps)) = "rank"
      BY <3>1, <3>2, TailIsOrdered DEF Step
    <3>5. tasks'[t].steps = Tail(tasks[t].steps)
      BY <1>0, <3>1 DEF Done, TaskOK
    <3>6. Step(t, "rank")'
      BY <3>4, <3>5 DEF Step
    <3> QED
      BY <3>1, <3>3, <3>6 DEF RankInv, RankPending
  <2>3. CASE rankAll(t)
    BY <1>0, <2>3, RankedAnew DEF rankAll
  <2>4. CASE statusOfAll(t)
    <3>1. Step(t, "status") /\ ~Step(t, "rank")
      BY <2>4 DEF statusOfAll, Step
    <3>2. CASE UNCHANGED validatorList /\ Goes(t, reloadGeneratorsCache \o tasks[t].steps)
      BY <1>1, <1>2, <3>1, <3>2
    <3>3. CASE validatorList' = computeValidatorStatus(validatorList, generatorsListCache) /\ Done(t)
      <4>1. /\ DOMAIN validatorList' = DOMAIN validatorList
            /\ \A i \in DOMAIN validatorList : validatorList'[i].rank = validatorList[i].rank
        BY <1>0, <3>3, StatusKeepsRanks
      <4>2. Others(t)
        BY <1>3, <3>3
      <4> QED
        BY <3>1, <4>1, <4>2, PendingStays
    <3> QED
      BY <2>4, <3>2, <3>3, Zenon DEF statusOfAll
  <2>5. CASE getGeneratorsInfo(t)
    BY <1>1, <1>2, <1>3, <2>5 DEF getGeneratorsInfo, ListsStay, Step
  <2>6. CASE setGenerators(t)
    BY <1>1, <1>3, <2>6 DEF setGenerators, Step
  <2>7. CASE getPosValidatorsOf(t)
    BY <1>1, <1>2, <1>3, <2>7 DEF getPosValidatorsOf, ListsStay, Step
  <2>8. CASE updateValidatorList(t)
    <3>1. Step(t, "apply") /\ TaskOK(tasks[t])
      BY <1>0, <2>8 DEF updateValidatorList, TasksOK
    <3>2. tasks[t].got \in Seq(NewEntry)
      BY <3>1 DEF TaskOK, StepsOK, Step
    <3>3. ListOK(updateValidators(tasks[t].type, validatorList, tasks[t].got))
      BY <1>0, <3>2, UpdatesKeepList
    <3> QED
      BY <2>8, <3>3, RankedAnew DEF updateValidatorList
  <2>9. CASE answerQuery(t)
    <3>1. Ends(t) /\ Step(t, "answer")
      BY <2>9 DEF answerQuery
    <3>2. ~Step(t, "rank")
      BY <3>1 DEF Step
    <3>3. validatorList' = computeValidatorRank(validatorList) \/ validatorList' = validatorList
      BY <2>9 DEF answerQuery
    <3> QED
      BY <1>0, <1>1, <1>3, <3>1, <3>2, <3>3, RankedAnew
  <2> QED
    BY <1>4, <2>1, <2>2, <2>3, <2>4, <2>5, <2>6, <2>7, <2>8, <2>9 DEF TaskStep
<1>5. \A t : tasks[t].steps = << >> => ~Step(t, "rank")
  BY DEF Step
<1>6. {"job", "events", "generators", "query"} \subseteq Task
  BY DEF Task
<1>7. CASE reloadJob
  BY <1>1, <1>2, <1>5, <1>6, <1>7 DEF reloadJob, ListsStay
<1>8. tasks["query"] = Idle => ~Step("query", "rank")
  BY DEF Step, Idle
<1>9. CASE getAllValidators
  BY <1>1, <1>2, <1>6, <1>8, <1>9 DEF getAllValidators, ListsStay
<1>10. CASE initEventsProcess
  <2>1. ListsStay /\ ~Step("events", "rank")
    BY <1>5, <1>10 DEF initEventsProcess
  <2>2. ASSUME NEW type, NEW block, Dispatch(type, block) PROVE RankInv'
    <3> DEFINE reloading == IF type = "newBlock" THEN Starts("generators", reloadGeneratorsCache)
                                                 ELSE tasks
    <3>1. \A u \in Task : Step(u, "rank") => reloading[u] = tasks[u]
      BY <1>0, <1>5, <2>2 DEF Dispatch, Starts
    <3>2. DOMAIN reloading = Task
      BY <1>0 DEF Starts
    <3> HIDE DEF reloading
    <3>3. \/ tasks' = reloading
          \/ \E l \in Listener : tasks[l] = Idle /\ \E x : tasks' = [reloading EXCEPT ![l] = x]
      BY <2>2, Zenon DEF Dispatch, reloading
    <3>4. \A u \in Task : Step(u, "rank") => tasks'[u] = tasks[u]
      BY <3>1, <3>2, <3>3 DEF Step, Idle
    <3> QED
      BY <2>1, <3>4, PendingStays DEF ListsStay
  <2>3. \/ \E type, block : Dispatch(type, block)
        \/ UNCHANGED tasks
        \/ tasks' = Starts("events", newRoundProcessor)
    BY <1>10 DEF initEventsProcess
  <2> QED
    BY <1>1, <1>2, <1>6, <2>1, <2>2, <2>3, PendingStays DEF ListsStay
<1>11. ASSUME ListsStay, UNCHANGED tasks PROVE RankInv'
  BY <1>11, PendingStays DEF ListsStay
<1> QED
  BY <1>4, <1>7, <1>9, <1>10, <1>11 DEF ValidatorNext, PosNodeAdds, PosNodeRemoves, PosNodeRound

LEMMA ValidatorInvariant == IndexerSpec => [](ValidatorInv /\ RankInv)
<1>1. IndexerInit => ValidatorInv /\ RankInv
  <2> SUFFICES ASSUME ValidatorInit
               PROVE  ValidatorInv /\ RankInv
    BY DEF IndexerInit
  <2>1. PosNodeOK
    BY DEF ValidatorInit, PosNodeOK
  <2>2. TasksOK
    BY IdleIsOK DEF ValidatorInit, TasksOK
  <2>3. validatorList = << >>
    BY DEF ValidatorInit
  <2>4. validatorList \in Seq(Entry) /\ DOMAIN validatorList = {}
    BY <2>3
  <2>5. IsFiniteSet({}) /\ Cardinality({}) = 0
    BY FS_EmptySet
  <2>6. Cardinality({}) <= numberActiveValidators
    BY <2>5, ValidatorAssumption
  <2>7. FewActive(validatorList)
    BY <2>4, <2>5, <2>6 DEF FewActive
  <2>8. Distinct(validatorList) /\ Ranked(validatorList)
    BY <2>4 DEF Distinct, Ranked
  <2>9. RankInv
    BY <2>4 DEF RankInv, FullyRanked
  <2> QED
    BY <2>1, <2>2, <2>4, <2>7, <2>8, <2>9 DEF ValidatorInv, ListOK
<1>2. ValidatorInv /\ RankInv /\ [IndexerNext]_indexerVars => ValidatorInv' /\ RankInv'
  <2> SUFFICES ASSUME ValidatorInv, RankInv, [IndexerNext]_indexerVars
               PROVE  ValidatorInv' /\ RankInv'
    OBVIOUS
  <2>1. ValidatorNext \/ UNCHANGED validatorVars
    BY Zenon DEF IndexerNext, indexerVars, GapStep, ValidatorStep, ReadinessStep
  <2>2. CASE UNCHANGED validatorVars
    BY <2>2 DEF validatorVars, ValidatorInv, PosNodeOK, TasksOK, TaskOK, StepsOK, Ordered, FreshList,
                Distinct, ListOK, FewActive, Ranked, RankInv, FullyRanked, RankPending, Step
  <2> QED
    BY <2>1, <2>2, ValidatorStepKeepsInv, RanksStayComplete
<1> QED
  BY <1>1, <1>2, PTL DEF IndexerSpec

\* For any number of validators, blocks, listeners, reloads, failed requests and
\* queries that overlap, and whoever is banned meanwhile, the list of validators never
\* holds one twice, its ranks have neither gaps nor ties, and no more validators are
\* active than the protocol has (pos/validators.js).
THEOREM ValidatorListAlwaysSound == IndexerSpec => []ValidatorListSound
<1>1. ValidatorInv /\ RankInv => ValidatorListSound
  <2> SUFFICES ASSUME ValidatorInv, RankInv
               PROVE  ValidatorListSound
    OBVIOUS
  <2> DEFINE l == validatorList
             active == {i \in DOMAIN l : l[i].status = "active"}
  <2>1. ListOK(l) /\ Ranked(l)
    BY DEF ValidatorInv
  <2>2. Distinct(l)
    BY <2>1 DEF ListOK
  <2>3. RanksComplete
    <3> DEFINE given == {l[i].rank : i \in DOMAIN l}
    <3>1. IsInjective([i \in DOMAIN l |-> l[i].address])
      BY <2>2 DEF Distinct, IsInjective
    <3>2. CASE FullyRanked(l)
      <4>1. given = DOMAIN l
        BY <3>2 DEF FullyRanked
      <4> QED
        BY <3>1, <4>1 DEF RanksComplete
    <3>3. CASE RankPending
      <4>1. given = {0} \/ (DOMAIN l = {} /\ given = DOMAIN l)
        BY <3>3 DEF RankPending
      <4> QED
        BY <3>1, <3>3, <4>1 DEF RanksComplete, RankPending
    <3> QED
      BY <3>2, <3>3 DEF RankInv
  <2>4. PICK A : /\ IsFiniteSet(A) /\ Cardinality(A) <= numberActiveValidators
                 /\ \A i \in DOMAIN l : l[i].status = "active" => l[i].address \in A
    BY <2>1 DEF ListOK, FewActive
  <2> DEFINE f == [i \in active |-> l[i].address]
  <2>5. f \in Injection(active, A)
    <3>1. f \in [active -> A]
      BY <2>4
    <3>2. \A i, j \in active : f[i] = f[j] => i = j
      BY <2>2 DEF Distinct
    <3> QED
      BY <3>1, <3>2 DEF Injection, IsInjective
  <2>6. IsFiniteSet(active) /\ Cardinality(active) <= Cardinality(A)
    BY <2>4, <2>5, FS_Injection
  <2>7. Cardinality(active) \in Nat /\ Cardinality(A) \in Nat
    BY <2>4, <2>6, FS_CardinalityType
  <2>8. Cardinality(active) <= numberActiveValidators
    BY <2>4, <2>6, <2>7, ValidatorAssumption
  <2>9. ActiveWithinLimit
    BY <2>4, <2>8 DEF ActiveWithinLimit
  <2> QED
    BY <2>3, <2>9 DEF ValidatorListSound
<1> QED
  BY <1>1, ValidatorInvariant, PTL
=============================================================================
