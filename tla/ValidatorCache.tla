--------------------------- MODULE ValidatorCache ---------------------------
(***************************************************************************)
(* The indexer's lists of validators and generators                        *)
(* (blockchain-indexer/shared/dataService/pos/validators.js and            *)
(* business/generators.js): reloaded by a job, by every new round and by a *)
(* query that finds the list empty, and updated by listeners to the blocks *)
(* that the events queue processes.                                        *)
(*                                                                         *)
(* Each of these is a task: a list of steps, one for each stretch of code  *)
(* between two awaited requests.  Tasks interleave and all of them write   *)
(* to the same two lists.                                                  *)
(***************************************************************************)
EXTENDS Integers, Sequences, FiniteSets, FiniteSetsExt, SequencesExt

CONSTANTS
  Validator,           \* addresses, numbers
  GenesisValidators,   \* registered by the genesis block
  Punished,            \* in a punishment period
  StakeCap,            \* ten times the self stake
  MinWeight,           \* MIN_ELIGIBLE_VOTE_WEIGHT
  numberActiveValidators, numberStandbyValidators,
  PosBlock,            \* blocks
  PosTransactions,     \* of each block: the pos commands, with the validators they name
  Listener,            \* bound: overlapping block listeners
  MaxTasks,            \* bound: tasks under way, beside the job, when an event or a query comes
  MaxPosChanges,       \* bound: blocks added and removed
  MaxDisturbances      \* bound: new rounds, queries and failed requests, together

VARIABLES
  posChain,              \* the node's blocks
  generatorList,         \* the node's generators
  posEvents,             \* the events queue
  validatorList, generatorsListCache,
  tasks,                 \* what each task is doing
  posChanges, disturbances

validatorVars == <<posChain, generatorList, posEvents, validatorList, generatorsListCache, tasks,
                   posChanges, disturbances>>

PosCommand == [command : {"registerValidator", "stake", "reportMisbehavior"}, of : Seq(Validator)]
ASSUME ValidatorAssumption ==
  /\ IsFiniteSet(Validator) /\ Validator \subseteq Int
  /\ GenesisValidators \subseteq Validator
  /\ StakeCap \in Nat
  /\ numberActiveValidators \in Nat
  /\ \A b \in PosBlock : PosTransactions[b] \in Seq(PosCommand)

Task == {"job", "events", "generators", "query"} \cup Listener
NoHeight == -1
Unset == "undefined"
Idle == [steps |-> << >>, type |-> Unset, addresses |-> << >>, got |-> << >>]
-----------------------------------------------------------------------------
(* The node *)

PosCommands(chainOf) == UNION {ToSet(PosTransactions[b]) : b \in ToSet(chainOf)}
registered(chainOf) ==
  GenesisValidators
  \cup UNION {ToSet(c.of) : c \in {d \in PosCommands(chainOf) : d.command = "registerValidator"}}
totalStake(chainOf, v) ==
  Cardinality({b \in ToSet(chainOf) :
                 \E c \in ToSet(PosTransactions[b]) : c.command = "stake" /\ v \in ToSet(c.of)})

\* The node bans a validator for good when it was reported often enough; here,
\* once.  A fork takes that back.
isBanned(chainOf, v) ==
  \E c \in PosCommands(chainOf) : c.command = "reportMisbehavior" /\ v \in ToSet(c.of)

\* No validator counts as punished.  Where weights are computed,
\* reportMisbehaviorHeights are numbers, which have no start and end; where the
\* status is computed, the last block is a promise, which has no height.
verifyIfPunished(v, height) == height # NoHeight /\ v \in Punished

validatorWeight(chainOf, v) ==
  IF isBanned(chainOf, v) \/ verifyIfPunished(v, NoHeight)
  THEN 0
  ELSE Min({totalStake(chainOf, v), StakeCap})

PosValidator(chainOf, v) ==
  [address |-> v, weight |-> validatorWeight(chainOf, v), isBanned |-> isBanned(chainOf, v),
   rank |-> 0, status |-> Unset]

\* The node lists validators in the order in which its database keeps them.
allPosValidators(chainOf) ==
  LET kept == SetToSeq(registered(chainOf))
  IN  [i \in DOMAIN kept |-> PosValidator(chainOf, kept[i])]

validatorComparator(a, b) ==
  a.weight > b.weight \/ (a.weight = b.weight /\ a.address < b.address)

\* How many of a set come before one of them, when it is sorted.
positionIn(entries, e) == Cardinality({f \in entries : validatorComparator(f, e)})

addressesFrom(entries, first, end) ==
  {e.address : e \in {f \in entries : positionIn(entries, f) \in first..end - 1}}

nextGenerators(chainOf) ==
  addressesFrom(ToSet(allPosValidators(chainOf)), 0,
                numberActiveValidators + numberStandbyValidators)
-----------------------------------------------------------------------------
(* The lists *)

\* The sorted copy is dropped: ranks are positions in a list that nobody sorts.
computeValidatorRank(list_) == [i \in DOMAIN list_ |-> [list_[i] EXCEPT !.rank = i]]

generatorInfo(list_, generators) == {e \in ToSet(list_) : e.address \in generators}
activeGenerators(info) == addressesFrom(info, 0, numberActiveValidators)

\* Array slice, from a start that may be negative.
standByGenerators(info) ==
  LET size == Cardinality(info)
      start == size - numberStandbyValidators
  IN  addressesFrom(info, IF start < 0 THEN Max({0, size + start}) ELSE start, size)

statusOf(e, info) ==
  IF e.isBanned THEN "banned"
  ELSE IF verifyIfPunished(e.address, NoHeight) THEN "punished"
  ELSE IF e.address \in activeGenerators(info) THEN "active"
  ELSE IF e.address \in standByGenerators(info) \/ e.weight >= MinWeight THEN "standby"
  ELSE "ineligible"

computeValidatorStatus(list_, generators) ==
  LET info == generatorInfo(list_, generators)
  IN  [i \in DOMAIN list_ |-> [list_[i] EXCEPT !.status = statusOf(list_[i], info)]]

positionOf(list_, v) == {i \in DOMAIN list_ : list_[i].address = v}

\* Mutant: the list is not searched for the validator.
updateValidatorAppended(type, list_, validator) ==
  IF type = "deleteBlock" THEN list_ ELSE Append(list_, validator)

\* What the listener does with one validator that the node returned.
updateValidator(type, list_, validator) ==
  LET found == positionOf(list_, validator.address)
  IN  IF found = {}
      THEN Append(list_, validator)
      ELSE LET i == Min(found)
           IN  IF type = "deleteBlock"
               THEN RemoveAt(list_, i)
               ELSE [list_ EXCEPT ![i] = [validator EXCEPT !.status = list_[i].status]]

updateValidators(type, list_, validators) ==
  LET after[i \in 0..Len(validators)] ==
        IF i = 0 THEN list_ ELSE updateValidator(type, after[i - 1], validators[i])
  IN  after[Len(validators)]
-----------------------------------------------------------------------------
(* The tasks *)

reloadGeneratorsCache == <<"askGenerators", "setGenerators">>
reloadValidatorCache == <<"askAll", "assign", "rank", "status">>
newRoundProcessor == reloadValidatorCache \o reloadGeneratorsCache
updateValidatorCacheListener == <<"askSome", "apply">>

Step(t, step) == tasks[t].steps # << >> /\ Head(tasks[t].steps) = step
Goes(t, steps) == tasks' = [tasks EXCEPT ![t].steps = steps]
Done(t) == tasks' = [tasks EXCEPT ![t].steps = Tail(@), ![t].got = << >>]
Got(t, answer) == tasks' = [tasks EXCEPT ![t].steps = Tail(@), ![t].got = answer]
Starts(t, steps) == [tasks EXCEPT ![t] = [Idle EXCEPT !.steps = steps]]
Ends(t) == tasks' = [tasks EXCEPT ![t] = Idle]
NodeStays == UNCHANGED <<posChain, generatorList, posEvents, posChanges>>
ListsStay == UNCHANGED <<validatorList, generatorsListCache>>
Disturbed == disturbances < MaxDisturbances /\ disturbances' = disturbances + 1
Underway == {t \in Task \ {"job"} : tasks[t].steps # << >>}

\* loadAllPosValidators: the answer replaces the list; a failure is logged and
\* the old list stays.
getAllPosValidators(t) ==
  /\ Step(t, "askAll")
  /\ \/ Got(t, allPosValidators(posChain)) /\ UNCHANGED disturbances
     \/ Disturbed /\ Goes(t, Tail(Tail(tasks[t].steps)))
  /\ NodeStays /\ ListsStay

\* Mutant: only an empty list is replaced.
loadIfEmpty(t) ==
  /\ Step(t, "assign")
  /\ validatorList' = IF validatorList = << >> THEN tasks[t].got ELSE validatorList
  /\ Done(t)
  /\ NodeStays
  /\ UNCHANGED <<generatorsListCache, disturbances>>

loadAllPosValidators(t) ==
  /\ Step(t, "assign")
  /\ validatorList' = tasks[t].got
  /\ Done(t)
  /\ NodeStays
  /\ UNCHANGED <<generatorsListCache, disturbances>>

rankAll(t) ==
  /\ Step(t, "rank")
  /\ validatorList' = computeValidatorRank(validatorList)
  /\ Done(t)
  /\ NodeStays
  /\ UNCHANGED <<generatorsListCache, disturbances>>

\* With no generators cached they are fetched first; a node that has none is
\* not asked again.
statusOfAll(t) ==
  /\ Step(t, "status")
  /\ IF generatorsListCache = {} /\ generatorList # {}
     THEN Goes(t, reloadGeneratorsCache \o tasks[t].steps) /\ UNCHANGED validatorList
     ELSE /\ validatorList' = computeValidatorStatus(validatorList, generatorsListCache)
          /\ Done(t)
  /\ NodeStays
  /\ UNCHANGED <<generatorsListCache, disturbances>>

\* A failure ends a reload, and the events queue tries the round again.
getGeneratorsInfo(t) ==
  /\ Step(t, "askGenerators")
  /\ \/ Got(t, generatorList) /\ UNCHANGED disturbances
     \/ Disturbed /\ (IF t = "events" THEN Goes(t, newRoundProcessor) ELSE Ends(t))
  /\ NodeStays /\ ListsStay

setGenerators(t) ==
  /\ Step(t, "setGenerators")
  /\ generatorsListCache' = tasks[t].got
  /\ Done(t)
  /\ NodeStays
  /\ UNCHANGED <<validatorList, disturbances>>

\* A validator that the node does not have fails the whole request.
getPosValidatorsOf(t) ==
  /\ Step(t, "askSome")
  /\ LET wanted == tasks[t].addresses
     IN  \/ /\ ToSet(wanted) \subseteq registered(posChain)
            /\ Got(t, [i \in DOMAIN wanted |-> PosValidator(posChain, wanted[i])])
            /\ UNCHANGED disturbances
         \/ ~(ToSet(wanted) \subseteq registered(posChain)) /\ Ends(t) /\ UNCHANGED disturbances
         \/ Disturbed /\ Ends(t)
  /\ NodeStays /\ ListsStay

updateValidatorList(t) ==
  /\ Step(t, "apply")
  /\ validatorList' =
       computeValidatorRank(updateValidators(tasks[t].type, validatorList, tasks[t].got))
  /\ Ends(t)
  /\ NodeStays
  /\ UNCHANGED <<generatorsListCache, disturbances>>

\* A query for some of the validators.  When none of those it finds has a rank,
\* it ranks the list.
getAllValidators ==
  /\ tasks["query"] = Idle
  /\ Cardinality(Underway) < MaxTasks
  /\ Disturbed
  /\ tasks' = Starts("query", (IF validatorList = << >> THEN reloadValidatorCache ELSE << >>)
                              \o <<"answer">>)
  /\ ListsStay
  /\ UNCHANGED <<posChain, generatorList, posEvents, posChanges>>

answerQuery(t) ==
  /\ Step(t, "answer")
  /\ \E wanted \in SUBSET Validator :
       validatorList' =
         IF \A i \in DOMAIN validatorList :
              validatorList[i].address \in wanted => validatorList[i].rank = 0
         THEN computeValidatorRank(validatorList)
         ELSE validatorList
  /\ Ends(t)
  /\ NodeStays
  /\ UNCHANGED <<generatorsListCache, disturbances>>
-----------------------------------------------------------------------------
(* The job, and the events queue *)

reloadJob ==
  /\ tasks["job"].steps = << >>
  /\ tasks' = Starts("job", reloadValidatorCache)
  /\ NodeStays /\ ListsStay
  /\ UNCHANGED disturbances

\* Validators that register in a block, or are staked on; nobody where the signal's
\* payload holds no block or no transactions.
updatedValidatorAddresses(block) ==
  LET txs == PosTransactions[block]
  IN  FlattenSeq([i \in DOMAIN txs |->
                    IF txs[i].command \in {"registerValidator", "stake"} THEN txs[i].of ELSE << >>])

\* The listeners of newBlock and deleteBlock; what they hear of is the block
\* that the node returned to the processor.
Dispatch(type, block) ==
  LET starting == updatedValidatorAddresses(block)
      reloading == IF type = "newBlock" THEN Starts("generators", reloadGeneratorsCache)
                                        ELSE tasks
  IN  /\ type = "newBlock" => tasks["generators"].steps = << >>
      /\ IF starting = << >>
         THEN tasks' = reloading
         ELSE \E l \in Listener :
                /\ tasks[l] = Idle
                /\ tasks' = [reloading EXCEPT ![l] = [steps |-> updateValidatorCacheListener,
                                                      type |-> type,
                                                      addresses |-> starting,
                                                      got |-> << >>]]

initEventsProcess ==
  /\ tasks["events"].steps = << >>
  /\ Cardinality(Underway) < MaxTasks
  /\ posEvents # << >>
  /\ LET e == Head(posEvents)
     IN  \/ /\ e.type = "newBlock"
            /\ IF Len(posChain) >= e.height
               THEN Dispatch("newBlock", posChain[e.height])
               ELSE UNCHANGED tasks
         \/ /\ e.type = "deleteBlock"
            /\ IF e.block \in ToSet(posChain)
               THEN Dispatch("deleteBlock", e.block)
               ELSE UNCHANGED tasks
         \/ /\ e.type = "newRound"
            /\ tasks' = Starts("events", newRoundProcessor)
  /\ posEvents' = Tail(posEvents)
  /\ ListsStay
  /\ UNCHANGED <<posChain, generatorList, posChanges, disturbances>>

PosNodeAdds(b) ==
  /\ posChanges < MaxPosChanges
  /\ b \notin ToSet(posChain)
  /\ \A c \in ToSet(PosTransactions[b]) :
       IF c.command = "registerValidator" THEN ToSet(c.of) \cap registered(posChain) = {}
                                          ELSE ToSet(c.of) \subseteq registered(posChain)
  /\ posChain' = Append(posChain, b)
  /\ posEvents' = Append(posEvents, [type |-> "newBlock", block |-> b, height |-> Len(posChain')])
  /\ posChanges' = posChanges + 1
  /\ ListsStay
  /\ UNCHANGED <<generatorList, tasks, disturbances>>

PosNodeRemoves ==
  /\ posChanges < MaxPosChanges
  /\ posChain # << >>
  /\ posEvents' = Append(posEvents, [type |-> "deleteBlock", block |-> Last(posChain),
                                     height |-> Len(posChain)])
  /\ posChain' = Front(posChain)
  /\ posChanges' = posChanges + 1
  /\ ListsStay
  /\ UNCHANGED <<generatorList, tasks, disturbances>>

PosNodeRound ==
  /\ Disturbed
  /\ generatorList' = nextGenerators(posChain)
  /\ posEvents' = Append(posEvents, [type |-> "newRound", block |-> Unset, height |-> NoHeight])
  /\ ListsStay
  /\ UNCHANGED <<posChain, tasks, posChanges>>

ValidatorInit ==
  /\ posChain = << >>
  /\ generatorList = nextGenerators(<< >>)
  /\ posEvents = << >>
  /\ validatorList = << >>
  /\ generatorsListCache = {}
  /\ tasks = [t \in Task |-> Idle]
  /\ posChanges = 0 /\ disturbances = 0

TaskStep(t) ==
  \/ getAllPosValidators(t) \/ loadAllPosValidators(t) \/ rankAll(t) \/ statusOfAll(t)
  \/ getGeneratorsInfo(t) \/ setGenerators(t)
  \/ getPosValidatorsOf(t) \/ updateValidatorList(t) \/ answerQuery(t)

ValidatorNext ==
  \/ \E t \in Task : TaskStep(t)
  \/ reloadJob \/ getAllValidators \/ initEventsProcess
  \/ \E b \in PosBlock : PosNodeAdds(b)
  \/ PosNodeRemoves \/ PosNodeRound
-----------------------------------------------------------------------------
(* Properties *)

\* However reloads, listeners and queries overlap, nobody is listed twice, and the
\* ranks are those from 1 to the number of validators, each once.  Only a list that
\* was just loaded has none, and the task that loaded it is about to give them
\* (pos/validators.js, updateValidatorCacheListener and computeValidatorRank).  Who
\* has which rank is not claimed: the code drops what it sorted by weight.
RanksComplete ==
  LET given == {validatorList[i].rank : i \in DOMAIN validatorList}
  IN  /\ IsInjective([i \in DOMAIN validatorList |-> validatorList[i].address])
      /\ \/ given = DOMAIN validatorList
         \/ given = {0} /\ \E t \in Task : Step(t, "rank")

\* There are never more active validators than the protocol has, though listeners
\* keep the status of an earlier computation in a list that changes
\* (computeValidatorStatus).  One that was banned since may be among them, until
\* the next reload.
ActiveWithinLimit ==
  Cardinality({i \in DOMAIN validatorList : validatorList[i].status = "active"})
    <= numberActiveValidators

Plain(list_) == {<<e.address, e.weight, e.isBanned>> : e \in ToSet(list_)}
ListCurrent == Plain(validatorList) = Plain(allPosValidators(posChain))
StatusCurrent == validatorList = computeValidatorStatus(validatorList, generatorsListCache)

\* What a listener or a lost update did to the list does not last: once the
\* chain rests the list is the node's, and stays so, and its statuses are again
\* and again those that follow from the generators (reloadValidatorCache, its
\* job and the listeners).
ListRecovers == <>[]ListCurrent /\ []<>StatusCurrent

\* The list of validators is ranked without gaps or ties, with no more active ones
\* than the protocol allows, at any time.
ValidatorListSound == RanksComplete /\ ActiveWithinLimit
=============================================================================
