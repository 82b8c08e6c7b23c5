# TLA+ models of Muzikie Streamer

Muzikie Streamer (a Lisk Service derivative) is a set of Node.js microservices
that follow a blockchain node, index its blocks in MySQL and serve the result.
This directory holds TLA+ models of the services, TLC configurations that check
them on small instances, and TLAPS proofs of the invariants that matter most.

    tlc -config BlockIndexerFork.cfg MCBlockIndexer
    tlapm BlockIndexerProofs.tla

## 1. The system

| Part | State | Operations | Talks to |
| --- | --- | --- | --- |
| Connector | API client, `isInstantiating`, intervals, cached node answers, peer lists, genesis file | `getApiClient`, `invokeEndpoint`, endpoints, chain events, `reload`, `getGenesisBlock` | node (WS/IPC); emits `chainNewBlock`, `chainDeleteBlock`, ... |
| Coordinator | none of its own; reads the verified height from the indexer | start-up scan, event forwarding, gap check every 15 min | indexer (RPC); adds jobs to the queues Blocks, Accounts, Events |
| Indexer, indexing mode | MySQL tables, Redis queues, events LRU cache, finalized height | Events jobs (newBlock, deleteBlock, newRound); `indexBlock`, `updateBlockIndex`, `deleteIndexedBlocks`; `getMissingBlocks`; command processors; readiness | connector (RPC), MySQL, Redis |
| Indexer, data service | last block key, validator and generator lists, pending transactions | queries, reloads, listeners | the same tables, connector |
| Fee Estimator | one estimate per mode in Redis | a run per mode for each new block; `getEstimateFeePerByte` | connector, Redis |
| Transaction Statistics | a table of statistics per day | a job per day | indexer, MySQL |
| Market | raw and derived prices in Redis | refresh per source, derive, read | price APIs, Redis |
| Export | CSV files, two caches of days | export jobs, purging | indexer, connector |
| App Registry | a clone of a repository, tables of metadata | synchronise, index, query | GitHub, MySQL |
| Gateway | RPC cache, readiness of services | routes, validation, mapping, batches | all services (RPC) |
| Framework | queue pool, database pools, caches | wrappers of bull, knex, Redis, Moleculer | |

A block travels: node -> connector (event) -> coordinator (adds an Events job)
-> indexer (fetches the block, adds an index job to the default queue) ->
`indexBlock` (one database transaction).  A request travels: client -> gateway
(validation, renaming, cache) -> data service -> tables and node -> back.  What
makes it hard:

* *forks*: blocks are dropped and replaced while jobs and queries about them wait;
* *re-reading*: handlers fetch by height what they were told by block, and
  write later what they read earlier;
* *concurrency*: `framework/src/queue.js` puts every job kind in one bull
  queue with one loop per registration, so "concurrency 1" does not serialise;
* *retries, timeouts and restarts*: bull runs a job again after a failure, after
  a timeout (the first execution continues) and when it finds it stalled;
* *shared module variables*: lists and caches that overlapping calls replace
  between two awaits;
* *events that are missed* while the coordinator starts or a refresh fails;
* *promises that never settle* or are not awaited.

For each part, what makes it correct: rows are blocks of the chain, complete and
final only when the node says so (indexer); gaps are found and filled
(coordinator); there is one live, subscribed client and every request gets it,
and what is cached is fresh and sound (connector); the estimate is that of an
undisturbed computation (fee estimator); tables and totals equal what the indexed
blocks contain (processors); answers are those asked for (data service,
gateway); each day's rows are the statistics of that day (statistics);
statements are complete (export); dead prices disappear (market); the tables
mirror the clone and the clone the repository (registry).

`PROJECT.json` lists the parts, the hazards with their source lines, and for every
definition the lines it models.

## 2. Modules

| Module | Models |
| --- | --- |
| `BlockIndexer` | block indexing in the indexer, with the node and bull around it |
| `BlockArchive` | what the index promises its readers; `BlockIndexer` implements it |
| `MCBlockIndexer` | instances: a forking chain and a line |
| `BlockIndexerProofs` | the inductive invariant and its theorems, the count of generated blocks, the refinement |
| `MissingBlocks`, `MCMissingBlocks` | the search for gaps, with reference definitions; over every index and range |
| `OperatorProofs` | lemmas on sequences, ordered and finite sets that several proofs use; the gap search proved |
| `IndexCoordinator`, `IndexCoordinatorProofs` | the coordinator, composed with `MissingBlocks` and an abstract index; its types and the verified height |
| `MySQLTables` | the statements of `framework/src/mysql.js` and the indexer's tables |
| `AudioProcessors`, `CatalogProcessors`, `ChainProcessors` | `applyTransaction` of every command |
| `TransactionProcessors`, `MCTransactionProcessors` | the transactions of blocks that are indexed at the same time; instances |
| `ValidatorCache` | lists of validators and generators, reloads, listeners, new rounds |
| `Readiness` | readiness of the index, status calls, the gateway's polling |
| `MCIndexer`, `IndexerProofs` | `MCMissingBlocks`, `ValidatorCache`, `Readiness`; the gap search, the validator list and readiness proved |
| `ApiClient`, `ApiClientProofs` | the connector's client, `waitForIt`, the subscription; attempts are kept apart |
| `NodeEndpoints` | every endpoint with its cache, `invokeEndpoint`, chain events, blocks, peers |
| `GenesisFile` | download, verification and parsing of the genesis block |
| `FeeEstimator` | the fee estimator's runs |
| `MCConnector`, `ConnectorProofs` | `ApiClient`, `NodeEndpoints`, `GenesisFile`, `FeeEstimator`; their safety properties proved |
| `ServiceTables`, `GatewayTables` | the services' actions and controllers; the gateway's routes and sources |
| `Gateway` | requests and batches: validation, renaming, cache, call, answer |
| `Queries` | the data service's and the registry's queries, step by step |
| `MCPlatform`, `PlatformProofs` | `Gateway`, `Queries`; the RPC answers and those of the data service proved |
| `Market`, `Statistics`, `Export`, `AppRegistry` | the services of these names |
| `MCServices`, `ServicesProofs` | those four; prices, statistics, cached days and the clone proved |

`MCIndexer`, `MCConnector`, `MCPlatform` and `MCServices` put together parts that
share no state: the variable `focus` names the part a behaviour is about, and the
others stay at their start.  Parts that do interact are composed inside one
module (the coordinator and the gap search; node, queues and tables; listeners,
reloads and rounds; the indexer's readiness and the gateway).

In each module the comment at a definition says which function it is; an
operator whose comment starts with "Mutant" is a deliberately wrong variant
used to show that a property is able to fail, and is not part of the model.
Definitions carry the names of the functions they model where these are names in
TLA+.

### BlockIndexer and BlockArchive

State: the node's chain, the blocks it ever had and its finalized height; the
Events queue and the job in progress (`evt`); the default queue, its worker loops
and its failed set; the cached finalized height and the events cache; the
tables.  `rowBlock`/`rowFinal` are the table `blocks`, keyed by height; `txRows`
is `transactions`; `generatedBlocks` a column of `validators`; `totalLocked` an
entry of `key_value_store`.

Actions end at the awaits at which another actor can interfere:
`FetchNewBlock`, `LookupBlock`, `UpdateFinality`, `RemoveFork` are
`newBlockProcessor` and `indexNewBlock`; `StartIndexBlock`, `ReadTotalLocked`,
`CommitIndexBlock` are `indexBlock`, whose transaction becomes visible at its
commit; `DeleteIndexedBlocks` is what the code does today, a job that throws at
`block.header.id` unless it carries no blocks.  Failures: `FailEvent`,
`RollbackIndexBlock`, `TimeoutIndexBlock` (the zombie keeps running with
`expired` set), `FailUpdate`, `FailDeleteBlock` (the removal cannot be scheduled: the
handler normalises the block for its signal, which reads events into the cache, or is
attempted again), `Crash`.

Abstractions.  A block is a model value, its contents constant functions; the
events of a block are identified with the block; `locked[b] = 0` stands for a block
without LOCK or UNLOCK events.  Genesis has a height above 0 (height 0 is
falsy in `getBlocks`).  Each block joins the chain at most once.  The limit of
1000 rows in `find` is left out.  `config.isPersistEvents` is not defined anywhere,
so events never come from the database.  The last-block key is in `Queries`, the
new round in `ValidatorCache`.  The node's refusal of a re-scheduled height is left
out.

`BlockArchive` has three steps: the chain grows or becomes final (`Learn`), a known
block is recorded at its height (`Record`), heights at which the chain is final are
marked, with blocks it has had (`Confirm`). `BlockIndexer!IsArchive` is its
specification with the tables substituted.

### MissingBlocks and IndexCoordinator

`GetMissingBlocks` is the query and `range`; `InteriorMissing` is the reference: the
missing heights that have a row above them below the top of the range.  In
`IndexCoordinator` the index is a set of heights and a job is a height; the steps
of `initIndexingScheduler` and `scheduleMissingBlocksIndexing` end at their
requests.  Blocks that arrive before `initEventsScheduler` are not forwarded.

### TransactionProcessors

`indexBlock` starts every transaction of a block at once; a processor reads
committed rows and then awaits its statements one by one in the transaction of the
block.  A processor is an operator that returns the possible sequences of
statements, none when it throws; the module interleaves them over one or two
blocks with locks, deadlocks, failures and restarts.  What the node makes of a
transaction (the ledger) is external.  `separate` becomes false once transactions
that interfere are in progress (same audio, same validator, same members, ...):
the tables are shown to mirror the ledger up to then, and the model holds the
reasons the condition is needed: rows read outside the transaction,
`events.find` taking the block's first result of its kind, members keyed by
address and nonce, self transfers that inflate shares, totals written as absolute
values, genesis stakes written again at every start.

`StakesAddUp` needs no such condition: a stake that is added to an existing row is
counted once also where transactions of a block, or two blocks, overlap and one of
them is rolled back and tried again.  It holds until a restart writes the genesis
stakes over the rows.

The `revertTransaction` hooks are not modelled: `deleteIndexedBlocks` never
receives transactions, so none of them runs.

### ValidatorCache and Readiness

A task (job, listener, query, new round) is a list of steps, one for each stretch of
code between two awaited requests; tasks interleave on the two lists.  As in the
code, `computeValidatorRank` sorts a copy that is dropped, so that a rank is not one
by weight, although `validatorComparator` and the comment at `pos/validators.js:311`
mean it to be (what is checked is that every rank is given once); bans are on the
chain and are read with the validators, and a listener leaves the status of a
validator that was banned meanwhile as it was; the status is undefined between a
reload and its computation; `deleteBlock` removes a validator even if its block only
staked (a list is a sequence of validators, and sorting gives each its position among
the others); a validator whose registration was reverted stays until the next reload,
and nobody is ever "punished" (the last block is not awaited and the heights compared
are numbers).  In `Readiness` a check reads the height and later counts the rows,
whatever block they are of: after a fork a row of a dropped block makes up for one
that is missing, and `ReadyIsBacked` allows one missing block more for each.  Two
checks may both dispatch; `isReady` is never reset, and the gateway's view is stale
until its next poll.

### ApiClient, NodeEndpoints, GenesisFile

A caller is a pending `getApiClient()`.  `waitForIt` makes a first call at once and
then polls; only the first call clears the interval (a poll passes `this`, which
is no timer).  The listener of `newApiClient` runs inside `ConnectionMade`,
because it runs synchronously up to the test of `isInstantiating`.  A caller that
starts over enters its next round; its first call there is a step of its own.  If
that call finds an instantiation in progress, the caller is turned away for good:
`ServedUnlessTurnedAway` says that this is the only way not to be served.
Bound: a wait has one first attempt and one polled attempt in progress at most.

`NodeEndpoints` has a record for every endpoint: the variable it caches in, whether
it refreshes, checks the answer for an error, awaits (three of the token module do
not, so their time-outs are not translated) and changes the node.  `invokeEndpoint`
is a loop of requests: each is answered, fails or times out, and the node may have
acted on it or not; only an instance of `TimeoutException` is retried, an error whose
message merely says so is not, and after `NUM_REQUEST_RETRIES` it is thrown
(`RetryCall`, `AnswerCall`).  What the node says is known by its epoch.
`getNodeInfo`, called as a method, takes its parameters for `isForceUpdate` and
always refreshes.  Ranges of blocks that start above the genesis block fail in
`formatBlock`.  Methods may be called before the start has set schemas and metadata.
A chain event whose refresh fails is lost.

In `GenesisFile` all loaders share the directory, one stream and one parser, which
can be used once; overlapping loaders, a stop during the download or a call before
the metadata is set leave later ones without an answer, which the liveness
property excludes.  What is hosted is either the file itself or an archive of it.  An
archive is checked before anything is unpacked, so that no order of loaders and no
restart makes a damaged block be served; a file that is downloaded as it is
stands under its final name before it is checked, so that a loader that comes
meanwhile, or the next process, may read it (`GenesisVerified` says exactly when;
`overlapped` records that two calls were under way at once).

### FeeEstimator

A run is named by its mode and the block that started it.  The moving average is
abstracted to the streak of congested blocks folded into it, since a block
without congestion resets it to zero: two runs that fold the same blocks agree, a
block folded twice or left out shows.  The chain does not shrink here.  The read
side, `getEstimateFeePerByte`, changes nothing and is not modelled.

### Gateway and Queries

The tables are the routes as they are written: for every method the parameters,
defaults, pairings and the source with its renamings; for every service action what
Moleculer validates, what the function reads and which exceptions its controller
turns into a status.  A value is valid, invalid, inverted (a range that ends
before it starts) or empty.  RPC answers are cached whatever the method does, if
they are non-empty successes.  Three methods do more than read: `postTransactions`,
whose answers carry no data and are not cached; `invoke`, which reaches every endpoint
of the node; and the request for an export.  Of the last two an equal request within
the expiry is answered from the cache and not executed, which `EffectsExecuted` allows
and nothing else.  Where a posted transaction is refused by the node, the service
returns a status (`BAD_REQUEST`, `INTERNAL_SERVER_ERROR`) that over RPC becomes an empty
success, as the code has it.

In `Queries` rows have a key (a height, a position) and a version (the block of a
fork); a request is a list of steps, each reading the index or the node, with
indexing, forks and pending transactions in between.  `query.quiet` says that
nothing changed meanwhile.  An audio, transaction or event
has an owner and a counterpart; a `party` is either of them, the `address` of
transactions or a topic of events.  What the code does differently from what one might
expect is in the model and excluded, by name, in the properties:

* the total of audios is the length of the page, that of unfiltered blocks comes from
  the last block returned;
* audios of an owner are found by the owner and the limit alone, subscriptions of a
  member by the member alone (`findOwned`, `findMember`), and are then read by their IDs;
* a transaction that is asked for by its ID is returned whether or not it fits the
  rest of the request;
* of the pending transactions of an address only those with itself as sender and
  recipient are found; they come in the pool's order, since they have neither height
  nor timestamp, and later pages of pending and other transactions are short;
* events of a sender and a transaction are those of the sender (`params`); those of a
  block are looked up by its height, and fail for an unknown block or for a block with a
  height besides (`findBlock`); the topic, documented in `docs/api/version3.md:653`, is
  never forwarded;
* the list of applications is empty when there are as many default ones as asked for,
  and a chain that supports all tokens lists none (`business/token.js:89` tests a
  name that is never set).

### Market, Statistics, Export, AppRegistry

A price is known by its parts, each with the source it is from and its age: one
part if it is direct, two if it is derived.  Sources keep what they fetched for
different times; the published prices have no expiry of their own.  Statistics are
built page by page while transactions arrive: a row has a place in the indexer's
listing, which has no fixed order, so a new row shifts those behind it.  A total of
0 counts as unknown, and the default amount is asked for.  Time is counted in half
days, so that midnight falls between any two steps.  A row is kept by day, command and
range, and with the token of the last transaction that was read; a transaction without
a token has the token `UNAVAILABLE`.  The timeline and the distribution by amount show
such rows under every token, so that they are exact where no row mixes tokens, and the
property asks no more.

An export job goes through its days, each from a cache or from the indexer, and
whether a day is over is asked after it was fetched.  A transfer to oneself is to be
listed twice, as a debit and a credit, but `forEach` visits only as many elements as
there were before the first `splice`: every credit inserted pushes the rest behind
it, and the last ones are not visited.  `transactionsToCSV` loses the same credits,
`StatementsBalance` says which, and that the fee of a transfer to oneself is not
listed.

The registry downloads files from the head of
the branch, commits the tables before it moves the files, and loses a database
connection at every synchronisation that finds nothing new.  Of a
renamed file GitHub lists the new name only, with a status of its own: it is downloaded
and indexed like one that was added, and nothing removes the old one, which stays in the
clone and in the tables (`LeftBehind`).  A file that changes
between the comparison of two commits and its download is cloned in its later version;
if the repository then goes back to the version that was compared, no later comparison
shows the file, and it stays as it is.  `RegistryConsistent` and `RegistryCatchesUp`
allow this (`ClonedOrUndone`): it takes three commits after the first, one more than
the run has, so that this case is covered by the theorem only.  `RegistryCatchesUp`
supposes that the service has a connection left once nothing is pushed any more.

## 3. Runs

No configuration checks for deadlock: the bounds on blocks, faults and restarts
are used up in every behaviour, and a system in which nothing more happens has
stopped legitimately.

| Run | Bounds | Shows |
| --- | --- | --- |
| `BlockIndexerFork` | blocks g0, a1, b1, b2 (b1 replaces a1); 2 workers; 2 attempts; 1 fault | `IndexInv`: types, rows are blocks the node had, none is final too early, indexing is all or nothing, and what every carrier holds; no indexed block is left out of `generatedBlocks`; `IsArchive`, the refinement |
| `BlockIndexerLive` | blocks g0, a1, a2; 1 restart, 1 height re-scheduled; fairness | the queues drain; every block gets its row |
| `IndexCoordinator` | 5 heights, 2 drops, 1 lost job or restart; fairness | the verified height backs off by at most 1; interior gaps are repaired; verification catches up |
| `TransactionProcessors` | 2 blocks on top of a ledger with one of everything, 2 or 3 transactions in all from one palette per group of tables, 2 workers, 1 restart | tables mirror the ledger and totals the stakes; stakes add up also where blocks overlap; blocks that do not interfere are indexed |
| `MCIndexer` | gaps: height 7; validators: 3 of them, 2 changes of the chain, 1 task beside the job, 2 disturbances; readiness: 2 branches of 2 heights, 2 checks, 1 fault | interior gaps are found; the validator list is a ranking within its limits and recovers; ready is backed by the index and comes about |
| `MCConnector` | client: 2 callers, 2 failures, 1 loss; 1 call per behaviour next to events, 2 retries, 2 epochs, 1 failure; 2 peers, 2 reloads; 2 loaders, 1 restart, 2 bad downloads; fees: both modes, 2 blocks above genesis, batch 3, 1 fault | overlapping attempts only after the time limit or a loss, callers that are not turned away are served, lost connections are made again; refreshed answers are fresh, events follow their refresh; checked caches hold no errors, peer lists belong together and the genesis block is verified; requests are repeated only after a time-out, and acted on once each; estimates are exact; loaders are answered (`BlocksServed`, with the blocks as asked); every block is estimated |
| `MCPlatform` | every route by both channels with every parameter once valid, invalid and empty; 2 batches of up to 3 RPC requests; 1 query of each kind, 3 keys, 2 versions, 2 changes | parameters arrive and only validated ones do, rejections show; RPC answers are recent, requests with an effect are executed or repeat one that just was; quiet answers are exact; nothing foreign is returned; every batch is answered |
| `MCServices` | 2 sources kept 2 and 3 minutes, 2 updaters, 1 outage; 2 days, 2 transactions, 1 dropped, 1 failure; 3 days, 1 worker, 2 requests, 2 attempts; 2 application directories, 2 commits after the first (changes and moves), 2 connections, 1 mishap | prices expire and return; days that were over are counted and shown right, by token too; no group more often than its day has transactions, today eventually right; exports are complete and end; the registry is consistent and catches up |

The invariants of the larger runs are conjunctions of parts that are named and
commented where they are defined (`RoutesFaithful` is `AcceptedParamsArrive`,
`OnlyValidatedArrives` and `RejectionsShow`, and so on).

Why the bounds suffice.  A fork of one block with a block on top reaches every
branch of `indexNewBlock` (no row, a non-final row of the same or of another block,
a final row) and, with two workers, every pair of jobs at once; two attempts
tell a retry from an exhausted job; a cache of two entries with three heights
evicts.  `findMissingBlocksInRange` tells apart fewer than three rows, all rows,
and the rest, and looks one height to each side: seven heights hold two
separate gaps inside a range that does not start at the first height.  Five
heights hold three rows, a gap and a tip, and two drops take the chain two blocks
below the verified height, where `range` throws.  Of two callers, one connects
and the other is turned away or arrives later; two failures and one loss make
each recovery happen.  Two blocks above genesis give two overlapping runs in each
mode, the first of which may fail and leave an intermediate estimate.  The
processors read and write rows of two audios, accounts and validators, so two
transactions are enough to touch the same row or different ones, in one block or in
two.  A listener, the job and a new round are three tasks on one list of three
validators, of which one is active, one standby and one neither.  A query reads
the index and the node at most three times, so that two changes fit between the
reads; three keys give a page before and after the one asked for.  Two days have
one midnight, and an export of days that ended, one that ends meanwhile and one
that reaches into the future differ at most by it.  Two commits over two
directories hold every status of a file (added, modified, removed, renamed) and a change
after it.  One token and transactions without any make rows that mix tokens.  Two
retries are the least with a request that is neither the first nor the last.
Worker symmetry is used in `BlockIndexerFork` only, where no liveness is checked.

### Disagreements between the code and what is written about it

| Run | What the repository says | What the code does |
| --- | --- | --- |
| `BlockIndexerFinality` | blockchainIndex.js:369 "Update block finality status" | whole rows read earlier are upserted by height; a block re-indexed meanwhile is replaced by the dropped one, marked final |
| `IndexCoordinatorComplete` | README.md:30 "ensuring the completeness of the index" | a gap at the top is not reported and the range is recorded as verified |
| `ApiClientReattempt` | client.js:67 "Waited too long, reset the flag to re-attempt client instantiation" | `waitForIt` cleared the caller's interval before its first call, which only resets the flag: nothing re-attempts for this caller, and its promise never settles |
| `RegistryUpToDate` | jobs/metadata.js:23 "Keep the blockchain applications metadata up-to-date" | a synchronisation without new commits keeps its database transaction; the pool runs dry |

Met while modelling, and part of the models, without a run of their own:
blockchainIndex.js:286 throws before the cached events of a deleted block are
invalidated (line 322); the listener that should subscribe again (allEvents.js:36) is
turned away because the flag is still set; `invoke` and exports that are repeated
over RPC are answered from the cache; ranks of validators are not by weight; credits
are missing in statements with several transfers to oneself; the old name of a
renamed file of an application stays; the flag that should keep runs of the fee
estimator apart (dynamicFees.js:106) lives in a frozen object.

### Fairness

Weak fairness only, and only for what the runtime guarantees.  `BlockIndexer`:
bull hands a waiting job to an idle processor and awaited promises settle.
`IndexCoordinator`: the cron job fires again, its requests are answered, jobs run.
`ApiClientReattempt`: the event loop runs due callbacks, time passes, a connection attempt
succeeds or fails.  `TransactionProcessors`: statements end, failed jobs are tried
again.  In the composed runs each liveness property states its fairness itself
(`FeeFairness => ...`): the client's callbacks run, time passes and attempts end
(`CallersFairness`), requests settle (fees, genesis file, gateway), jobs run
again (market, statistics, registry, validators, export attempts), time passes,
the gateway polls, blocks keep coming and get indexed (readiness).  The node's
forks, failures, restarts, lost connections and new requests are under no
obligation.

`ChainIsIndexed` is checked where no block replaces another: after a fork the
code really may leave a dropped block in a row (`BlockIndexerFinality`).
`InteriorGapIsRepaired` speaks of the time after the last drop, and `FeesFollow` of
behaviours in which no request fails.

`GeneratedBlocksCoverRows` is a lower bound only: a block that is indexed again is
counted again, so `generatedBlocks` may exceed the number of blocks the validator
generated.

## 4. Proofs

The theorems hold for every value of the constants that satisfies the named
assumptions, all of which TLC evaluates on the instances: `BlockAssumption` (heights
are positive and follow the parent, contents are typed), `HeightAssumption`,
`MaxHeightAssumption`, `FeeAssumption` (heights, and batches of at least one block),
`ReadinessAssumption` (the gateway depends on the indexer and polls it; the status of
the index is not one of the endpoints; there is a branch), `NodeAssumption` (finitely
many peers), `GatewayAssumption` (an answer is cached for some time, `ttl: 5` in
`config.js`; calls end), `QueriesAssumption` (keys are 1 to n, versions and accounts
are proper values, the pool's order has every key, requests are of the shape the
endpoints accept), `ValidatorAssumption` (finitely many validators, given by numbers;
a block's commands are about validators), `MarketAssumption` (a list of known
sources, each of which keeps its prices for some time), `StatisticsAssumption`
(finitely many groups, pages that hold something, `UNAVAILABLE` is no token),
`ExportAssumption` (a last day, and requests for at least one transaction),
`RegistryAssumption` (there are names and tokens to choose from), and
`BoundAssumption` and `CallerAssumption` for bounds.  Every theorem about a composed
specification says that steps of the other parts leave the invariant alone as well.

### Block index (`BlockIndexerProofs`)

`IndexInvariant`, and from it `TypeCorrect`, `RowsComeFromChain`,
`FinalityIsNeverAhead`, `IndexingIsAtomic`.  That a row is a block the node had is
not inductive: rows are written from jobs, jobs are filled from the event in
progress and from rows read earlier.  `IndexInv` adds what each carrier holds:
blocks in a job, in a worker, in `evt` and in the Events queue were seen (`JobOK`,
`QueueOK`, `WorkersOK`, `EventsOK`); an `isFinal` in transit is true of the node
(`finalizedHeight <= finalized`, and the node's value only grows); the rows in an
update job have their transactions (`TxsIndexed`), which is why writing stale rows
back does not break atomicity.  One lemma per action, and lemmas for the queue
operations used by several.

`GeneratedBlocksCover`: no indexed block is left out of its generator's count.  The
count and the rows are written by different jobs, and a finality update may bring
back a block whose row was replaced.  The invariant (`CountInv`) therefore is about a
set of blocks that have been counted: it holds the block of every row and of every
row that a queued update carries, and each generator's count is at least its share of the
set.  A commit adds its block to the set and one to the count, and no other step
takes anything out; the rest is the cardinality of a union.

`IndexIsArchive`: the refinement `Spec => IsArchive`.  The initial states map to an
empty archive; a new block is learnt, a commit records, a finality update records
and confirms the rows it carries, all other steps leave the archive as it is.  That
the block recorded was seen, at its height, and the mark is true comes from
`IndexInv`.

### Gaps and the coordinator (`OperatorProofs`, `IndexerProofs`, `IndexCoordinatorProofs`)

`SearchFindsInteriorGaps`, for every index and range, by taking the lowest row above
the gap: it is a row the query returns, and the highest row below it lies below the
gap.  `GapsAlwaysFound` states it for the specification over every index and range,
before and after what was reported is indexed.

`CoordinatorTypeCorrect` rests on the lemma that the search reports nothing outside
the range it is given.  `VerifiedHeightBacksOffByOne` is an action property: the
height is written at the end of a check from a range that was fixed several
requests earlier.  `RangeFromVerified` adds that during a check the lower end still
is the verified height (nobody else writes it), and that a range that gets as far as
being recorded counts down by one at most, since `range` throws on any other.

### Readiness (`IndexerProofs`)

`ReadyAnswersBacked`: when the gateway answers ready, the index had been compared with
the chain and lacked at most one of its blocks, and one more for each row of another
block it held, and every other service it depends on and polls had said so.  The claim
is about the end of a chain of copies, so the invariant follows it: the indexer's flag,
the status under way and the gateway's view of the indexer are each set only after a
successful comparison (`IndexTraceBacked`); the view of another service only after its
answer (`OthersBacked`).  What a comparison shows is
a lemma on cardinalities (`ComparisonMeans`): the rows are those of the blocks that the
chain had when its height was read, and those of other blocks.

### API client (`ApiClientProofs`)

`ClientTypeCorrect` and `AttemptsKeptApart`.  The invariant adds that a caller has
started over at most as often as attempts failed (`RoundsOK`) and that, next to a
pending attempt, the flag is clear only when the time limit has passed, there is a
live client or a connection was lost (`FlagGuards`).

### Connector and fee estimator (`ConnectorProofs`)

* `FeeEstimatesSound`.  Exactness of the stored estimate is not inductive, because
  runs resume from what others stored: `FeeInv` adds that what a run folds onto and
  what it is about to store is exact up to its height and for a block the node
  has.  The key lemma is that folding one more batch onto an exact estimate gives an
  exact one: the streak that ends at the new height either lies within the batch or
  takes up the whole batch and goes on in the estimate before.
* `NodeAnswersAreFaithful` and `TimeoutsAreSafe`.  `NodeInv` adds, for every call in
  progress, that the requests made and the retries left add up, that the node has
  acted on fewer requests than were made, and on none unless a `TimeoutException` was
  thrown (`RequestsSound`), that it was asked at an epoch the node has reached, and,
  for every chain event, that at its second refresh the first is done.  Which
  endpoints check, await and refresh is a table of forty-eight records; one lemma
  goes through it (`StoresSafely`), the rest of the proof does not mention a single
  endpoint.
* `ConnectorCachesSound`: a cache that is checked never holds an error; the peer
  lists are the partition of the peers and the statistics their sizes; the genesis
  block is verified.  `GenesisInv` holds two separate arguments.  For an archive
  (`ArchiveProtects`) the file is never damaged, because nothing writes it but the
  unpacking of an archive that passed the check.  For a plain file
  (`LoneLoaderProtects`), as long as calls have not overlapped and there was no
  restart, a damaged file has a loader about to verify it, and no other call is under
  way.

### Gateway and data service (`PlatformProofs`)

`RpcIsFaithful`: an RPC answer is younger than the time to live plus the length of a
call; a request with an effect was executed, or, if it is no posted transaction, is
answered with what an equal one within that time was answered.  An answer from the
cache was put there by another request, perhaps of another batch, so `RpcInv` speaks
of the entries as well: each is kept under the request it answers, its age and the
time it has left together never exceed the limit, and none belongs to a posted
transaction, whose answers carry no data and are not cached.

`AnswersAlwaysFit`: whatever changes between the reads of the index and of the node,
nothing is returned that the request did not ask for (of audios by owner and
subscriptions by member: that the owner or member did not have), and an answer is about the
account it names.  Every endpoint is a list of steps; `QueryInv` says that the steps
that are left are a tail of that list (`StepsLeft`), that every row read so far
fitted the request at the time it was read (`FitInv`, which speaks of all that the
tables hold now, since the node is asked later for what the index named earlier), and
that an account is known once it has been looked up, and nothing read before
(`IdentityInv`).

`QuietAnswersAlwaysExact`: as long as the index, the node and the tables stay as they
are while a request is answered, and the index has caught up, every answer is the
page asked for, in order, with the right total.  Pages are built by several steps:
`QuietInv` says what each of them leaves exact as long as certain other steps are
still to come.  The page read is the one of the rows that match (`PageOK`), until a
later step turns it into something else: pending transactions are put before it, with
what they leave of offset and limit (`PendingOK`, `MergeOK`), apps are found in two
rounds, default ones first (`AppsOK`), events are looked up with what `findBlock` and
`params` left of the request (`GivenOK`), tokens are looked up for all chains or
entries (`TokensOK`).  The total is the number of rows that match (`TotalOK`); that
of blocks is made of the last block returned (`BlocksOK`), which is right, where the
property says so, because the chain has no gaps (`ChainOK`).  The lemmas on pages
(`FirstPage`, `PageOfJoined`, `KeysJoined`) say when cutting two sequences and then
joining them is the same as the other way round.

### Validator list (`IndexerProofs`)

`ValidatorListAlwaysSound`: no validator is on the list twice, every rank from one to
its length is given once, or none yet while the task that loaded the list is about to
give them (`RankInv`), and no more validators are active than the protocol allows,
although jobs, listeners, bans and new rounds overlap on the list.  A task writes to
the list what the node returned to it earlier: `ValidatorInv` adds that the steps of
every task are in an order in which what is assigned or applied was asked for just
before (`Ordered`), and that what was returned is a ranking by itself (`FreshList`).

### Market, statistics, export and registry (`ServicesProofs`)

* `PricesAlwaysExpire`.  `MarketInv`: for some number of minutes g, everything
  published was no older g minutes ago than its sources keep it, and the update that
  will replace it has run for all but one of these minutes or is about to start.
* `StatisticsAlwaysRight`.  Nothing that the table shows can be shown exact without
  the job that builds it: of a day that is over, the counts are those of the rows on
  the pages so far, and no page will be left out (`OverExact`); a group that is counted
  is there (`CountedSeen`), so that a build which finds none of it leaves no row of an
  earlier one behind; no two rows share a place (`PlacesDiffer`), so that pages by
  rank neither overlap nor leave rows out.  That no group is counted more often than the
  day has transactions uses that the pages so far hold no more than they can
  (`PagesBounded`).  Views are sums of exact counts; the lemma `TotalIs` has them by a
  bijection between the pairs of the sum and the transactions.  The token of a row is that
  of one of the transactions it counts (`OverNamed`, `SettledNamed`), so that rows whose
  transactions agree are shown under their token.
* `CachedDaysAlwaysComplete`, a part of `ExportsComplete`: a day that was fetched
  after its end is complete in both caches, one fetched earlier holds a prefix of the
  day.  `ExportInv` follows what a worker fetched until it is stored, and the writes
  that are under way.
* `RecordedCommitAlwaysCloned`, the part of `RegistryConsistent` about the clone.
  Files of several commits are in the clone at a time, so that it does not equal the
  recorded commit between synchronisations; what is kept is that every file is of a
  commit that is not older than one with the content of the recorded commit
  (`Stems`), or was left behind by a renaming.  `RegistryInv` says so of the clone at
  rest (`AllFollow`), of downloaded files before the commit of the tables
  (`FilesFollow`: what differs is to do or downloaded, with its status) and of the
  files to be moved after it (`MovesFollow`).  It needs that nobody synchronises
  before the first commit is recorded (`StartsOnce`).

### Only model-checked

* Liveness (`QueuesDrain`, `ChainIsIndexed`, `InteriorGapIsRepaired`,
  `VerificationCatchesUp`, `CallersServed`, `ClientReconnects`,
  `SeparateBlocksIndexed`, `ValidatorsRecover`, `PlatformBecomesReady`,
  `GatewayAnswers`, `BlocksServed`, `FeesFollow` and those of `MCServices`): fairness
  is out of the prover's reach.
* Statements about folds of statements over tables, which need induction over data:
  `TablesSound` and `StakesAddUp` (processors), of `RegistryConsistent` that
  the tables hold what the clone holds (`TablesMirrorClone`), and of `ExportsComplete`
  that the columns of a statement add up (`StatementsBalance`).
* `RoutesFaithful`, a statement about the tables of routes as they are, which TLC
  evaluates completely.

## 5. Not modelled

* formatting, encoding and schemas, documentation of the API, the template service,
  and the wrappers of Moleculer, HTTP and Redis, which keep no state of the
  system;
* the fields of answers (`transformResponse`, normalisation of blocks and
  transactions), except where a property tells them apart;
* `accountIndex.js`: its queues store public keys; two of its listeners wait for
  signals that nothing dispatches; likewise `updateNonFinalBlocks` and `buildIndex`
  are never called, the statistics' verification job and the connector's proxy
  methods call functions that do not exist;
* `reportIndexStatus` and the events the services broadcast to subscribers;
* rate limits, rooms and connection handling of the vendored socket server.
