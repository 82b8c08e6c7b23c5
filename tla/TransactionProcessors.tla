------------------------ MODULE TransactionProcessors ------------------------
(***************************************************************************)
(* The transactions of blocks being indexed: indexBlock starts every       *)
(* transaction of a block at once, each processor reads committed rows and *)
(* then awaits its statements one by one in the transaction of the block,  *)
(* and the block is committed when all are done.  Blocks are indexed by    *)
(* Workers jobs that run next to each other, since all queues of the       *)
(* Indexer are one Bull queue.                                             *)
(*                                                                         *)
(* What the node makes of a transaction (the ledger) is external: it is    *)
(* taken from the names and the parameters of the commands.                *)
(***************************************************************************)
EXTENDS ChainProcessors

CONSTANTS
  Workers,       \* jobs of the default queue that run at a time
  Palettes,      \* what the node may put into blocks: transactions, and how many
  Genesis,       \* the rows of a ledger that is already indexed
  MaxBlocks      \* bound: blocks of the chain

VARIABLES
  palette,       \* the transactions of this behaviour
  chain,         \* blocks: their transactions, and the ledger after them
  db,            \* the committed rows
  job,           \* for each worker, the block it indexes and how far it is
  indexed,       \* heights that are committed
  restarts,      \* restarts of the Indexer so far
  separate       \* history: nothing was started that could interfere

vars == <<palette, chain, db, job, indexed, restarts, separate>>

Height == 1..MaxBlocks
Slot == 1..2     \* a block has one or two transactions

Idle == [height |-> 0]
-----------------------------------------------------------------------------
(* The node.                                                               *)

LedgerOf(h) == IF h = 0 THEN Genesis ELSE chain[h].ledger

ownerRow(l, x, a) == findOne(l, ownersTableSchema, [audioID |-> x, address |-> a])

stakeRow(l, s, v) ==
  findOne(l, stakesTableSchema, [stakerAddress |-> s, validatorAddress |-> v])

Exists(l, t, where) == find(l, t, where) # {}

ActiveMembers(l, s) == find(l, membersTableSchema, [shared |-> s, removedBy |-> Null])

\* A transaction that succeeds acts on what exists, and on what its sender has.
Valid(l, tx) ==
  CASE tx.module = "audio" /\ tx.command = "create" ->
         ~Exists(l, audiosTableSchema, [audioID |-> tx.audioID])
    [] tx.module = "audio" /\ tx.command = "transfer" ->
         ownerRow(l, tx.audioID, tx.sender) # Null
           /\ ownerRow(l, tx.audioID, tx.sender).shares >= tx.shares
    [] tx.module = "audio" /\ tx.command = "reclaim" ->
         \E x \in tx.reclaimed : ownerRow(l, x, tx.sender) # Null
    [] tx.module = "audio" -> Exists(l, audiosTableSchema, [audioID |-> tx.audioID])
    [] tx.module = "collection" ->
         (tx.command = "create") #
           Exists(l, collectionsTableSchema, [collectionID |-> tx.collectionID])
    [] tx.module = "profile" ->
         (tx.command = "create") #
           Exists(l, profilesTableSchema, [profileID |-> tx.profileID])
    [] tx.module = "subscription" /\ tx.command = "create" ->
         ~Exists(l, subscriptionsTableSchema, [subscriptionID |-> tx.subscriptionID])
    [] tx.module = "subscription" ->
         /\ Exists(l, subscriptionsTableSchema, [subscriptionID |-> tx.subscriptionID])
         /\ (tx.command = "purchase") = (ActiveMembers(l, tx.subscriptionID) = {})
    [] tx.command = "stake" ->
         \A v \in DOMAIN tx.stakes :
           tx.stakes[v] > 0 \/ (stakeRow(l, tx.sender, v) # Null
                                  /\ stakeRow(l, tx.sender, v).amount + tx.stakes[v] >= 0)
    [] tx.command = "registerValidator" ->
         ~Exists(l, validatorsTableSchema, [address |-> tx.sender])
    [] tx.command = "updateGeneratorKey" ->
         Exists(l, validatorsTableSchema, [address |-> tx.sender])
    [] tx.module = "interoperability" ->
         (tx.command = "registerSidechain") #
           Exists(l, blockchainAppsTableSchema, [chainID |-> tx.chainID])
    [] OTHER -> TRUE

Moved(l, tx) ==
  LET to == ownerRow(l, tx.audioID, tx.recipient)
      from == ownerRow(l, tx.audioID, tx.sender)
      taken == Upserted(l, ownersTableSchema, {[from EXCEPT !.shares = @ - tx.shares]})
  IN  Deleted(
        Upserted(taken, ownersTableSchema,
          {[audioID |-> tx.audioID, address |-> tx.recipient,
            shares |-> tx.shares + (IF to = Null THEN 0 ELSE to.shares)]}),
        ownersTableSchema, {[shares |-> 0]})

Staked(l, tx) ==
  LET rowFor(v) == stakeRow(l, tx.sender, v)
  IN  Upserted(l, stakesTableSchema,
        {[stakerAddress |-> tx.sender, validatorAddress |-> v,
          amount |-> tx.stakes[v] + (IF rowFor(v) = Null THEN 0 ELSE rowFor(v).amount)]
           : v \in DOMAIN tx.stakes})

\* The ledger after a successful transaction.
Meaning(l, tx) ==
  CASE tx.module = "audio" /\ tx.command = "create" ->
         Upserted(Upserted(Upserted(l,
           audiosTableSchema, {[audioID |-> tx.audioID, creatorAddress |-> tx.sender,
                                attr |-> tx.attr]}),
           ownersTableSchema, {[audioID |-> tx.audioID, address |-> o,
                                shares |-> tx.owners[o]] : o \in DOMAIN tx.owners}),
           featsTableSchema, {[audioID |-> tx.audioID, address |-> f,
                               role |-> "co-artist"] : f \in tx.feat})
    [] tx.module = "audio" /\ tx.command = "setAttributes" ->
         Upserted(Upserted(
           Deleted(l, featsTableSchema, {[audioID |-> tx.audioID]}),
           featsTableSchema, {[audioID |-> tx.audioID, address |-> f,
                               role |-> "co-artist"] : f \in tx.feat}),
           audiosTableSchema, {[audioID |-> tx.audioID, attr |-> tx.attr]})
    [] tx.module = "audio" /\ tx.command = "transfer" -> Moved(l, tx)
    [] tx.module = "audio" /\ tx.command = "stream" ->
         Upserted(l, ownersTableSchema, tx.streamed)
    [] tx.module = "audio" /\ tx.command = "reclaim" ->
         Upserted(l, ownersTableSchema,
           {[audioID |-> x, address |-> tx.sender, income |-> 0] : x \in tx.reclaimed})
    [] tx.module = "audio" /\ tx.command = "destroy" ->
         LET this == {[audioID |-> tx.audioID]}
         IN  Deleted(Deleted(Deleted(l, audiosTableSchema, this),
                             ownersTableSchema, this), featsTableSchema, this)
    [] tx.module = "collection" /\ tx.command = "destroy" ->
         Deleted(l, collectionsTableSchema, {[collectionID |-> tx.collectionID]})
    [] tx.module = "collection" /\ tx.command = "transfer" ->
         Upserted(l, collectionsTableSchema,
           {[collectionID |-> tx.collectionID, creatorAddress |-> tx.recipient]})
    [] tx.module = "collection" ->
         Upserted(l, collectionsTableSchema,
           {IF tx.command = "create"
            THEN [collectionID |-> tx.collectionID, creatorAddress |-> tx.sender,
                  attr |-> tx.attr]
            ELSE [collectionID |-> tx.collectionID, attr |-> tx.attr]})
    [] tx.module = "profile" ->
         LET known == findOne(l, profilesTableSchema, [profileID |-> tx.profileID])
         IN  Upserted(Upserted(
               Deleted(l, socialAccountsTableSchema, {[profileID |-> tx.profileID]}),
               socialAccountsTableSchema, socialRows(tx, tx.profileID)),
               profilesTableSchema,
               {[profileID |-> tx.profileID, attr |-> tx.attr, creatorAddress |->
                   IF known = Null THEN tx.sender ELSE known.creatorAddress]})
    [] tx.module = "subscription" /\ tx.command = "create" ->
         Upserted(l, subscriptionsTableSchema,
           {[subscriptionID |-> tx.subscriptionID, creatorAddress |-> tx.sender]})
    [] tx.module = "subscription" ->
         LET now == ActiveMembers(l, tx.subscriptionID)
             left == {row \in now : row.address \notin tx.members}
         IN  Upserted(Upserted(l,
               membersTableSchema, {[id |-> r.id, removedBy |-> <<tx.sender, tx.nonce>>] : r \in left}),
               membersTableSchema, {memberRow(tx, m) : m \in tx.members \ {r.address : r \in now}})
    [] tx.command = "stake" -> Staked(l, tx)
    [] tx.command \in {"registerValidator", "updateGeneratorKey", "registerKeys"} ->
         Upserted(l, validatorsTableSchema,
           {[address |-> tx.sender, generatorKey |-> tx.generatorKey]})
    [] tx.command = "changeCommission" ->
         Upserted(l, commissionsTableSchema,
           {[address |-> tx.sender, height |-> tx.height, commission |-> tx.commission]})
    [] tx.command = "registerMultisignature" ->
         Upserted(l, multisignatureTableSchema, resolveMultisignatureMemberships(tx))
    [] tx.module = "interoperability" ->
         Upserted(l, blockchainAppsTableSchema,
           {[chainID |-> tx.chainID, status |->
               CASE tx.command = "registerSidechain" -> "registered"
                 [] tx.command = "submitSidechainCrossChainUpdate" -> "activated"
                 [] tx.command = "terminateSidechainForLiveness" -> "terminated"]})
    [] OTHER -> l

\* What the event of a stream tells: the owners, each with a new income.
StreamedRows(l, tx) ==
  {[row EXCEPT !.income = 1] : row \in find(l, ownersTableSchema, [audioID |-> tx.audioID])}

Nonce(sender) ==
  Cardinality({p \in Height \X Slot :
    /\ p[1] \in DOMAIN chain
    /\ p[2] \in DOMAIN chain[p[1]].txs
    /\ chain[p[1]].txs[p[2]].sender = sender})

\* A transaction as the block has it.
Signed(l, tx, n) ==
  LET signed == [nonce |-> n, height |-> Len(chain) + 1] @@ tx
  IN  IF tx.module = "audio" /\ tx.command = "stream"
      THEN [streamed |-> StreamedRows(l, tx)] @@ signed
      ELSE signed

Result(l, tx) == IF tx.ok THEN Meaning(l, tx) ELSE l

Commands == Cardinality({p \in Height \X Slot :
              p[1] \in DOMAIN chain /\ p[2] \in DOMAIN chain[p[1]].txs})

\* The node forges a block of one transaction,
ForgeOne(tx) ==
  LET l == LedgerOf(Len(chain))
      t == Signed(l, tx, Nonce(tx.sender))
  IN  /\ Len(chain) < MaxBlocks
      /\ Commands < palette.commands
      /\ tx.ok => Valid(l, tx)
      /\ chain' = Append(chain, [txs |-> <<t>>, ledger |-> Result(l, t)])
      /\ UNCHANGED <<palette, db, job, indexed, restarts, separate>>

\* or of two, the second of which acts on what the first left.
ForgeTwo(tx1, tx2) ==
  LET l == LedgerOf(Len(chain))
      t1 == Signed(l, tx1, Nonce(tx1.sender))
      l1 == Result(l, t1)
      t2 == Signed(l1, tx2, Nonce(tx2.sender) + (IF tx1.sender = tx2.sender THEN 1 ELSE 0))
  IN  /\ Len(chain) < MaxBlocks
      /\ Commands + 1 < palette.commands
      /\ tx1.ok => Valid(l, tx1)
      /\ tx2.ok => Valid(l1, tx2)
      /\ chain' = Append(chain, [txs |-> <<t1, t2>>, ledger |-> Result(l1, t2)])
      /\ UNCHANGED <<palette, db, job, indexed, restarts, separate>>
-----------------------------------------------------------------------------
(* applyTransaction looks the hook up by module and command; a module      *)
(* without processors throws.  (revertTransaction is not modelled: no job  *)
(* that deletes a block carries transactions.)                             *)

applyTransaction(tx, txs) ==
  LET status == LET row == findOne(LedgerOf(Len(chain)), blockchainAppsTableSchema,
                                   [chainID |-> column(tx, "chainID")])
                IN  IF row = Null THEN Null ELSE row.status
  IN  CASE tx.module = "audio" -> applyAudio(db, tx, txs)
        [] tx.module = "collection" -> applyCollection(db, tx, txs)
        [] tx.module = "profile" -> applyProfile(db, tx, txs)
        [] tx.module = "subscription" -> applySubscription(db, tx, txs)
        [] tx.module \in {"pos", "legacy"} -> applyPos(db, tx, txs)
        [] tx.module = "auth" -> applyRegisterMultisignature(db, tx, txs)
        [] tx.module = "interoperability" -> applyInteroperability(db, tx, status)
        [] tx.module = "token" -> applyToken(db, tx, txs)
        [] OTHER -> {}
-----------------------------------------------------------------------------
(* indexBlock.                                                             *)

TxsOf(w) == chain[job[w].height].txs

\* The rows as the transaction of a worker sees them.
View(over) ==
  [k \in {key \in DOMAIN db \cup DOMAIN over :
            key \in DOMAIN over => over[key] # Null}
     |-> IF k \in DOMAIN over THEN over[k] ELSE db[k]]

\* Two transactions of one block do not interfere when no hook of one reads
\* the rows or the events of the other.
Independent(t1, t2) ==
  \/ t1.module # t2.module
  \/ /\ t1.module = "audio"
     /\ t1.ok /\ t2.ok
     /\ {t1.command, t2.command} \subseteq {"setAttributes", "transfer", "destroy"}
     /\ t1.audioID # t2.audioID

\* The outcome is only looked at by the audio and interoperability hooks.
OutcomeRespected(tx) == tx.ok \/ tx.module \in {"audio", "interoperability"}

MembersFresh(tx) ==
  tx.module = "subscription" /\ tx.command # "create" =>
    \A m \in tx.members : ~Exists(db, membersTableSchema, [id |-> <<m, tx.nonce>>])

Separate(h) ==
  LET txs == chain[h].txs
  IN  /\ \A i, j \in DOMAIN txs : i # j => Independent(txs[i], txs[j])
      /\ \A i \in DOMAIN txs : OutcomeRespected(txs[i]) /\ MembersFresh(txs[i])
                                 /\ txs[i].module # "unknown"
      /\ \A g \in 1..(h - 1) : g \in indexed

Start(w, h) ==
  /\ job[w] = Idle
  /\ h \in DOMAIN chain \ indexed
  /\ \A v \in Workers : job[v].height # h /\ (v < w => job[v] # Idle)
  /\ job' = [job EXCEPT ![w] = [height |-> h, over |-> << >>,
                                todo |-> [i \in DOMAIN chain[h].txs |-> Null]]]
  /\ separate' = (separate /\ Separate(h))
  /\ UNCHANGED <<palette, chain, db, indexed, restarts>>

Rollback(w) ==
  /\ job' = [job EXCEPT ![w] = Idle]
  /\ UNCHANGED <<palette, chain, db, indexed, restarts, separate>>

\* A processor starts: it has read what it needs.
Begin(w, i) ==
  /\ job[w] # Idle
  /\ i \in DOMAIN job[w].todo
  /\ job[w].todo[i] = Null
  /\ \E stmts \in applyTransaction(TxsOf(w)[i], TxsOf(w)) :
       job' = [job EXCEPT ![w].todo[i] = stmts]
  /\ UNCHANGED <<palette, chain, db, indexed, restarts, separate>>

Pending(w, i) ==
  /\ job[w] # Idle
  /\ i \in DOMAIN job[w].todo
  /\ job[w].todo[i] \notin {Null, << >>}

\* A statement waits for the rows that another open transaction wrote.
Blocked(w, i) ==
  \E v \in Workers \ {w} :
    /\ job[v] # Idle
    /\ Touched(View(job[w].over), Head(job[w].todo[i])) \cap DOMAIN job[v].over # {}

Execute(w, i) ==
  /\ Pending(w, i)
  /\ LET s == Head(job[w].todo[i])
         over == job[w].over
         rows == View(over)
         after == Executed(rows, s)
         missed == NotAffected(rows, s)
         keys == Touched(rows, s)
     IN  /\ ~Blocked(w, i)
         /\ ~Refused(s)
         /\ job' = [job EXCEPT
              ![w].over = [k \in DOMAIN over \cup keys |->
                             IF k \in DOMAIN after THEN after[k] ELSE Null],
              ![w].todo[i] = IF missed # {} /\ s.insert
                             THEN <<upsert(s.table, missed)>> \o Tail(@) ELSE Tail(@)]
  /\ UNCHANGED <<palette, chain, db, indexed, restarts, separate>>

\* A processor or the database throws: indexBlock rolls back, and the job is
\* tried again.
Throw(w) ==
  /\ job[w] # Idle
  /\ \E i \in DOMAIN job[w].todo :
       \/ job[w].todo[i] = Null /\ applyTransaction(TxsOf(w)[i], TxsOf(w)) = {}
       \/ Pending(w, i) /\ Refused(Head(job[w].todo[i]))
  /\ Rollback(w)

\* ER_LOCK_DEADLOCK: both transactions wait for each other.
Deadlock(w) ==
  /\ \E i \in Slot : Pending(w, i) /\ Blocked(w, i)
  /\ \E v \in Workers \ {w} : \E i \in Slot : Pending(v, i) /\ Blocked(v, i)
  /\ Rollback(w)

Commit(w) ==
  /\ job[w] # Idle
  /\ \A i \in DOMAIN job[w].todo : job[w].todo[i] = << >>
  /\ db' = View(job[w].over)
  /\ indexed' = indexed \cup {job[w].height}
  /\ job' = [job EXCEPT ![w] = Idle]
  /\ UNCHANGED <<palette, chain, restarts, separate>>
-----------------------------------------------------------------------------
(* The genesis block, and the start of the service.                        *)

\* The rows of the genesis validators and stakers, written at EVERY start.
indexValidatorCommissionInfo(rows) ==
  Upserted(rows, commissionsTableSchema, rowsOf(Genesis, commissionsTableSchema))

indexStakersInfo(rows) ==
  Upserted(rows, stakesTableSchema, rowsOf(Genesis, stakesTableSchema))

\* The totals of the genesis stakes, added once, when the block is indexed.
indexPosModuleAssets(rows) ==
  LET stakes == rowsOf(Genesis, stakesTableSchema)
      self == {row \in stakes : row.stakerAddress = row.validatorAddress}
      total == updateTotalStake(rows, SumOf([row \in stakes |-> row.amount]))
  IN  Executed(Executed(rows, total),
               updateTotalSelfStake(rows, SumOf([row \in self |-> row.amount])))

\* Open transactions are rolled back; their jobs are found stalled and run
\* again.  A stake of the genesis block that has changed since is overwritten.
Restart ==
  LET rows == indexStakersInfo(indexValidatorCommissionInfo(db))
  IN  /\ restarts < palette.restarts
      /\ restarts' = restarts + 1
      /\ job' = [w \in Workers |-> Idle]
      /\ db' = rows
      /\ separate' = (separate /\ rows = db)
      /\ UNCHANGED <<palette, chain, indexed>>
-----------------------------------------------------------------------------
Init ==
  /\ palette \in Palettes
  /\ chain = << >>
  /\ db = indexPosModuleAssets(Genesis)
  /\ job = [w \in Workers |-> Idle]
  /\ indexed = {}
  /\ restarts = 0
  /\ separate = TRUE

Index(w) ==
  \/ Throw(w)
  \/ Deadlock(w)
  \/ Commit(w)
  \/ \E i \in Slot : Begin(w, i) \/ Execute(w, i)

Next ==
  \/ \E tx \in palette.txs : ForgeOne(tx)
  \/ \E tx1, tx2 \in palette.txs : ForgeTwo(tx1, tx2)
  \/ \E w \in Workers : Index(w)
  \/ \E w \in Workers, h \in Height : Start(w, h)
  \/ Restart

\* Every scheduled job is run, and every awaited statement returns.
Fairness ==
  /\ \A w \in Workers : WF_vars(Index(w))
  /\ \A h \in Height : WF_vars(\E w \in Workers : Start(w, h))

Spec == Init /\ [][Next]_vars /\ Fairness
-----------------------------------------------------------------------------
\* The tables that show the ledger.  Accounts and transactions are a register
\* of addresses and ids; a stake that was withdrawn may be a row with amount 0.
Shown(rows) ==
  {<<k, IF k[1] = "subscriptions" THEN k ELSE rows[k]>> :
     k \in {key \in DOMAIN rows :
             /\ key[1] \notin {"accounts", "transactions", "key_value_store", "blockchain_apps"}
             /\ key[1] = "stakes" => rows[key].amount # 0}}

Statuses(rows) ==
  {<<row.chainID, row.status>> : row \in rowsOf(rows, blockchainAppsTableSchema)}

TypeOK ==
  /\ palette \in Palettes
  /\ indexed \subseteq DOMAIN chain
  /\ \A k \in DOMAIN db : k[1] = "key_value_store" => db[k].value \in Int
  /\ \A w \in Workers : job[w] # Idle =>
       /\ job[w].height \in DOMAIN chain \ indexed
       /\ DOMAIN job[w].todo = DOMAIN TxsOf(w)
  /\ restarts \in 0..palette.restarts
  /\ separate \in BOOLEAN

\* As long as no block was started whose transactions interfere, the tables
\* show what the chain says after the last indexed block: every owner, share,
\* income, feat, collection, profile, member, stake, validator and commission.
\* The status of a chain is asked for when a block is indexed: it is that of
\* the newest block once all are indexed.
TablesMirrorLedger ==
  separate =>
    /\ Shown(db) = Shown(LedgerOf(Cardinality(indexed)))
    /\ indexed = DOMAIN chain => Statuses(db) = Statuses(LedgerOf(Len(chain)))

\* The totals of the key-value store, which are read outside the transaction
\* and written as absolute values, are the sums of the rows of the stakes
\* table (stake.js, updateTotalStake and updateTotalSelfStake).
TotalsMatchStakes ==
  separate =>
    LET stakes == rowsOf(db, stakesTableSchema)
        self == {row \in stakes : row.stakerAddress = row.validatorAddress}
    IN  /\ getValue(db, "staked") = SumOf([row \in stakes |-> row.amount])
        /\ getValue(db, "selfStaked") = SumOf([row \in self |-> row.amount])

\* What staker s has staked for v in the indexed blocks.  applyTransaction of
\* stake.js does not look at the outcome of a transaction.
StakesIn(s, v) ==
  LET stakes == {p \in Height \X Slot :
                   /\ p[1] \in indexed
                   /\ p[2] \in DOMAIN chain[p[1]].txs
                   /\ LET tx == chain[p[1]].txs[p[2]]
                      IN  tx.command = "stake" /\ tx.sender = s /\ v \in DOMAIN tx.stakes}
  IN  SumOf([p \in stakes |-> chain[p[1]].txs[p[2]].stakes[v]])

\* A stake added to a row that exists is counted once and never lost, also
\* when the transactions of a block, or two blocks, are applied next to each
\* other, and when a block is rolled back after a deadlock and applied again:
\* the row is the genesis stake and the stakes of the indexed blocks
\* (incrementStakeTrx), until a restart writes the genesis stake over it.
StakesAddUp ==
  restarts = 0 =>
    \A g \in rowsOf(Genesis, stakesTableSchema) :
      LET row == stakeRow(db, g.stakerAddress, g.validatorAddress)
      IN  row # Null /\ row.amount = g.amount + StakesIn(g.stakerAddress, g.validatorAddress)

\* A block that does not interfere with others is indexed in the end: none of
\* its processors throws on every attempt.
SeparateBlocksIndexed ==
  \A h \in Height : (h \in DOMAIN chain /\ separate) ~> (h \in indexed \/ ~separate)

\* Blocks that do not interfere leave the tables, and the totals kept next to
\* them, as the chain says (indexBlock and the processors it calls).
TablesSound == TypeOK /\ TablesMirrorLedger /\ TotalsMatchStakes
=============================================================================
