--------------------------- MODULE ChainProcessors ---------------------------
(***************************************************************************)
(* indexer/transactionProcessor/{pos, legacy, auth, interoperability,      *)
(* token}, in the form of AudioProcessors.  status is what the node says   *)
(* of a chain account when the processor asks, whatever block is indexed.  *)
(***************************************************************************)
EXTENDS CatalogProcessors

SumOf(f) ==
  LET sum[S \in SUBSET DOMAIN f] ==
        IF S = {} THEN 0
        ELSE LET x == CHOOSE y \in S : TRUE IN f[x] + sum[S \ {x}]
  IN  sum[DOMAIN f]

\* getStakeIndexingInfo: one entry per validator staked for.
stakeRows(tx) ==
  {[stakerAddress |-> tx.sender, validatorAddress |-> v, amount |-> tx.stakes[v]]
     : v \in DOMAIN tx.stakes}

totalStakeChange(tx) == SumOf(tx.stakes)

totalSelfStakeChange(tx) ==
  IF tx.sender \in DOMAIN tx.stakes THEN tx.stakes[tx.sender] ELSE 0

\* Read with get(), outside the transaction; written inside it.
updateTotalStake(db, change) == setValue("staked", getValue(db, "staked") + change)

updateTotalSelfStake(db, change) ==
  setValue("selfStaked", getValue(db, "selfStaked") + change)

\* Mutant of applyStake: the new amount is computed from the row read before.
applyStakeReadFirst(db, tx, txs) ==
  LET amountOf(v) ==
        LET row == findOne(db, stakesTableSchema,
                           [stakerAddress |-> tx.sender, validatorAddress |-> v])
        IN  IF row = Null THEN 0 ELSE row.amount
  IN  {<<upsert(stakesTableSchema,
                {[row EXCEPT !.amount = @ + amountOf(row.validatorAddress)]
                   : row \in stakeRows(tx)}),
         updateTotalStake(db, totalStakeChange(tx)),
         updateTotalSelfStake(db, totalSelfStakeChange(tx))>>}

applyStake(db, tx, txs) ==
  {<<increment(stakesTableSchema, stakeRows(tx), TRUE),
     updateTotalStake(db, totalStakeChange(tx)),
     updateTotalSelfStake(db, totalSelfStakeChange(tx))>>}

\* The validator entry: the accounts table keeps only isValidator of it.
validatorStatements(tx, isValidator, key) ==
  <<upsert(accountsTableSchema, {[address |-> tx.sender, isValidator |-> isValidator]}),
    upsert(validatorsTableSchema, {[address |-> tx.sender, generatorKey |-> key]})>>

applyRegisterValidator(db, tx, txs) == {validatorStatements(tx, TRUE, tx.generatorKey)}

applyUpdateGeneratorKey(db, tx, txs) == {validatorStatements(tx, TRUE, tx.generatorKey)}

applyRegisterKeys(db, tx, txs) == {validatorStatements(tx, TRUE, tx.generatorKey)}

getCommissionIndexingInfo(tx) ==
  [address |-> tx.sender, commission |-> tx.commission, height |-> tx.height]

applyChangeCommission(db, tx, txs) ==
  {<<upsert(commissionsTableSchema, {getCommissionIndexingInfo(tx)})>>}

\* claimRewards, unlock, reclaimLSK and the recovery commands act on nothing;
\* reportMisbehavior reloads the validators cache, which is no table.
applyPos(db, tx, txs) ==
  CASE tx.command = "stake" -> applyStake(db, tx, txs)
    [] tx.command = "registerValidator" -> applyRegisterValidator(db, tx, txs)
    [] tx.command = "updateGeneratorKey" -> applyUpdateGeneratorKey(db, tx, txs)
    [] tx.command = "registerKeys" -> applyRegisterKeys(db, tx, txs)
    [] tx.command = "changeCommission" -> applyChangeCommission(db, tx, txs)
    [] OTHER -> Nothing
-----------------------------------------------------------------------------
resolveMultisignatureMemberships(tx) ==
  {[id |-> <<tx.sender, m>>, groupAddress |-> tx.sender, memberAddress |-> m]
     : m \in tx.members}

applyRegisterMultisignature(db, tx, txs) ==
  {<<upsert(multisignatureTableSchema, resolveMultisignatureMemberships(tx))>>}

\* registerMainchain and registerSidechain
applyRegisterChain(db, tx, status) ==
  {<<upsert(blockchainAppsTableSchema,
            {[chainID |-> tx.chainID, status |-> status, address |-> tx.sender]})>>}

\* submitSidechainCrossChainUpdate clears the address
applyCrossChainUpdate(db, tx, status) ==
  {<<upsert(blockchainAppsTableSchema,
            {[chainID |-> tx.chainID, status |-> status, address |-> Null]})>>}

applyTerminateSidechain(db, tx, status) ==
  {<<upsert(blockchainAppsTableSchema, {[chainID |-> tx.chainID, status |-> status]})>>}

\* Unlike the others, these look at the outcome of their own transaction.
applyInteroperability(db, tx, status) ==
  IF ~tx.ok THEN Nothing
  ELSE CASE tx.command = "registerSidechain" -> applyRegisterChain(db, tx, status)
         [] tx.command = "submitSidechainCrossChainUpdate" ->
              applyCrossChainUpdate(db, tx, status)
         [] tx.command = "terminateSidechainForLiveness" ->
              applyTerminateSidechain(db, tx, status)
         [] OTHER -> Nothing

\* transfer and transferCrossChain
applyToken(db, tx, txs) ==
  {<<upsert(accountsTableSchema, {[address |-> tx.recipient]}),
     upsert(transactionsTableSchema,
            {[id |-> <<tx.sender, tx.nonce>>, recipientAddress |-> tx.recipient]})>>}
=============================================================================
