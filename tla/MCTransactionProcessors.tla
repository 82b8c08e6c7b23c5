----------------------- MODULE MCTransactionProcessors -----------------------
(***************************************************************************)
(* Small sets of transactions for TransactionProcessors, one set for each  *)
(* group of tables, and a ledger with one of everything.                   *)
(***************************************************************************)
EXTENDS TransactionProcessors

CONSTANTS a, b    \* two accounts

Tx(module, command, sender) ==
  [module |-> module, command |-> command, sender |-> sender, ok |-> TRUE]

Failed(tx) == [tx EXCEPT !.ok = FALSE]

Transfer(x, from, to, n) ==
  [audioID |-> x, recipient |-> to, shares |-> n] @@ Tx("audio", "transfer", from)

AudioTxs ==
  LET create(y, s) == [audioID |-> y, owners |-> s :> 2, feat |-> {b}, attr |-> 1]
                        @@ Tx("audio", "create", s)
      attributes == [audioID |-> "x", feat |-> {a}, attr |-> 2] @@ Tx("audio", "setAttributes", a)
      stream == [audioID |-> "x"] @@ Tx("audio", "stream", b)
      reclaim == [reclaimed |-> {"x"}] @@ Tx("audio", "reclaim", a)
      destroy == [audioID |-> "z"] @@ Tx("audio", "destroy", a)
  IN  {create("y", a), Failed(create("y", b)), attributes, stream, Failed(stream), reclaim,
       destroy, Transfer("x", a, b, 1), Transfer("x", b, a, 1), Failed(Transfer("x", a, b, 1)),
       Transfer("z", a, b, 2)}

CatalogTxs ==
  LET coll(command) == [collectionID |-> "c"] @@ Tx("collection", command, a)
      created == [collectionID |-> "d", attr |-> 1] @@ Tx("collection", "create", b)
      profile(p, command) == [profileID |-> p, attr |-> 2, socials |-> "site" :> 1]
                               @@ Tx("profile", command, a)
  IN  {created, Failed(created), [recipient |-> b] @@ coll("transfer"),
       [attr |-> 2] @@ coll("setAttributes"), coll("destroy"),
       profile("q", "create"), profile("p", "setAttributes"),
       [recipient |-> b] @@ Tx("token", "transfer", a), Tx("unknown", "any", a)}

SubscriptionTxs ==
  LET sub(s, command, by) == [subscriptionID |-> s] @@ Tx("subscription", command, by)
  IN  {sub("t", "create", a), Failed(sub("t", "create", b)),
       [members |-> {a, b}] @@ sub("s", "purchase", a),
       [members |-> {a}] @@ sub("t", "purchase", b),
       [members |-> {b}] @@ sub("s", "updateMembers", a),
       [members |-> {a}] @@ sub("s", "updateMembers", a)}

Stake(s, v, n) == [stakes |-> v :> n] @@ Tx("pos", "stake", s)

StakeTxs == {Stake(a, a, 1), Stake(b, a, 1), Stake(a, a, -1)}

PosTxs ==
  LET keyed(command, s, k) == [generatorKey |-> k] @@ Tx("pos", command, s)
      multi == [members |-> {b}] @@ Tx("auth", "registerMultisignature", a)
  IN  {Stake(a, a, 1), Stake(b, a, 1), Failed(Stake(b, a, 1)),
       keyed("registerValidator", b, 1), keyed("updateGeneratorKey", a, 2),
       [commission |-> 5] @@ Tx("pos", "changeCommission", a), multi}

ChainTxs ==
  LET chainTx(c, command) == [chainID |-> c] @@ Tx("interoperability", command, a)
      keys == [generatorKey |-> 1] @@ Tx("legacy", "registerKeys", b)
  IN  {chainTx("m", "registerSidechain"), Failed(chainTx("m", "registerSidechain")),
       chainTx("k", "terminateSidechainForLiveness"),
       chainTx("k", "submitSidechainCrossChainUpdate"), keys, Tx("pos", "unlock", b)}

Palette(txs, commands, starts) ==
  [txs |-> txs, commands |-> commands, restarts |-> starts]

\* Three transactions where a later one depends on what two left.
MCPalettes ==
  {Palette(AudioTxs, 2, 0), Palette(CatalogTxs, 2, 0), Palette(SubscriptionTxs, 3, 0),
   Palette(PosTxs, 2, 0), Palette(StakeTxs, 3, 1), Palette(ChainTxs, 2, 0)}

Rows(t, rows) == Upserted(<< >>, t, rows)

MCGenesis ==
  Rows(audiosTableSchema, {[audioID |-> x, creatorAddress |-> a, attr |-> 1] : x \in {"x", "z"}})
  @@ Rows(ownersTableSchema,
          {[audioID |-> "x", address |-> a, shares |-> 1], [audioID |-> "x", address |-> b, shares |-> 1],
           [audioID |-> "z", address |-> a, shares |-> 2]})
  @@ Rows(featsTableSchema, {[audioID |-> "x", address |-> b, role |-> "co-artist"]})
  @@ Rows(collectionsTableSchema, {[collectionID |-> "c", creatorAddress |-> a, attr |-> 1]})
  @@ Rows(profilesTableSchema, {[profileID |-> "p", creatorAddress |-> a, attr |-> 1]})
  @@ Rows(socialAccountsTableSchema, {[profileID |-> "p", platform |-> "chat", username |-> 1]})
  @@ Rows(subscriptionsTableSchema, {[subscriptionID |-> "s", creatorAddress |-> a]})
  @@ Rows(validatorsTableSchema, {[address |-> a, generatorKey |-> 1]})
  @@ Rows(stakesTableSchema, {[stakerAddress |-> b, validatorAddress |-> a, amount |-> 2]})
  @@ Rows(commissionsTableSchema, {[address |-> a, height |-> 0, commission |-> 9]})
  @@ Rows(blockchainAppsTableSchema, {[chainID |-> "k", status |-> "registered", address |-> b]})
=============================================================================
