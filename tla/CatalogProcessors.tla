-------------------------- MODULE CatalogProcessors --------------------------
(***************************************************************************)
(* indexer/transactionProcessor/{collection, profile, subscription}, in    *)
(* the form of AudioProcessors.  None of them looks at the outcome of its  *)
(* transaction.                                                            *)
(***************************************************************************)
EXTENDS AudioProcessors

accountOf(tx) == upsert(accountsTableSchema, {[address |-> tx.sender]})

applyCollectionCreate(db, tx, txs) ==
  LET event == findEvent(txs, "collection", "create")
  IN  IF event = Null THEN {}     \* destructures undefined
      ELSE {<<accountOf(tx),
              upsert(collectionsTableSchema,
                     {[collectionID |-> event.collectionID,
                       creatorAddress |-> event.sender, attr |-> tx.attr]})>>}

\* The row is looked up and only written over when it is committed.
applyCollectionSetAttributes(db, tx, txs) ==
  IF findOne(db, collectionsTableSchema, [collectionID |-> tx.collectionID]) = Null
  THEN Nothing
  ELSE {<<upsert(collectionsTableSchema,
                 {[collectionID |-> tx.collectionID, attr |-> tx.attr]})>>}

applyCollectionTransfer(db, tx, txs) ==
  LET row == findOne(db, collectionsTableSchema, [collectionID |-> tx.collectionID])
  IN  IF row = Null THEN {}       \* sets creatorAddress of undefined
      ELSE {<<upsert(collectionsTableSchema,
                     {[row EXCEPT !.creatorAddress = tx.recipient]})>>}

applyCollectionDestroy(db, tx, txs) ==
  {<<deleteRows(collectionsTableSchema, {[collectionID |-> tx.collectionID]})>>}

applyCollection(db, tx, txs) ==
  CASE tx.command = "create" -> applyCollectionCreate(db, tx, txs)
    [] tx.command = "setAttributes" -> applyCollectionSetAttributes(db, tx, txs)
    [] tx.command = "transfer" -> applyCollectionTransfer(db, tx, txs)
    [] tx.command = "destroy" -> applyCollectionDestroy(db, tx, txs)
-----------------------------------------------------------------------------
socialRows(tx, profileID) ==
  {[profileID |-> profileID, platform |-> p, username |-> tx.socials[p]]
     : p \in DOMAIN tx.socials}

applyProfileCreate(db, tx, txs) ==
  LET event == findEvent(txs, "profile", "create")
  IN  IF event = Null THEN {}     \* destructures undefined
      ELSE {<<accountOf(tx),
              upsert(socialAccountsTableSchema, socialRows(tx, event.profileID)),
              upsert(profilesTableSchema,
                     {[profileID |-> event.profileID,
                       creatorAddress |-> event.sender, attr |-> tx.attr]})>>}

applyProfileSetAttributes(db, tx, txs) ==
  LET row == findOne(db, profilesTableSchema, [profileID |-> tx.profileID])
  IN  IF row = Null THEN {}       \* throws: the profile does not exist
      ELSE {<<deleteRows(socialAccountsTableSchema, {[profileID |-> tx.profileID]}),
              upsert(socialAccountsTableSchema, socialRows(tx, tx.profileID)),
              upsert(profilesTableSchema, {[row EXCEPT !.attr = tx.attr]})>>}

applyProfile(db, tx, txs) ==
  IF tx.command = "create" THEN applyProfileCreate(db, tx, txs)
  ELSE applyProfileSetAttributes(db, tx, txs)
-----------------------------------------------------------------------------
applySubscriptionCreate(db, tx, txs) ==
  LET event == findEvent(txs, "subscription", "create")
  IN  IF event = Null THEN {}     \* destructures undefined
      ELSE {<<accountOf(tx),
              upsert(subscriptionsTableSchema,
                     {[subscriptionID |-> event.subscriptionID,
                       creatorAddress |-> event.sender]})>>}

\* The key of a member row is the member and the nonce of the transaction.
memberRow(tx, m) ==
  [id |-> <<m, tx.nonce>>, address |-> m, addedBy |-> <<tx.sender, tx.nonce>>,
   shared |-> tx.subscriptionID]

\* find returns an array; setting creatorAddress on it changes no row, so the
\* rows found are written back as they were.
applySubscriptionPurchase(db, tx, txs) ==
  {<<upsert(subscriptionsTableSchema,
            find(db, subscriptionsTableSchema, [subscriptionID |-> tx.subscriptionID])),
     upsert(accountsTableSchema, {[address |-> m] : m \in tx.members}),
     upsert(membersTableSchema, {memberRow(tx, m) : m \in tx.members}),
     accountOf(tx)>>}

membersRow(row, removedBy) ==
  [id |-> row.id, address |-> row.address, shared |-> row.shared, removedBy |-> removedBy]

applySubscriptionUpdateMembers(db, tx, txs) ==
  LET current == find(db, membersTableSchema,
                      [shared |-> tx.subscriptionID, removedBy |-> Null])
      removed == {row \in current : row.address \notin tx.members}
      added == tx.members \ {row.address : row \in current}
  IN  {<<upsert(membersTableSchema, {membersRow(r, <<tx.sender, tx.nonce>>) : r \in removed}),
         upsert(membersTableSchema, {memberRow(tx, m) : m \in added})>>}

applySubscription(db, tx, txs) ==
  CASE tx.command = "create" -> applySubscriptionCreate(db, tx, txs)
    [] tx.command = "purchase" -> applySubscriptionPurchase(db, tx, txs)
    [] tx.command = "updateMembers" -> applySubscriptionUpdateMembers(db, tx, txs)
=============================================================================
