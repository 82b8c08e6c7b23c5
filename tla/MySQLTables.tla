----------------------------- MODULE MySQLTables -----------------------------
(***************************************************************************)
(* The database layer of the framework (framework/src/mysql.js) and the    *)
(* tables of the Indexer that the transaction processors write.            *)
(*                                                                         *)
(* A database is a function from keys <<table name, primary key>> to rows. *)
(* A row is a record of columns.  Columns that no processor or property    *)
(* tells apart are left out (names, hashes and signatures of an audio, a   *)
(* collection or a profile are one column, "attr").                        *)
(*                                                                         *)
(* A processor awaits one statement after the other.  A statement is a     *)
(* record: the rows to upsert, the conditions to delete by, or the rows to *)
(* increment (with what to upsert when no row was affected).               *)
(***************************************************************************)
EXTENDS Integers, Sequences, FiniteSets, TLC

CONSTANT Null    \* SQL null and JavaScript's undefined

accountsTableSchema ==
  [tableName |-> "accounts", primaryKey |-> {"address"},
   defaults |-> [isValidator |-> FALSE]]

audiosTableSchema ==
  [tableName |-> "audios", primaryKey |-> {"audioID"},
   defaults |-> [creatorAddress |-> Null, attr |-> Null]]

ownersTableSchema ==
  [tableName |-> "owners", primaryKey |-> {"address", "audioID"},
   defaults |-> [income |-> 0]]

featsTableSchema ==
  [tableName |-> "feats", primaryKey |-> {"address", "audioID"},
   defaults |-> [role |-> Null]]

collectionsTableSchema ==
  [tableName |-> "collections", primaryKey |-> {"collectionID"},
   defaults |-> [creatorAddress |-> Null, attr |-> Null]]

profilesTableSchema ==
  [tableName |-> "profiles", primaryKey |-> {"profileID"},
   defaults |-> [creatorAddress |-> Null, attr |-> Null]]

socialAccountsTableSchema ==
  [tableName |-> "socialAccounts", primaryKey |-> {"profileID", "platform"},
   defaults |-> [username |-> Null]]

subscriptionsTableSchema ==
  [tableName |-> "subscriptions", primaryKey |-> {"subscriptionID"},
   defaults |-> [creatorAddress |-> Null]]

membersTableSchema ==
  [tableName |-> "members", primaryKey |-> {"id"},
   defaults |-> [shared |-> Null, addedBy |-> Null, removedBy |-> Null]]

validatorsTableSchema ==
  [tableName |-> "validators", primaryKey |-> {"address"},
   defaults |-> [generatorKey |-> Null]]

stakesTableSchema ==
  [tableName |-> "stakes", primaryKey |-> {"validatorAddress", "stakerAddress"},
   defaults |-> [amount |-> 0]]

commissionsTableSchema ==
  [tableName |-> "commissions", primaryKey |-> {"address", "height"},
   defaults |-> [commission |-> Null]]

multisignatureTableSchema ==
  [tableName |-> "multisignature", primaryKey |-> {"id"},
   defaults |-> [groupAddress |-> Null, memberAddress |-> Null]]

blockchainAppsTableSchema ==
  [tableName |-> "blockchain_apps", primaryKey |-> {"chainID"},
   defaults |-> [status |-> Null, address |-> Null]]

transactionsTableSchema ==
  [tableName |-> "transactions", primaryKey |-> {"id"},
   defaults |-> [recipientAddress |-> Null]]

keyValueStoreSchema ==
  [tableName |-> "key_value_store", primaryKey |-> {"key"},
   defaults |-> [value |-> 0]]

-----------------------------------------------------------------------------
(* Reads.  find takes no transaction: whatever a caller passes, it reads   *)
(* the committed rows, never those its own transaction wrote.              *)

rowsOf(db, t) == {db[k] : k \in {key \in DOMAIN db : key[1] = t.tableName}}

Matches(row, where) == \A c \in DOMAIN where : row[c] = where[c]

find(db, t, where) == {row \in rowsOf(db, t) : Matches(row, where)}

\* const [row] = await table.find(...)
findOne(db, t, where) ==
  IF find(db, t, where) = {} THEN Null
  ELSE CHOOSE row \in find(db, t, where) : TRUE

\* The value of a key of the key-value store; get() || 0.
getValue(db, key) ==
  LET row == findOne(db, keyValueStoreSchema, [key |-> key])
  IN  IF row = Null THEN 0 ELSE row.value

-----------------------------------------------------------------------------
(* Statements.                                                             *)

upsert(t, rows) == [op |-> "upsert", table |-> t, rows |-> rows]

deleteRows(t, wheres) == [op |-> "delete", table |-> t, wheres |-> wheres]

\* Each row names its key and the amount to add; missing rows are reported
\* as not affected, and inserted by the caller when "insert" is TRUE.
increment(t, rows, insert) ==
  [op |-> "increment", table |-> t, rows |-> rows, insert |-> insert]

setValue(key, value) == upsert(keyValueStoreSchema, {[key |-> key, value |-> value]})

column(row, c) == IF c \in DOMAIN row THEN row[c] ELSE Null

keyOf(t, row) == <<t.tableName, [c \in t.primaryKey |-> column(row, c)]>>

\* A row whose primary key has a null column is refused by the database.
Refused(s) ==
  /\ s.op = "upsert"
  /\ \E row \in s.rows : \E c \in s.table.primaryKey : column(row, c) = Null

\* INSERT ... ON DUPLICATE KEY UPDATE of the columns given.
Upserted(db, t, rows) ==
  [k \in {keyOf(t, row) : row \in rows} |->
     LET row == CHOOSE r \in rows : keyOf(t, r) = k
     IN  row @@ (IF k \in DOMAIN db THEN db[k] ELSE t.defaults)] @@ db

Deleted(db, t, wheres) ==
  [k \in {key \in DOMAIN db :
            ~(key[1] = t.tableName /\ \E w \in wheres : Matches(db[key], w))}
     |-> db[k]]

Incremented(db, t, rows) ==
  [k \in DOMAIN db |->
     IF \E row \in rows : keyOf(t, row) = k
     THEN [db[k] EXCEPT !.amount =
             @ + (CHOOSE r \in rows : keyOf(t, r) = k).amount]
     ELSE db[k]]

\* The database after a statement.
Executed(db, s) ==
  CASE s.op = "upsert" -> Upserted(db, s.table, s.rows)
    [] s.op = "delete" -> Deleted(db, s.table, s.wheres)
    [] s.op = "increment" -> Incremented(db, s.table, s.rows)

\* The rows an increment did not find.
NotAffected(db, s) ==
  IF s.op # "increment" THEN {}
  ELSE {row \in s.rows : keyOf(s.table, row) \notin DOMAIN db}

\* The keys a statement reads or writes, and locks until its transaction ends.
Touched(db, s) ==
  IF s.op = "delete"
  THEN DOMAIN db \ DOMAIN Deleted(db, s.table, s.wheres)
  ELSE {keyOf(s.table, row) : row \in s.rows}
=============================================================================
