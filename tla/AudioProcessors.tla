--------------------------- MODULE AudioProcessors ---------------------------
(***************************************************************************)
(* indexer/transactionProcessor/audio: what applyTransaction of each audio *)
(* command awaits, given the committed database, the transaction and the   *)
(* transactions txs of its block, which stand for the events of the block. *)
(*                                                                         *)
(* The result is a set of statement sequences: empty when the processor    *)
(* throws (what it wrote until then is rolled back with its block).        *)
(***************************************************************************)
EXTENDS MySQLTables

Least(S) == CHOOSE i \in S : \A j \in S : i <= j

\* events.find(e => e.module === module && e.name === <result of command>):
\* the first such event of the BLOCK.  A failed command leaves no event but
\* its commandExecutionResult.
findEvent(txs, module, command) ==
  LET found == {i \in DOMAIN txs : /\ txs[i].module = module
                                   /\ txs[i].command = command
                                   /\ txs[i].ok}
  IN  IF found = {} THEN Null ELSE txs[Least(found)]

\* events.find(... name === EVENT_NAME_COMMAND_EXECUTION_RESULT).data.success
commandExecutedData(txs, module) ==
  txs[Least({i \in DOMAIN txs : txs[i].module = module})].ok

Nothing == {<< >>}
-----------------------------------------------------------------------------
applyAudioCreate(db, tx, txs) ==
  LET event == findEvent(txs, "audio", "create")
      audioID == IF event = Null THEN Null ELSE event.audioID
      creator == IF event = Null THEN Null ELSE event.sender
      account == upsert(accountsTableSchema, {[address |-> tx.sender]})
  IN  {<<account,
         upsert(ownersTableSchema,
                {[address |-> o, audioID |-> audioID, shares |-> tx.owners[o]]
                   : o \in DOMAIN tx.owners}),
         upsert(featsTableSchema,
                {[address |-> f, audioID |-> audioID, role |-> "co-artist"] : f \in tx.feat}),
         account,
         upsert(audiosTableSchema,
                {[audioID |-> audioID, creatorAddress |-> creator, attr |-> tx.attr]})>>}

applyAudioSetAttributes(db, tx, txs) ==
  LET audio == findOne(db, audiosTableSchema, [audioID |-> tx.audioID])
      old == {row.address : row \in find(db, featsTableSchema, [audioID |-> tx.audioID])}
      params == [audioID |-> tx.audioID, attr |-> tx.attr]
  IN  {<<upsert(featsTableSchema,
                {[address |-> f, audioID |-> tx.audioID, role |-> "co-artist"]
                   : f \in tx.feat \ old}),
         deleteRows(featsTableSchema,
                {[address |-> f, audioID |-> tx.audioID] : f \in old \ tx.feat}),
         upsert(audiosTableSchema, {IF audio = Null THEN params ELSE params @@ audio})>>}

\* Mutant of applyAudioTransfer: a sender without shares stays an owner.
transferKeepsSender(db, tx, txs) ==
  LET rowOf(a) == findOne(db, ownersTableSchema, [audioID |-> tx.audioID, address |-> a])
      recipient == rowOf(tx.recipient)
  IN  IF rowOf(tx.sender) = Null THEN {}
      ELSE {<<upsert(ownersTableSchema, {[rowOf(tx.sender) EXCEPT !.shares = @ - tx.shares]}),
              upsert(ownersTableSchema,
                     {IF recipient # Null
                      THEN [recipient EXCEPT !.shares = @ + tx.shares]
                      ELSE [audioID |-> tx.audioID, address |-> tx.recipient,
                            shares |-> tx.shares]})>>}

applyAudioTransfer(db, tx, txs) ==
  LET rowOf(a) == findOne(db, ownersTableSchema, [audioID |-> tx.audioID, address |-> a])
      sender == rowOf(tx.sender)
      recipient == rowOf(tx.recipient)
      left == sender.shares - tx.shares
  IN  IF sender = Null THEN {}    \* reads shares of undefined
      ELSE {<<IF left = 0
              THEN deleteRows(ownersTableSchema,
                              {[audioID |-> tx.audioID, address |-> tx.sender]})
              ELSE upsert(ownersTableSchema, {[sender EXCEPT !.shares = left]}),
              upsert(ownersTableSchema,
                     {IF recipient # Null
                      THEN [recipient EXCEPT !.shares = @ + tx.shares]
                      ELSE [audioID |-> tx.audioID, address |-> tx.recipient,
                            shares |-> tx.shares]})>>}

\* The event lists the owners of the streamed audio; they are stored under
\* the audio of this transaction.
applyAudioStream(db, tx, txs) ==
  LET event == findEvent(txs, "audio", "stream")
  IN  IF event = Null THEN {}     \* destructures undefined
      ELSE {<<upsert(ownersTableSchema,
                     {[audioID |-> tx.audioID] @@ row : row \in event.streamed})>>}

applyAudioReclaim(db, tx, txs) ==
  LET event == findEvent(txs, "audio", "reclaim")
      audioIDs == IF event = Null THEN {} ELSE event.reclaimed
      rowOf(x) == findOne(db, ownersTableSchema, [audioID |-> x, address |-> tx.sender])
  IN  IF \E x \in audioIDs : rowOf(x) = Null THEN {}   \* reads address of undefined
      ELSE {<<upsert(ownersTableSchema, {[rowOf(x) EXCEPT !.income = 0] : x \in audioIDs})>>}

applyAudioDestroy(db, tx, txs) ==
  {<<deleteRows(audiosTableSchema, {[audioID |-> tx.audioID]}),
     deleteRows(ownersTableSchema, {[audioID |-> tx.audioID]}),
     deleteRows(featsTableSchema, {[audioID |-> tx.audioID]})>>}

audioHook(db, tx, txs) ==
  CASE tx.command = "create" -> applyAudioCreate(db, tx, txs)
    [] tx.command = "setAttributes" -> applyAudioSetAttributes(db, tx, txs)
    [] tx.command = "transfer" -> applyAudioTransfer(db, tx, txs)
    [] tx.command = "stream" -> applyAudioStream(db, tx, txs)
    [] tx.command = "reclaim" -> applyAudioReclaim(db, tx, txs)
    [] tx.command = "destroy" -> applyAudioDestroy(db, tx, txs)

\* Mutant of applyAudio: a failed transaction is processed like any other.
applyAudioWhateverItsResult(db, tx, txs) == audioHook(db, tx, txs)

\* Every audio command first checks the first result of the module.
applyAudio(db, tx, txs) ==
  IF commandExecutedData(txs, "audio") THEN audioHook(db, tx, txs) ELSE Nothing
=============================================================================
