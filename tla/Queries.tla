------------------------------ MODULE Queries ------------------------------
(***************************************************************************)
(* The data service and the queries of the App Registry.  An answer is put *)
(* together in several steps, between which the node's chain and the index *)
(* go on: rows are counted, a page of them is found, details are read from *)
(* the tables and blocks, transactions or events from the node.            *)
(*                                                                         *)
(* All tables are seen as one of rows with a key (height, position), a     *)
(* version (the fork it is from), an owner (sender, topic, ...), perhaps a *)
(* counterpart (recipient, another topic, creator, ...) and a flag         *)
(* (locked, connected, default, has shares, ...).  The node has the same   *)
(* rows, and those of the blocks to come may be pending transactions.      *)
(***************************************************************************)
EXTENDS Integers, Sequences, FiniteSets, SequencesExt, FiniteSetsExt

CONSTANTS
  Key, Version,        \* 1..n
  Account,
  Owner, Counterpart,  \* of <<key, version>>
  poolOrder,           \* the order in which the node lists pending transactions
  Flagged,             \* keys of rows whose flag is set
  numNetworks,         \* supported networks of the App Registry
  QueryRequests,       \* requests that are made
  MaxQueries,          \* bound: requests
  MaxChanges           \* bound: changes of the chain, the index and the pool

VARIABLES
  chain,          \* the node's version of each row, 0: none
  rows,           \* the index's
  pool,           \* keys of pending transactions, at the node
  pendingTransactionsList,
  lastBlock,      \* height of the lastBlock key, 0: none
  query,          \* the request in progress, or the last one
  asked, changes

queryVars == <<chain, rows, pool, pendingTransactionsList, lastBlock, query, asked, changes>>

None == "none"
NoTotal == -1
NoID == << >>
NoIdentity == [address |-> None, name |-> None, publicKey |-> None]
NoRequest ==
  [endpoint |-> None, owner |-> None, party |-> None, to |-> 0, height |-> 0, id |-> NoID,
   flagged |-> FALSE, desc |-> FALSE, offset |-> 0, limit |-> 1, identity |-> NoIdentity]
Identified == {"stakers", "stakes", "unlocks", "claimable", "locked", "hasAccount"}
NodeLists ==
  {"stakes", "unlocks", "claimable", "locked", "hasAccount", "balances", "peers", "generators"}
Endpoints ==
  {"collections", "profiles", "subscriptions", "subscriptionsOfMember", "blockchainApps", "audios",
   "audiosOfOwner", "transactions", "pendingAndOther", "blockAssets", "events", "stakers",
   "metaList", "metadata", "tokens", "supportedTokens", "blocks"} \cup NodeLists

\* Addresses and public keys are those of accounts, names need not be.  What asks
\* for an account by its identity has no other owner, the node's lists have no
\* parameter for their order, and blocks have no counterpart.
Requests ==
  {r \in [endpoint : Endpoints, owner : Account \cup {None}, party : Account \cup {None},
          to : Nat, height : Key \cup {0}, id : (Key \X Version) \cup {NoID},
          flagged : BOOLEAN, desc : BOOLEAN, offset : Nat, limit : Nat \ {0},
          identity : [address : Account \cup {None}, name : STRING,
                      publicKey : Account \cup {None}]] :
     /\ r.endpoint \in Identified => r.owner = None
     /\ r.endpoint \in NodeLists => ~r.desc
     /\ r.endpoint = "blocks" => r.party = None}

ASSUME QueriesAssumption ==
  /\ IsFiniteSet(Key) /\ Key = 1..Cardinality(Key)
  /\ Version \subseteq Nat \ {0} /\ 1 \in Version
  /\ Account \subseteq STRING \ {None}
  /\ poolOrder \in Seq(Key) /\ \A k \in Key : \E i \in DOMAIN poolOrder : poolOrder[i] = k
  /\ numNetworks \in Nat \ {0}
  /\ \A r \in QueryRequests : r \in Requests

Item(k, v, info) == [key |-> k, version |-> v, info |-> info]
Page(s, offset, limit) == SubSeq(s, offset + 1, Min({offset + limit, Len(s)}))
-----------------------------------------------------------------------------
(* The query builder: equality, range, order, offset and limit              *)

\* A party is an owner or a counterpart: the "address" of transactions, a topic of events.
Fits(k, v, r) ==
  /\ v # 0
  /\ r.owner # None => Owner[<<k, v>>] = r.owner
  /\ r.party # None => r.party \in {Owner[<<k, v>>], Counterpart[<<k, v>>]}
  /\ r.to # 0 => k <= r.to
  /\ r.height # 0 => k = r.height
  /\ r.id # NoID => <<k, v>> = r.id

matching(table, r) == {k \in Key : Fits(k, table[k], r)}
inOrder(S, desc) ==
  [i \in 1..Cardinality(S) |->
     CHOOSE k \in S : Cardinality({j \in S : IF desc THEN j > k ELSE j < k}) = i - 1]
Rows(table, keys) == [i \in DOMAIN keys |-> Item(keys[i], table[keys[i]], table[keys[i]])]

queryBuilder(table, r, offset, limit) ==
  Rows(table, Page(inOrder(matching(table, r), r.desc), offset, limit))
-----------------------------------------------------------------------------
(* Whom a request is about.  Its identity gives an address, a name or a     *)
(* public key; a name may be unknown to the index.                          *)

byName(id) == IF id.name \in Account THEN id.name ELSE None

\* What is given must agree; else nothing is returned.
stakersOf(id) ==
  LET named == IF id.name # None THEN {byName(id)} ELSE {}
      keyed == IF id.publicKey # None THEN {id.publicKey} ELSE {}
      addressed == IF id.address # None THEN {id.address} ELSE {}
      all == named \cup keyed \cup addressed
  IN  IF Cardinality(all) = 1 THEN CHOOSE a \in all : TRUE ELSE None

\* The address first, then the name, then the public key.
addressFirst(id) ==
  IF id.address # None THEN id.address
  ELSE IF byName(id) # None THEN byName(id) ELSE id.publicKey

\* The public key overrides the name, which overrides the address, also when
\* it is unknown.
unlocksOf(id) ==
  IF id.publicKey # None THEN id.publicKey
  ELSE IF id.name # None THEN byName(id) ELSE id.address

accountOf(r) ==
  CASE r.endpoint = "stakers" -> stakersOf(r.identity)
    [] r.endpoint = "unlocks" -> unlocksOf(r.identity)
    [] OTHER -> addressFirst(r.identity)
-----------------------------------------------------------------------------
(* The endpoints: the steps that answer a request                           *)

getCollections == <<"count", "find">>
getProfiles == <<"count", "find", "details">>
getSubscriptionsBySubscriptionIdOrCreatorAddress == <<"count", "find", "details">>
getActiveSubscriptionsByMemberAddress == <<"findMember", "findSubscription">>
getBlockchainApps == <<"count", "find">>
getAudios == <<"find", "details", "countPage">>
getAudiosOfOwner == <<"findOwned", "findAudios", "details", "countPage">>
getTransactions == <<"count", "find", "getTransactionsByIDs">>
mergeTransactions == <<"getPending", "count", "find", "getTransactionsByIDs", "merge">>

isIncludePendingTransactions(r) == r.endpoint = "pendingAndOther"
transactionsSteps(r) ==
  IF isIncludePendingTransactions(r) THEN mergeTransactions ELSE getTransactions

getBlocksAssets == <<"count", "find", "getBlockByIDs">>
getEvents == <<"findBlock", "find", "getEventsByHeight", "count">>
getStakers == <<"identify", "find", "details", "count">>
getStakes == <<"identify", "listAll">>
getPosUnlocks == <<"identify", "listFlagged">>
getPosClaimableRewards == <<"identify", "list">>
getPosLockedRewards == <<"identify", "listFirst">>
tokenHasUserAccount == <<"identify", "listFirst">>
getTokenBalances == <<"list">>
getNetworkPeers == <<"listPeers">>
getGenerators == <<"listGenerators">>
getBlockchainAppsMetaList == <<"findDefaults", "findOthers", "slice", "count">>
getBlockchainAppsMetadata == <<"findDefaults", "findOthers", "details", "count">>
getBlockchainAppsTokenMetadata == <<"find", "allOfChains", "count">>

\* What the service of a chain says of the tokens it supports.  When these are
\* all of them, there is no list, and what says so is a property that nobody reads.
getTokenSummary(r) == IF r.flagged THEN {} ELSE Key
getTokensMetaByTokenIDs(tokens) ==
  IF tokens = {} THEN <<"countPage">> ELSE <<"find", "count", "allOfEntries">>
getBlockchainAppsTokensSupportedMetadata(r) == getTokensMetaByTokenIDs(getTokenSummary(r))

\* A block that is asked for by its ID or height alone, and the last one, come
\* from the node.
isDirectQuery(r) ==
  /\ (r.id # NoID) # (r.height # 0)
  /\ r.owner = None /\ r.to = 0
isLatestBlockFetch(r) ==
  /\ r.id = NoID /\ r.height = 0 /\ r.owner = None /\ r.to = 0
  /\ r.limit = 1 /\ r.offset = 0 /\ r.desc
isQueryFromIndex(r) == ~isDirectQuery(r) /\ ~isLatestBlockFetch(r)

getBlocks(r) ==
  IF isQueryFromIndex(r) THEN <<"count", "find", "getBlocksByIDs", "setLastBlock">>
  ELSE <<"count", "getBlock", "setLastBlock">>

Steps(r) ==
  CASE r.endpoint = "collections" -> getCollections
    [] r.endpoint = "profiles" -> getProfiles
    [] r.endpoint = "subscriptions" -> getSubscriptionsBySubscriptionIdOrCreatorAddress
    [] r.endpoint = "subscriptionsOfMember" -> getActiveSubscriptionsByMemberAddress
    [] r.endpoint = "blockchainApps" -> getBlockchainApps
    [] r.endpoint = "audios" -> getAudios
    [] r.endpoint = "audiosOfOwner" -> getAudiosOfOwner
    [] r.endpoint \in {"transactions", "pendingAndOther"} -> transactionsSteps(r)
    [] r.endpoint = "blockAssets" -> getBlocksAssets
    [] r.endpoint = "events" -> getEvents
    [] r.endpoint = "stakers" -> getStakers
    [] r.endpoint = "stakes" -> getStakes
    [] r.endpoint = "unlocks" -> getPosUnlocks
    [] r.endpoint = "claimable" -> getPosClaimableRewards
    [] r.endpoint = "locked" -> getPosLockedRewards
    [] r.endpoint = "hasAccount" -> tokenHasUserAccount
    [] r.endpoint = "balances" -> getTokenBalances
    [] r.endpoint = "peers" -> getNetworkPeers
    [] r.endpoint = "generators" -> getGenerators
    [] r.endpoint = "metaList" -> getBlockchainAppsMetaList
    [] r.endpoint = "metadata" -> getBlockchainAppsMetadata
    [] r.endpoint = "tokens" -> getBlockchainAppsTokenMetadata
    [] r.endpoint = "supportedTokens" -> getBlockchainAppsTokensSupportedMetadata(r)
    [] r.endpoint = "blocks" -> getBlocks(r)

\* What is left of a request.  Of audios that are asked for by their owner, and of
\* subscriptions that are by a member, nothing else is looked at.  Of the topics of
\* events, the sender takes the place of the transaction.
params(r) ==
  IF r.endpoint \in {"audiosOfOwner", "subscriptionsOfMember"}
  THEN [NoRequest EXCEPT !.endpoint = r.endpoint, !.owner = r.owner, !.limit = r.limit]
  ELSE IF r.endpoint = "events" /\ r.owner # None THEN [r EXCEPT !.party = None] ELSE r
-----------------------------------------------------------------------------
(* Steps.  Each takes the query on; "seen" collects the rows that fitted at *)
(* some time during the query, "quiet" is whether index and node agreed and *)
(* nothing changed.                                                         *)

Seen(ch, rw, r) ==
  {<<k, rw[k]>> : k \in matching(rw, r)} \cup {<<k, ch[k]>> : k \in matching(ch, r)}

AtStep(step) == query.status = "running" /\ query.steps # << >> /\ Head(query.steps) = step
QueryUnchanged == UNCHANGED <<chain, rows, pool, pendingTransactionsList, lastBlock, asked, changes>>
Advance(q) == [q EXCEPT !.steps = Tail(@), !.status = IF Len(q.steps) = 1 THEN "answered" ELSE @]
Fail(q) == [q EXCEPT !.steps = << >>, !.status = "failed"]

\* The request as it was given, and what is left of it.
NewQuery(given, r) ==
  [given |-> given, request |-> r, steps |-> << >>, status |-> "idle", total |-> NoTotal, offset |-> r.offset,
   limit |-> r.limit, data |-> << >>, pending |-> << >>, pendingTotal |-> 0, about |-> r.owner,
   seen |-> {}, quiet |-> FALSE]

Ask(given) ==
  LET r == params(given)
  IN  /\ query.status # "running" /\ asked < MaxQueries
      /\ asked' = asked + 1
      /\ query' = [NewQuery(given, r) EXCEPT
           !.steps = Steps(r), !.status = "running", !.seen = Seen(chain, rows, r),
           !.quiet = (rows = chain /\ pendingTransactionsList = pool)]
      /\ UNCHANGED <<chain, rows, pool, pendingTransactionsList, lastBlock, changes>>

identify ==
  LET r == query.request
      a == accountOf(r)
      known == [Advance(query) EXCEPT !.about = a, !.request.owner = a,
                                      !.seen = Seen(chain, rows, [r EXCEPT !.owner = a])]
  IN  /\ AtStep("identify")
      /\ query' = IF a # None THEN known
                  ELSE IF r.endpoint \in {"stakes", "unlocks"} THEN Fail(query)
                  ELSE [Advance(query) EXCEPT !.steps = << >>, !.status = "answered"]
      /\ QueryUnchanged

countRows ==
  /\ AtStep("count")
  /\ query' = [Advance(query) EXCEPT !.total = Cardinality(matching(rows, query.request))]
  /\ QueryUnchanged

findRows ==
  /\ AtStep("find")
  /\ query' = [Advance(query) EXCEPT
       !.data = queryBuilder(rows, query.request, query.offset, query.limit)]
  /\ QueryUnchanged

\* Rows that belong to the rows found, and the row of a block's height, are read
\* later: they may be gone, or another fork's.
findDetails ==
  /\ AtStep("details")
  /\ query' = [Advance(query) EXCEPT
       !.data = [i \in DOMAIN @ |-> Item(@[i].key, @[i].version, rows[@[i].key])]]
  /\ QueryUnchanged

\* The audios of an owner, in no particular order: owners without shares count for
\* the limit.
findOwned ==
  LET owned == matching(rows, query.request)
  IN  /\ AtStep("findOwned")
      /\ \E found \in SUBSET owned :
           /\ Cardinality(found) = Min({query.limit, Cardinality(owned)})
           /\ query' = [Advance(query) EXCEPT !.data = Rows(rows, inOrder(found \cap Flagged, FALSE))]
      /\ QueryUnchanged

isIndexed(x) == rows[x.key] = x.version

\* They are read by their IDs; one that is gone fails the request.
findAudios ==
  /\ AtStep("findAudios")
  /\ query' = IF \A i \in DOMAIN query.data : isIndexed(query.data[i])
              THEN Advance(query) ELSE Fail(query)
  /\ QueryUnchanged

countPage ==
  /\ AtStep("countPage")
  /\ query' = [Advance(query) EXCEPT !.total = Len(query.data)]
  /\ QueryUnchanged

\* Any membership of the member, and its subscription, by the ID.  The total is one
\* whether or not it is found, unless there is no membership.
findMember ==
  LET memberships == matching(rows, query.request)
  IN  /\ AtStep("findMember")
      /\ \/ /\ memberships = {}
            /\ query' = [Advance(query) EXCEPT !.total = 0]
         \/ \E k \in memberships :
              query' = [Advance(query) EXCEPT !.data = Rows(rows, <<k>>), !.total = 1]
      /\ QueryUnchanged

findSubscription ==
  /\ AtStep("findSubscription")
  /\ query' = [Advance(query) EXCEPT
       !.data = IF \A i \in DOMAIN @ : isIndexed(@[i]) THEN @ ELSE << >>]
  /\ QueryUnchanged

\* The height of a block takes the place of its ID.  A block that is unknown fails the
\* request, and so does a height besides: it is a string, and never equal to a number.
findBlock ==
  LET r == query.request
      byHeight == [r EXCEPT !.id = NoID, !.height = r.id[1]]
  IN  /\ AtStep("findBlock")
      /\ query' = IF r.id = NoID THEN Advance(query)
                  ELSE IF rows[r.id[1]] = r.id[2] /\ r.height = 0
                  THEN [Advance(query) EXCEPT !.request = byHeight, !.seen = Seen(chain, rows, byHeight)]
                  ELSE Fail(query)
      /\ QueryUnchanged
-----------------------------------------------------------------------------
(* Reads from the node                                                      *)

onChain(x) == chain[x.key] = x.version

\* numberOfEvents and reward come from the row of the height, or from the events.
normalizeBlock(k, v) == Item(k, v, IF rows[k] # 0 THEN rows[k] ELSE chain[k])

\* Mutant of getBlocksByIDs: blocks are asked for by height.
getBlocksByHeights ==
  /\ AtStep("getBlocksByIDs")
  /\ query' = [Advance(query) EXCEPT
       !.data = [i \in DOMAIN @ |-> normalizeBlock(@[i].key, chain[@[i].key])],
       !.total = IF query.data = << >> THEN NoTotal ELSE @]
  /\ QueryUnchanged

\* A block that does not exist makes the page empty, not the request fail.
getBlocksByIDs ==
  /\ AtStep("getBlocksByIDs")
  /\ query' = [Advance(query) EXCEPT
       !.data = IF \A i \in DOMAIN @ : onChain(@[i])
                THEN [i \in DOMAIN @ |-> normalizeBlock(@[i].key, @[i].version)] ELSE << >>,
       !.total = IF query.data = << >> THEN NoTotal ELSE @]
  /\ QueryUnchanged

getBlock ==
  LET r == query.request
      tip == Max({k \in Key : chain[k] # 0} \cup {0})
      k == IF r.id # NoID THEN r.id[1] ELSE IF r.height # 0 THEN r.height ELSE tip
      exists == k # 0 /\ chain[k] # 0 /\ (r.id # NoID => r.id[2] = chain[k])
      block == IF exists THEN <<normalizeBlock(k, chain[k])>> ELSE << >>
  IN  /\ AtStep("getBlock")
      /\ query' = [Advance(query) EXCEPT
           !.data = IF isLatestBlockFetch(r) THEN block ELSE Page(block, r.offset, r.limit)]
      /\ QueryUnchanged

\* Every block that is returned becomes the last block; the total is made of it.
setLastBlock ==
  LET r == query.request
      last == IF query.data = << >> THEN lastBlock ELSE query.data[Len(query.data)].key
  IN  /\ AtStep("setLastBlock")
      /\ lastBlock' = last
      /\ query' = [Advance(query) EXCEPT
           !.total = IF r.owner # None THEN @
                     ELSE IF r.id # NoID \/ r.height # 0 THEN Len(query.data)
                     ELSE IF r.to # 0 THEN @ ELSE last]
      /\ UNCHANGED <<chain, rows, pool, pendingTransactionsList, asked, changes>>

\* A transaction that does not exist fails the request, unless there are pending
\* ones to return.  One that is not indexed is asked for by its ID.
getTransactionsByIDs ==
  LET r == query.request
      failed == IF query.pending # << >>
                THEN [Advance(query) EXCEPT !.data = << >>, !.total = 0] ELSE Fail(query)
  IN  /\ AtStep("getTransactionsByIDs")
      /\ query' =
           IF query.data = << >> /\ r.id # NoID
           THEN IF chain[r.id[1]] = r.id[2]
                THEN [Advance(query) EXCEPT
                  !.data = Page(<<Item(r.id[1], r.id[2], 0)>>, query.offset, query.limit)]
                ELSE failed
           ELSE IF \A i \in DOMAIN query.data : onChain(query.data[i])
                THEN Advance(query) ELSE failed
      /\ QueryUnchanged

\* One request for each block: one that fails fails all.
getBlockByIDs ==
  /\ AtStep("getBlockByIDs")
  /\ query' = IF \A i \in DOMAIN query.data : onChain(query.data[i])
              THEN Advance(query) ELSE Fail(query)
  /\ QueryUnchanged

\* Events are taken from the cache or the node, by their position in the height,
\* and their block from the index, by the height.
getEventsByHeight ==
  /\ AtStep("getEventsByHeight")
  /\ \E cached \in SUBSET DOMAIN query.data :
       query' = [Advance(query) EXCEPT
         !.data = [i \in DOMAIN @ |->
           Item(@[i].key, IF i \in cached THEN @[i].version ELSE chain[@[i].key], rows[@[i].key])]]
  /\ QueryUnchanged
-----------------------------------------------------------------------------
(* Lists that the node returns as a whole                                   *)

nodeList == Rows(chain, inOrder(matching(chain, query.request), FALSE))
flaggedList == Rows(chain, inOrder(matching(chain, query.request) \cap Flagged, FALSE))
filteredList == IF query.request.flagged THEN flaggedList ELSE nodeList

AnswerList(step, s, total) ==
  /\ AtStep(step)
  /\ query' = [Advance(query) EXCEPT !.data = Page(s, query.offset, query.limit), !.total = total]
  /\ QueryUnchanged

list == AnswerList("list", nodeList, Len(nodeList))
listFlagged == AnswerList("listFlagged", filteredList, Len(filteredList))
listFirst == AnswerList("listFirst", Page(nodeList, 0, 1), Len(Page(nodeList, 0, 1)))
listPeers == AnswerList("listPeers", filteredList, Len(nodeList))
listGenerators == AnswerList("listGenerators", flaggedList, Len(nodeList))
listAll ==
  /\ AtStep("listAll")
  /\ query' = [Advance(query) EXCEPT !.data = filteredList]
  /\ QueryUnchanged
-----------------------------------------------------------------------------
(* The App Registry                                                         *)

\* Apps are found by default or not, with a limit for every network.
findApps(default) ==
  LET keys == inOrder({k \in matching(rows, query.request) : (k \in Flagged) = default},
                      query.request.desc)
  IN  Rows(rows, Page(keys, query.offset, query.limit * numNetworks))

findDefaults ==
  /\ AtStep("findDefaults")
  /\ query' = [Advance(query) EXCEPT !.data = findApps(TRUE)]
  /\ QueryUnchanged

\* With enough default apps the list stays empty.
findOthers ==
  /\ AtStep("findOthers")
  /\ query' = [Advance(query) EXCEPT
       !.data = IF Len(@) < query.limit THEN @ \o findApps(FALSE)
                ELSE IF query.request.endpoint = "metaList" THEN << >> ELSE @]
  /\ QueryUnchanged

slice ==
  /\ AtStep("slice")
  /\ query' = [Advance(query) EXCEPT !.data = Page(@, query.offset, query.limit)]
  /\ QueryUnchanged

\* The file of a chain has all its tokens.
tokensOf(x) ==
  Rows(rows, inOrder({k \in Key : rows[k] # 0 /\ Owner[<<k, rows[k]>>] = Owner[<<x.key, x.version>>]}, FALSE))

\* The last entry of each chain stands for it.
allOfChains ==
  LET ownerOf(x) == Owner[<<x.key, x.version>>]
      chains == inOrder({i \in DOMAIN query.data : \A y \in Range(query.data) :
                  ownerOf(y) = ownerOf(query.data[i]) => y.key <= query.data[i].key}, FALSE)
  IN  /\ AtStep("allOfChains")
      /\ query' = [Advance(query) EXCEPT
           !.data = FlattenSeq([i \in DOMAIN chains |-> tokensOf(@[chains[i]])])]
      /\ QueryUnchanged

\* The tokens of a chain are returned once for each of them that is on the page.
allOfEntries ==
  /\ AtStep("allOfEntries")
  /\ query' = [Advance(query) EXCEPT !.data = FlattenSeq([i \in DOMAIN @ |-> tokensOf(@[i])])]
  /\ QueryUnchanged
-----------------------------------------------------------------------------
(* Pending transactions                                                     *)

\* Neither the range nor the height of the request counts for them, and a party has to
\* be both the sender and the recipient.
pendingOf(keys, r) ==
  {k \in keys : /\ r.owner # None => Owner[<<k, 1>>] = r.owner
                /\ r.party # None => {Owner[<<k, 1>>], Counterpart[<<k, 1>>]} = {r.party}
                /\ r.id # NoID => <<k, 1>> = r.id}

\* They have no height and no timestamp, so they stay in the order of the pool.
inPoolOrder(keys) ==
  LET places == inOrder({i \in DOMAIN poolOrder : poolOrder[i] \in keys}, FALSE)
  IN  [i \in DOMAIN places |-> poolOrder[places[i]]]

\* The others' limit and offset are what these leave of the request's.
getPending ==
  LET r == query.request
      pending == inPoolOrder(pendingOf(pendingTransactionsList, r))
      page == Page(pending, r.offset, r.limit)
  IN  /\ AtStep("getPending")
      /\ query' = [Advance(query) EXCEPT
           !.pending = [i \in DOMAIN page |-> Item(page[i], 1, 0)],
           !.pendingTotal = Len(pending),
           !.limit = Max({1, r.limit - (Len(pending) - Len(page))}),
           !.offset = Max({0, r.offset - Len(pending)})]
      /\ QueryUnchanged

\* Mutant of merge: pending transactions do not count.
mergeUncounted ==
  LET r == query.request
  IN  /\ AtStep("merge")
      /\ query' = [Advance(query) EXCEPT !.data = Page(query.pending \o @, 0, r.limit)]
      /\ QueryUnchanged

merge ==
  LET r == query.request
  IN  /\ AtStep("merge")
      /\ query' = [Advance(query) EXCEPT
           !.data = IF Len(query.pending) = r.limit THEN query.pending
                    ELSE Page(query.pending \o @, 0, r.limit),
           !.total = @ + query.pendingTotal]
      /\ QueryUnchanged
-----------------------------------------------------------------------------
(* What goes on meanwhile                                                   *)

Disturb ==
  /\ changes < MaxChanges /\ changes' = changes + 1
  /\ asked < MaxQueries \/ query.status = "running"
  /\ query' = [query EXCEPT !.quiet = FALSE,
                            !.seen = @ \cup Seen(chain', rows', query.request)]
  /\ UNCHANGED asked

heightOf(ch) == Max({k \in Key : ch[k] # 0} \cup {0})

\* The node: a block is added with the transaction that was pending, or removed.
NodeAdds(v) ==
  LET k == heightOf(chain) + 1
  IN  /\ k \in Key
      /\ chain' = [chain EXCEPT ![k] = v] /\ pool' = pool \ {k}
      /\ UNCHANGED <<rows, pendingTransactionsList, lastBlock>>
      /\ Disturb
NodeRemoves ==
  /\ heightOf(chain) > 1
  /\ chain' = [chain EXCEPT ![heightOf(chain)] = 0]
  /\ UNCHANGED <<rows, pool, pendingTransactionsList, lastBlock>>
  /\ Disturb
NodeReceives(k) ==
  /\ k > heightOf(chain) /\ pool' = pool \cup {k}
  /\ UNCHANGED <<chain, rows, pendingTransactionsList, lastBlock>>
  /\ Disturb

\* The indexer follows.
newBlockProcessor(k) ==
  /\ chain[k] # 0 /\ rows[k] # chain[k]
  /\ rows' = [rows EXCEPT ![k] = chain[k]] /\ lastBlock' = k
  /\ UNCHANGED <<chain, pool, pendingTransactionsList>>
  /\ Disturb
deleteBlockProcessor(k) ==
  /\ rows[k] # 0 /\ rows[k] # chain[k]
  /\ rows' = [rows EXCEPT ![k] = 0]
  /\ UNCHANGED <<chain, pool, pendingTransactionsList, lastBlock>>
  /\ Disturb
loadAllPendingTransactions ==
  /\ pendingTransactionsList # pool /\ pendingTransactionsList' = pool
  /\ UNCHANGED <<chain, rows, pool, lastBlock>>
  /\ Disturb
-----------------------------------------------------------------------------
\* A chain from its genesis block on that is indexed, and perhaps pending transactions.
QueryInit ==
  /\ \E n \in 1..Cardinality(Key) :
       /\ chain = [k \in Key |-> IF k <= n THEN 1 ELSE 0]
       /\ lastBlock = n
       /\ pool \in SUBSET {k \in Key : k > n}
  /\ rows = chain /\ pendingTransactionsList = pool
  /\ query = NewQuery(NoRequest, NoRequest)
  /\ asked = 0 /\ changes = 0

QueryStep ==
  \/ identify \/ countRows \/ findRows \/ findDetails \/ findOwned \/ findAudios \/ countPage
  \/ findMember \/ findSubscription \/ findBlock
  \/ getBlocksByIDs \/ getBlock \/ setLastBlock \/ getTransactionsByIDs \/ getBlockByIDs
  \/ getEventsByHeight \/ list \/ listFlagged \/ listFirst \/ listPeers \/ listGenerators
  \/ listAll \/ findDefaults \/ findOthers \/ slice \/ allOfChains \/ allOfEntries
  \/ getPending \/ merge

QueryNext ==
  \/ query.status # "running" /\ \E r \in QueryRequests : Ask(r)
  \/ QueryStep
  \/ \E v \in Version : NodeAdds(v)
  \/ NodeRemoves
  \/ \E k \in Key : NodeReceives(k) \/ newBlockProcessor(k) \/ deleteBlockProcessor(k)
  \/ loadAllPendingTransactions
-----------------------------------------------------------------------------
Keys(s) == [i \in DOMAIN s |-> s[i].key]
\* What was asked for: of events, as it was given.
Sought == IF query.request.endpoint = "events" THEN query.given ELSE query.request
Wanted == inOrder(matching(chain, Sought), Sought.desc)
Answered(endpoints) == query.status = "answered" /\ query.request.endpoint \in endpoints
\* The transaction of the ID asked for exists, and does not fit the rest of the request.
UnfitByID ==
  LET r == query.request
  IN  r.id # NoID /\ chain[r.id[1]] = r.id[2] /\ Wanted = << >>

\* While nothing changes, a page holds the rows of its place among those asked for,
\* with details that are theirs, and the total is their number.  Known to be
\* different: the total of audios is that of the page, that of blocks without a
\* filter is made of the last block returned, a transaction that is asked for by its
\* ID is returned whether or not it fits the rest of the request, and events of a
\* sender and a transaction are those of the sender.
QuietPagesExact ==
  Answered({"collections", "profiles", "subscriptions", "blockchainApps", "audios", "transactions",
            "blockAssets", "events", "stakers", "claimable", "balances", "blocks"})
  /\ query.quiet
  /\ (query.request.endpoint \in Identified => query.about # None)
  /\ ~(query.request.endpoint = "transactions" /\ UnfitByID)
  /\ ~(query.request.endpoint = "events" /\ query.given.owner # None /\ query.given.party # None) =>
    LET r == query.request
    IN  /\ Keys(query.data) = Page(Wanted, r.offset, r.limit)
        /\ \A x \in Range(query.data) : x.version = chain[x.key] /\ x.info = x.version
        /\ \/ query.total = Len(Wanted)
           \/ query.total = NoTotal /\ query.data = << >>
           \/ r.endpoint = "audios"
           \/ r.endpoint = "blocks" /\ (r.id # NoID \/ r.height # 0) /\ query.data = << >>
           \/ r.endpoint = "blocks" /\ r.owner = None /\ r.to = 0 /\ ~isLatestBlockFetch(r)

\* The transactions of a request, pending ones first, in the pool's order.
PendingWanted(r) ==
  {k \in pool : /\ r.owner # None => Owner[<<k, 1>>] = r.owner
                /\ r.party # None => r.party \in {Owner[<<k, 1>>], Counterpart[<<k, 1>>]}
                /\ r.id # NoID => <<k, 1>> = r.id}
WithItself(r) == {k \in Key : Owner[<<k, 1>>] = r.party /\ Counterpart[<<k, 1>>] = r.party}
AllWanted(r) ==
  inPoolOrder(IF r.party = None THEN PendingWanted(r) ELSE PendingWanted(r) \cap WithItself(r)) \o Wanted

\* The first page of pending and other transactions is complete and the total is
\* right.  Known to be different: of a party's pending transactions only those with
\* itself are found, and later pages leave out transactions, as the limit is reduced
\* by what the offset skipped already.
QuietMergeExact ==
  Answered({"pendingAndOther"}) /\ query.quiet /\ ~UnfitByID =>
    LET r == query.request
        all == AllWanted(r)
    IN  /\ query.total = Len(all)
        /\ r.offset = 0 => Keys(query.data) = Page(all, 0, r.limit)
        /\ Range(Keys(query.data)) \subseteq Range(Page(all, r.offset, r.limit))

\* The App Registry's first pages: of the list, unless there are as many default
\* apps as asked for, and at least the apps and the tokens asked for otherwise.
\* Of a chain that supports all tokens, none is returned.
QuietMetadataComplete ==
  Answered({"metaList", "metadata", "tokens", "supportedTokens"}) /\ query.quiet
  /\ ~(query.request.endpoint = "supportedTokens" /\ query.request.flagged) =>
    LET r == query.request
        defaults == inOrder(matching(chain, r) \cap Flagged, r.desc)
        all == defaults \o inOrder(matching(chain, r) \ Flagged, r.desc)
        first == Range(Page(all, 0, r.limit))
    IN  /\ query.total = Len(Wanted)
        /\ r.endpoint = "metaList" /\ r.offset = 0 /\ Len(defaults) < r.limit =>
             Keys(query.data) = Page(all, 0, r.limit)
        /\ r.endpoint = "metadata" /\ r.offset = 0 => first \subseteq Range(Keys(query.data))
        /\ r.endpoint \in {"tokens", "supportedTokens"} =>
             Range(Page(Wanted, r.offset, r.limit)) \subseteq Range(Keys(query.data))

\* A pending transaction, which has no block, is one that the request asked for.
FitsPending(x, r) ==
  /\ x.version = 1 /\ x.info = 0
  /\ r.owner # None => Owner[<<x.key, 1>>] = r.owner
  /\ r.party # None => r.party \in {Owner[<<x.key, 1>>], Counterpart[<<x.key, 1>>]}
  /\ r.id # NoID => <<x.key, 1>> = r.id

\* Whatever happens while a request is answered, nothing is returned that did not
\* fit it at some time: a page is by ID from the index to the node, and pending
\* transactions are looked for like others.  Events are not by ID, but by height.
\* The transaction of the ID asked for need not fit the rest of the request, and
\* audios of an owner and subscriptions of a member are found by these alone.
NothingForeign ==
  query.status = "answered" /\ query.request.endpoint \notin {"events", "tokens", "supportedTokens"} =>
    \A x \in Range(query.data) :
      \/ <<x.key, x.version>> \in query.seen
      \/ query.request.endpoint = "pendingAndOther" /\ FitsPending(x, query.request)
      \/ /\ query.request.endpoint \in {"transactions", "pendingAndOther"}
         /\ <<x.key, x.version>> = query.request.id

\* An answer is about an account that the request names, stakers only about all
\* it names, and a request that names one known account is answered about it.
IdentityRespected ==
  Answered(Identified) =>
    LET id == query.request.identity
        named == {a \in {id.address, id.publicKey, id.name} : a \in Account}
    IN  /\ query.about # None => query.about \in named
        /\ query.about = None => query.data = << >>
        /\ query.request.endpoint = "stakers" /\ query.about # None => named = {query.about}
        /\ id.name \in Account \cup {None} /\ Cardinality(named) = 1 => query.about # None

\* Queries: as long as nothing changes, every page is the one asked for.
QuietAnswersExact == QuietPagesExact /\ QuietMergeExact /\ QuietMetadataComplete

\* Queries: whatever changes between the reads of the index and of the node,
\* nothing is returned that the request did not ask for.
AnswersFit == NothingForeign /\ IdentityRespected
=============================================================================
