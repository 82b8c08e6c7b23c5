----------------------------- MODULE Statistics -----------------------------
(***************************************************************************)
(* Transaction Statistics: jobs that fetch the transactions of one day     *)
(* from the Indexer, page by page, count them by group (command and range  *)
(* of amounts) and store one row per day and group.  A row is kept under   *)
(* one token: that of the last transaction that was counted.               *)
(*                                                                         *)
(* Time is counted in half days: 2 * d is midnight at the beginning of day *)
(* d, 2 * d + 1 any other time of that day.                                *)
(***************************************************************************)
EXTENDS Integers, Sequences, FiniteSets, SequencesExt, FiniteSetsExt

CONSTANTS
  Group,              \* records [type, range]
  Token,              \* the tokens that transactions name, if any
  LastDay,            \* bound: days
  historyLengthDays,  \* days that are built at the start
  PageSize,           \* transactions per request
  DefaultMaxAmount,   \* transactions that are asked for when none are known of
  MaxTxs,             \* bound: transactions of the chain
  MaxDropped,         \* bound: transactions that a fork drops
  MaxFailures         \* bound: jobs that fail and starts of the service

VARIABLES
  now,            \* half days
  indexedTxs,     \* rows of the Indexer, each with its place in the listing
  forked,         \* groups of transactions that a fork dropped
  statsTable,     \* for each day and group, the count of its row,
  tokenIDs,       \* and the token under which it is kept
  statsQueue,     \* days to build
  build,          \* the job that runs
  settled,        \* history: days whose last build began when they were over
  mishaps

statsVars ==
  <<now, indexedTxs, forked, statsTable, tokenIDs, statsQueue, build, settled, mishaps>>

\* DB_CONSTANT.UNAVAILABLE: what resolveGlobalTokenID makes of no token.
UNAVAILABLE == "na"

\* There are finitely many groups, and a page holds something.
ASSUME StatisticsAssumption ==
  /\ IsFiniteSet(Group) /\ UNAVAILABLE \notin Token
  /\ LastDay \in Nat /\ historyLengthDays \in Nat
  /\ PageSize \in Nat \ {0} /\ DefaultMaxAmount \in Nat

Day == 0..LastDay
today == now \div 2

NoJob == [date |-> -1]

\* The Indexer lists transactions from a day's midnight to the next, both
\* included: one of the very midnight belongs to two days.
ofDay(d) == {tx \in indexedTxs : 2 * d <= tx.at /\ tx.at <= 2 * d + 2}

CountIn(txs, g) == Cardinality({tx \in txs : tx.group = g})
-----------------------------------------------------------------------------
(* The chain and the Indexer.                                              *)

\* No order is asked for: a new row may come first or last in the listing.
NewPlaces ==
  LET used == {tx.place : tx \in indexedTxs}
  IN  IF used = {} THEN {0} ELSE {Min(used) - 1, Max(used) + 1}

NewTransaction(g, token, place) ==
  /\ Cardinality(indexedTxs) + Cardinality(forked) < MaxTxs
  /\ place \in NewPlaces
  /\ indexedTxs' = indexedTxs \cup {[at |-> now, group |-> g, tokenID |-> token,
                                    place |-> place]}
  /\ UNCHANGED <<now, forked, statsTable, tokenIDs, statsQueue, build, settled, mishaps>>

DropTransaction(tx) ==
  /\ Cardinality(forked) < MaxDropped
  /\ tx.at = now
  /\ indexedTxs' = indexedTxs \ {tx}
  /\ forked' = forked \cup {tx.group}
  /\ UNCHANGED <<now, statsTable, tokenIDs, statsQueue, build, settled, mishaps>>

TimePasses ==
  /\ now < 2 * LastDay + 1
  /\ now' = now + 1
  /\ UNCHANGED <<indexedTxs, forked, statsTable, tokenIDs, statsQueue, build, settled, mishaps>>
-----------------------------------------------------------------------------
(* Scheduling.                                                             *)

\* Mutant of fetchTransactionsForPastNDays: today is left for tomorrow.
fetchFromYesterday(n) == [i \in 1..Min({n, today}) |-> today - i]

\* Today and the days before it; with forceReload, as both callers have it,
\* whether or not there are rows of them.
fetchTransactionsForPastNDays(n) == [i \in 1..Min({n, today + 1}) |-> today - (i - 1)]

\* The service is started again; Bull keeps the jobs.
init ==
  /\ mishaps < MaxFailures
  /\ mishaps' = mishaps + 1
  /\ statsQueue' = (IF build = NoJob THEN << >> ELSE <<build.date>>) \o statsQueue
                      \o fetchTransactionsForPastNDays(historyLengthDays)
  /\ build' = NoJob
  /\ UNCHANGED <<now, indexedTxs, forked, statsTable, tokenIDs, settled>>

\* Every half an hour, for today only (bound: not while there are jobs).
updateTodayStats ==
  /\ statsQueue = << >>
  /\ build = NoJob
  /\ statsQueue' = fetchTransactionsForPastNDays(1)
  /\ UNCHANGED <<now, indexedTxs, forked, statsTable, tokenIDs, build, settled, mishaps>>
-----------------------------------------------------------------------------
(* queueJob.                                                               *)

\* fetchTransactions: how many there are, as of now; 0 counts as unknown.
StartJob ==
  /\ build = NoJob
  /\ statsQueue # << >>
  /\ LET d == Head(statsQueue)
         total == Cardinality(ofDay(d))
     IN  build' = [date |-> d, total |-> IF total = 0 THEN DefaultMaxAmount ELSE total,
                   page |-> 0, counts |-> [g \in Group |-> 0],
                   tokens |-> [g \in Group |-> UNAVAILABLE], over |-> now > 2 * d + 2]
  /\ statsQueue' = Tail(statsQueue)
  /\ UNCHANGED <<now, indexedTxs, forked, statsTable, tokenIDs, settled, mishaps>>

\* Mutant of morePages: the last page is left out.
morePagesButOne(b) == b.page = 0 \/ (b.page + 1) * PageSize < b.total

morePages(b) == b.page = 0 \/ b.page * PageSize < b.total

placeIn(txs, tx) == Cardinality({other \in txs : other.place < tx.place})
pageOf(txs, n) ==
  {tx \in txs : PageSize * n <= placeIn(txs, tx) /\ placeIn(txs, tx) < PageSize * (n + 1)}

\* computeTransactionStats: what the transactions of a page add to the counts
\* of those before them; their order does not matter.
countsWith(counts, txs) == [g \in Group |-> counts[g] + CountIn(txs, g)]

\* The token of each group is that of its last transaction.
tokensWith(tokens, txs) ==
  [g \in Group |->
     LET mine == {tx \in txs : tx.group = g}
         last == CHOOSE tx \in mine : \A other \in mine : other.place <= tx.place
     IN  IF mine = {} THEN tokens[g] ELSE last.tokenID]

\* Whole pages up to the total, until one is empty; the total of the first page
\* may lower it.
requestAll ==
  /\ build # NoJob
  /\ morePages(build)
  /\ LET there == ofDay(build.date)
         total == Cardinality(there)
         data == pageOf(there, build.page)
     IN  build' = [build EXCEPT
           !.counts = countsWith(@, data),
           !.tokens = tokensWith(@, data),
           !.page = @ + 1,
           !.total = IF build.page > 0 THEN IF data = {} THEN 0 ELSE @
                     ELSE IF total = 0 \/ total > @ THEN @ ELSE total]
  /\ UNCHANGED <<now, indexedTxs, forked, statsTable, tokenIDs, statsQueue, settled,
                 mishaps>>

\* One row per group with a transaction.  The rows of an earlier build are never
\* removed: the query for them is not awaited, and destructuring its promise throws.
insertToDB ==
  /\ build # NoJob
  /\ ~morePages(build)
  /\ statsTable' = [statsTable EXCEPT ![build.date] =
                      [g \in Group |-> IF build.counts[g] > 0 THEN build.counts[g] ELSE @[g]]]
  /\ tokenIDs' = [tokenIDs EXCEPT ![build.date] =
                    [g \in Group |-> IF build.counts[g] > 0 THEN build.tokens[g] ELSE @[g]]]
  /\ settled' = IF build.over THEN settled \cup {build.date} ELSE settled \ {build.date}
  /\ build' = NoJob
  /\ UNCHANGED <<now, indexedTxs, forked, statsQueue, mishaps>>

\* A request fails or the broker times out; the job is tried again.
FailJob ==
  /\ build # NoJob
  /\ mishaps < MaxFailures
  /\ mishaps' = mishaps + 1
  /\ statsQueue' = <<build.date>> \o statsQueue
  /\ build' = NoJob
  /\ UNCHANGED <<now, indexedTxs, forked, statsTable, tokenIDs, settled>>
-----------------------------------------------------------------------------
(* What the statistics show of a day.                                      *)

\* The sum of the counts: a pair for each transaction that is counted.
totalOf(counts, groups) == Cardinality(UNION {{g} \X (1..counts[g]) : g \in groups})

rowsWith(d) == {g \in Group : statsTable[d][g] > 0}

\* The tokens of all rows; the row "any" of each day makes UNAVAILABLE one of them.
tokensShown == (UNION {{tokenIDs[d][g] : g \in rowsWith(d)} : d \in Day}) \ {UNAVAILABLE}

\* The rows shown under a token: those kept under it, and those under no token.
rowsOfToken(d, token) == {g \in rowsWith(d) : tokenIDs[d][g] \in {token, UNAVAILABLE}}

getStatsTimeline(d) ==
  [token \in tokensShown |-> totalOf(statsTable[d], rowsOfToken(d, token))]

getDistributionByType(d) ==
  [t \in {g.type : g \in rowsWith(d)} |->
     totalOf(statsTable[d], {g \in Group : g.type = t})]

getDistributionByAmount(d) ==
  [token \in tokensShown |->
     [r \in {g.range : g \in rowsOfToken(d, token)} |->
        totalOf(statsTable[d], {g \in rowsOfToken(d, token) : g.range = r})]]

\* The interval of a day.
getTransactionsStatistics(d) ==
  [timeline |-> getStatsTimeline(d),
   distributionByType |-> getDistributionByType(d),
   distributionByAmount |-> getDistributionByAmount(d)]
-----------------------------------------------------------------------------
StatisticsInit ==
  /\ now = 1
  /\ indexedTxs = {}
  /\ forked = {}
  /\ statsTable = [d \in Day |-> [g \in Group |-> 0]]
  /\ tokenIDs = [d \in Day |-> [g \in Group |-> UNAVAILABLE]]
  /\ statsQueue = fetchTransactionsForPastNDays(historyLengthDays)
  /\ build = NoJob
  /\ settled = {}
  /\ mishaps = 0

JobStep == StartJob \/ requestAll \/ insertToDB

StatisticsNext ==
  \/ \E g \in Group, token \in Token \cup {UNAVAILABLE} :
       \E place \in NewPlaces : NewTransaction(g, token, place)
  \/ \E tx \in indexedTxs : DropTransaction(tx)
  \/ TimePasses
  \/ init
  \/ updateTodayStats
  \/ JobStep
  \/ FailJob
-----------------------------------------------------------------------------
\* A day that was built when it was over is counted as it is, although pages
\* were fetched one by one, jobs failed and days overlap at midnight; only
\* groups all of whose transactions a fork dropped may be shown in addition.
\* A row is kept under the token of one of its transactions.
DaysOverAreCounted ==
  \A d \in settled, g \in Group :
    LET mine == {tx \in ofDay(d) : tx.group = g}
    IN  mine # {} \/ g \notin forked =>
          /\ statsTable[d][g] = Cardinality(mine)
          /\ mine # {} => \E tx \in mine : tx.tokenID = tokenIDs[d][g]

\* The groups that a fork may have left rows of, and those whose transactions do
\* not all name the same token: the whole row is shown under one of the tokens.
stale(d) == {g \in forked : CountIn(ofDay(d), g) = 0}
mixed(d) == {g \in Group : \E tx, other \in ofDay(d) :
               tx.group = g /\ other.group = g /\ tx.tokenID # other.tokenID}

\* Such a day is shown as it is, by command; and by token, in the timeline and by
\* amount, when no group mixes tokens: each token has the transactions that
\* name it and those that name none.
DaysOverAreShown ==
  \A d \in settled :
    LET there == ofDay(d)
        shown == getTransactionsStatistics(d)
        with(token) == {tx \in there : tx.tokenID \in {token, UNAVAILABLE}}
    IN  stale(d) = {} =>
          /\ \A t \in {tx.group.type : tx \in there} :
               shown.distributionByType[t] = Cardinality({tx \in there : tx.group.type = t})
          /\ mixed(d) = {} =>
               \A token \in {tx.tokenID : tx \in there} \ {UNAVAILABLE} :
                 /\ shown.timeline[token] = Cardinality(with(token))
                 /\ \A r \in {tx.group.range : tx \in with(token)} :
                      shown.distributionByAmount[token][r]
                        = Cardinality({tx \in with(token) : tx.group.range = r})

\* Transactions that arrive while pages are fetched shift the later ones, so
\* some are counted twice and others not at all, and the groups of a day may
\* add up to more than it has.  Without forks no group by itself does.
NeverOvercounts ==
  forked = {} => \A d \in Day, g \in Group : statsTable[d][g] <= Cardinality(ofDay(d))

\* Once nothing changes any more, the periodic update gets today right.
TodayIsCounted ==
  <>[](forked # {} \/ \A g \in Group : statsTable[today][g] = CountIn(ofDay(today), g))

\* What is kept of a day: of no group more than the day has, and exactly what it
\* has when the day was over, shown by command, and by token where no row mixes
\* tokens (buildTransactionStatistics.js, transactionStatistics.js).
StatisticsRight == DaysOverAreCounted /\ DaysOverAreShown /\ NeverOvercounts
=============================================================================
