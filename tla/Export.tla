------------------------------- MODULE Export -------------------------------
(***************************************************************************)
(* The Export service: jobs that write the transactions of an account and  *)
(* an interval of days to a CSV file.  Days that are over are cached, in a *)
(* file of their own or by a flag that says that there are none, and kept  *)
(* for the retention period.                                               *)
(*                                                                         *)
(* One account; a transaction is known by its kind and its day.            *)
(***************************************************************************)
EXTENDS Integers, Sequences, FiniteSets, SequencesExt

CONSTANTS
  Kinds,                 \* bound: the kinds of the account's transactions, in order
  LastExportDay,               \* bound: days
  Interval,              \* requested intervals <<from, to>>, or <<from, Open>>
  Worker,                \* jobs that run at the same time
  retentionInDays,       \* of both caches
  MAX_NUM_TRANSACTIONS,  \* that are exported of one day
  MaxRequests,           \* bound: scheduled jobs
  Attempts               \* attempts of a job

VARIABLES
  getToday,
  driver,                \* of the caches, "filesystem" or "s3-minio"
  account,               \* for each day, its transactions
  partials,              \* for each day, its file
  partialWrites,         \* files being written, which nobody waits for
  noTransactionsCache,   \* for each day, the flag
  staticFiles,           \* for each interval, its CSV file
  exportQueue,           \* scheduled jobs
  exportJob,             \* for each worker, its job
  requests

exportVars == <<getToday, driver, account, partials, partialWrites,
                noTransactionsCache, staticFiles, exportQueue, exportJob, requests>>

ExportDay == 0..LastExportDay
Open == -1
NoFile == [whole |-> FALSE, created |-> Open]
NoFlag == [at |-> Open]
IdleWorker == [pc |-> "idle"]
FileName == {n \in ExportDay \X ExportDay : n[1] <= n[2]}

ASSUME ExportAssumption == LastExportDay \in Nat /\ MAX_NUM_TRANSACTIONS \in Nat \ {0}
-----------------------------------------------------------------------------
(* The statement.                                                          *)

exportedAmount == 3
exportedFee == 1

checkIfSelfTokenTransfer(tx) == tx.kind = "self"

normalizeTransactionAmount(tx) ==
  CASE tx.kind = "other" -> 0
    [] tx.kind \in {"reclaim", "receive"} \/ tx.credit -> exportedAmount
    [] OTHER -> 0 - exportedAmount

\* The account pays no fee as the recipient, also when it is the sender.
normalizeTransactionFee(tx) == IF tx.kind \in {"receive", "self"} THEN 0 ELSE exportedFee

normalizeTransaction(tx) ==
  [day |-> tx.day, amount |-> normalizeTransactionAmount(tx), fee |-> normalizeTransactionFee(tx)]

\* forEach visits as many places as there were at first, while each transfer
\* to itself that it meets inserts its credit at the next place: the last
\* transactions may not be visited.
transactionsToCSV(txs) ==
  LET duplicate(arr, i) ==
        IF checkIfSelfTokenTransfer(arr[i]) /\ ~arr[i].credit
        THEN InsertAt(arr, i + 1, [arr[i] EXCEPT !.credit = TRUE]) ELSE arr
      all == FoldLeftDomain(duplicate, txs, txs)
  IN  [i \in DOMAIN all |-> normalizeTransaction(all[i])]
-----------------------------------------------------------------------------
(* The account and the time.                                               *)

NewAccountTransaction ==
  LET n == Len(FlattenSeq([i \in 1..(LastExportDay + 1) |-> account[i - 1]])) + 1
  IN  /\ n <= Len(Kinds)
      /\ account' = [account EXCEPT ![getToday] =
                       Append(@, [kind |-> Kinds[n], day |-> getToday, credit |-> FALSE])]
      /\ UNCHANGED <<getToday, driver, partials, partialWrites, noTransactionsCache,
                     staticFiles, exportQueue, exportJob, requests>>

Midnight ==
  /\ getToday < LastExportDay
  /\ getToday' = getToday + 1
  /\ UNCHANGED <<driver, account, partials, partialWrites, noTransactionsCache,
                 staticFiles, exportQueue, exportJob, requests>>

isExpired(day) == getToday > day + retentionInDays

\* With either driver, by the time of the last change.
AfterPurge(file) == IF file # NoFile /\ isExpired(file.created) THEN NoFile ELSE file

\* job.purge.cache; the flags expire by themselves.
purge ==
  /\ \/ \E d \in ExportDay : AfterPurge(partials[d]) # partials[d]
     \/ \E n \in FileName : AfterPurge(staticFiles[n]) # staticFiles[n]
  /\ partials' = [d \in ExportDay |-> AfterPurge(partials[d])]
  /\ staticFiles' = [n \in FileName |-> AfterPurge(staticFiles[n])]
  /\ UNCHANGED <<getToday, driver, account, partialWrites, noTransactionsCache,
                 exportQueue, exportJob, requests>>
-----------------------------------------------------------------------------
(* Requests.                                                               *)

standardizeIntervalFromParams(p) == IF p[2] = Open THEN <<p[1], getToday>> ELSE p

validateIfAccountHasTransactions == \E d \in ExportDay : account[d] # << >>

\* The export is ready when there is a file of its name.
scheduleTransactionHistoryExport(p) ==
  /\ requests < MaxRequests
  /\ validateIfAccountHasTransactions
  /\ staticFiles[standardizeIntervalFromParams(p)] = NoFile
  /\ exportQueue' = Append(exportQueue, [params |-> p, attempt |-> 1])
  /\ requests' = requests + 1
  /\ UNCHANGED <<getToday, driver, account, partials, partialWrites,
                 noTransactionsCache, staticFiles, exportJob>>

\* A file that ends today is removed when it has been read.
downloadTransactionHistory(name) ==
  /\ staticFiles[name] # NoFile
  /\ name[2] = getToday
  /\ staticFiles' = [staticFiles EXCEPT ![name] = NoFile]
  /\ UNCHANGED <<getToday, driver, account, partials, partialWrites,
                 noTransactionsCache, exportQueue, exportJob, requests>>
-----------------------------------------------------------------------------
(* exportTransactionsCSV.  The field early says that what the job holds,   *)
(* or a file, stems from a day that was cached before it was over.         *)

startExport(w) ==
  /\ exportJob[w] = IdleWorker
  /\ \A v \in Worker : v < w => exportJob[v] # IdleWorker
  /\ exportQueue # << >>
  /\ LET j == Head(exportQueue)
         range == standardizeIntervalFromParams(j.params)
     IN  exportJob' = [exportJob EXCEPT ![w] =
           [pc |-> "day", params |-> j.params, attempt |-> j.attempt, day |-> range[1],
            to |-> range[2], txs |-> << >>, got |-> << >>, began |-> getToday,
            over |-> j.params[2] # Open /\ getToday > range[2], early |-> FALSE]]
  /\ exportQueue' = Tail(exportQueue)
  /\ UNCHANGED <<getToday, driver, account, partials, partialWrites,
                 noTransactionsCache, staticFiles, requests>>

NextDay(job, txs, early) ==
  [job EXCEPT !.txs = @ \o txs, !.early = @ \/ early, !.day = @ + 1,
              !.pc = IF job.day = job.to THEN "name" ELSE "day"]

isFlagged(day) ==
  noTransactionsCache[day] # NoFlag /\ ~isExpired(noTransactionsCache[day].at)

lookUpDay(w) ==
  /\ exportJob[w].pc = "day"
  /\ LET job == exportJob[w]
     IN  \/ /\ partials[job.day] # NoFile
            /\ exportJob' = [exportJob EXCEPT ![w].pc = "read"]
         \/ /\ partials[job.day] = NoFile
            /\ isFlagged(job.day)
            /\ exportJob' = [exportJob EXCEPT ![w] =
                               NextDay(job, << >>, noTransactionsCache[job.day].early)]
  /\ UNCHANGED <<getToday, driver, account, partials, partialWrites,
                 noTransactionsCache, staticFiles, exportQueue, requests>>

\* A whole file that is still there; s3-minio parses it, and JSON.parse of
\* what it returns throws.
isReadable(day) == driver = "filesystem" /\ partials[day].whole

readPartial(w) ==
  /\ exportJob[w].pc = "read"
  /\ isReadable(exportJob[w].day)
  /\ LET file == partials[exportJob[w].day]
     IN  exportJob' = [exportJob EXCEPT ![w] = NextDay(@, file.txs, file.early)]
  /\ UNCHANGED <<getToday, driver, account, partials, partialWrites,
                 noTransactionsCache, staticFiles, exportQueue, requests>>

getTransactionsInAsc(day) ==
  SubSeq(account[day], 1, IF Len(account[day]) > MAX_NUM_TRANSACTIONS
                          THEN MAX_NUM_TRANSACTIONS ELSE Len(account[day]))

fetchDay(w) ==
  /\ exportJob[w].pc = "day"
  /\ partials[exportJob[w].day] = NoFile
  /\ ~isFlagged(exportJob[w].day)
  /\ exportJob' = [exportJob EXCEPT ![w].got = getTransactionsInAsc(exportJob[w].day),
                                   ![w].began = getToday,
                                   ![w].pc = "store"]
  /\ UNCHANGED <<getToday, driver, account, partials, partialWrites,
                 noTransactionsCache, staticFiles, exportQueue, requests>>

\* Mutant of mayCache: today is cached, too.
mayCacheToday(day) == TRUE

mayCache(day) == day # getToday

\* The day is cached unless it is today, as of after the fetch.
storeDay(w) ==
  /\ exportJob[w].pc = "store"
  /\ LET job == exportJob[w]
         early == job.began <= job.day /\ job.day # getToday
     IN  /\ \/ /\ mayCache(job.day)
               /\ job.got # << >>
               /\ partials' = [partials EXCEPT ![job.day] = [whole |-> FALSE, created |-> getToday]]
               /\ partialWrites' = partialWrites \cup
                    {[day |-> job.day, txs |-> job.got, early |-> early]}
               /\ UNCHANGED noTransactionsCache
            \/ /\ mayCache(job.day)
               /\ job.got = << >>
               /\ noTransactionsCache' = [noTransactionsCache EXCEPT ![job.day] =
                                            [at |-> getToday, early |-> early]]
               /\ UNCHANGED <<partials, partialWrites>>
            \/ /\ ~mayCache(job.day)
               /\ UNCHANGED <<partials, partialWrites, noTransactionsCache>>
         /\ exportJob' = [exportJob EXCEPT ![w] =
                            [NextDay(job, job.got, FALSE) EXCEPT !.got = << >>]]
  /\ UNCHANGED <<getToday, driver, account, staticFiles, exportQueue, requests>>

writtenPartial(p) ==
  /\ p \in partialWrites
  /\ partialWrites' = partialWrites \ {p}
  /\ partials' = [partials EXCEPT ![p.day] =
       [whole |-> TRUE, created |-> getToday, txs |-> p.txs, early |-> p.early]]
  /\ UNCHANGED <<getToday, driver, account, noTransactionsCache, staticFiles,
                 exportQueue, exportJob, requests>>

\* The file is named only now, and an open interval ends on the present day.
writeCsv(w) ==
  /\ exportJob[w].pc = "name"
  /\ LET job == exportJob[w]
     IN  staticFiles' = [staticFiles EXCEPT ![standardizeIntervalFromParams(job.params)] =
           [whole |-> TRUE, created |-> getToday, rows |-> transactionsToCSV(job.txs),
            over |-> job.over, early |-> job.early]]
  /\ exportJob' = [exportJob EXCEPT ![w] = IdleWorker]
  /\ UNCHANGED <<getToday, driver, account, partials, partialWrites,
                 noTransactionsCache, exportQueue, requests>>

\* Mutant of retryExport: attempts are not counted.
retryExportForEver(job) == Append(exportQueue, [params |-> job.params, attempt |-> job.attempt])

retryExport(job) ==
  IF job.attempt < Attempts
  THEN Append(exportQueue, [params |-> job.params, attempt |-> job.attempt + 1])
  ELSE exportQueue

\* The file of a day is gone, being written or not to be parsed.
failExport(w) ==
  /\ exportJob[w].pc = "read"
  /\ ~isReadable(exportJob[w].day)
  /\ exportQueue' = retryExport(exportJob[w])
  /\ exportJob' = [exportJob EXCEPT ![w] = IdleWorker]
  /\ UNCHANGED <<getToday, driver, account, partials, partialWrites,
                 noTransactionsCache, staticFiles, requests>>
-----------------------------------------------------------------------------
ExportInit ==
  /\ getToday = 0
  /\ driver \in {"filesystem", "s3-minio"}
  /\ account = [d \in ExportDay |-> << >>]
  /\ partials = [d \in ExportDay |-> NoFile]
  /\ partialWrites = {}
  /\ noTransactionsCache = [d \in ExportDay |-> NoFlag]
  /\ staticFiles = [n \in FileName |-> NoFile]
  /\ exportQueue = << >>
  /\ exportJob = [w \in Worker |-> IdleWorker]
  /\ requests = 0

ExportJobStep(w) ==
  \/ startExport(w) \/ lookUpDay(w) \/ readPartial(w) \/ fetchDay(w) \/ storeDay(w)
  \/ writeCsv(w) \/ failExport(w)

ExportNext ==
  \/ NewAccountTransaction
  \/ Midnight
  \/ purge
  \/ \E p \in Interval : scheduleTransactionHistoryExport(p)
  \/ \E n \in FileName : downloadTransactionHistory(n)
  \/ \E w \in Worker : ExportJobStep(w)
  \/ \E p \in partialWrites : writtenPartial(p)
-----------------------------------------------------------------------------
\* What is exported of a day.
Exported(d) ==
  IF Len(account[d]) > MAX_NUM_TRANSACTIONS
  THEN SubSeq(account[d], 1, MAX_NUM_TRANSACTIONS) ELSE account[d]

\* A cached day is complete for as long as it is cached, unless it was fetched
\* before it was over and cached as another day: when the day changed between
\* fetching and caching, or when the interval reached into the future.  Then it
\* holds the first transactions of the day.
CachedDaysComplete ==
  \A d \in ExportDay :
    /\ partials[d].whole =>
         /\ \E n \in 0..Len(account[d]) : partials[d].txs = SubSeq(account[d], 1, n)
         /\ ~partials[d].early => partials[d].txs = Exported(d)
    /\ noTransactionsCache[d] # NoFlag /\ ~noTransactionsCache[d].early => account[d] = << >>

\* The statement of an interval that was over when the job started, none of whose
\* days were cached too early, lists every transaction, and what it adds up to is
\* what the account received less what it spent, but for two differences: the fees
\* of transfers to itself are not listed, and such a transfer has no credit when
\* fewer transactions follow it than other such transfers precede it.
StatementsBalance ==
  LET effect(tx) ==
        CASE tx.kind = "send" -> 0 - exportedAmount - exportedFee
          [] tx.kind = "receive" -> exportedAmount
          [] tx.kind = "reclaim" -> exportedAmount - exportedFee
          [] tx.kind \in {"self", "other"} -> 0 - exportedFee
      sum(s, f(_)) == FoldSeq(LAMBDA e, acc : f(e) + acc, 0, s)
  IN  \A n \in FileName :
        LET file == staticFiles[n]
            txs == FlattenSeq([i \in 1..(n[2] - n[1] + 1) |-> Exported(n[1] + i - 1)])
            self == {i \in DOMAIN txs : txs[i].kind = "self"}
            noCredit == {i \in self : Len(txs) - i < Cardinality({j \in self : j < i})}
        IN  file.whole /\ file.over /\ ~file.early =>
              /\ Len(file.rows) = Len(txs) + Cardinality(self \ noCredit)
              /\ sum(file.rows, LAMBDA r : r.amount - r.fee)
                   = sum(txs, effect) + Cardinality(self) * exportedFee
                       - Cardinality(noCredit) * exportedAmount

\* Scheduled jobs end, with a file or after their last attempt, whichever
\* driver is used and whatever else is being written or removed.
ExportsEnd == <>[](exportQueue = << >> /\ \A w \in Worker : exportJob[w] = IdleWorker)

\* Neither what is cached nor what is exported of days that are over lacks a
\* transaction, and of the entries of a statement only the credits of some
\* transfers to itself may be missing (csvExport.js).
ExportsComplete == CachedDaysComplete /\ StatementsBalance
=============================================================================
