------------------------------- MODULE Market -------------------------------
(***************************************************************************)
(* The Market service: jobs that reload the prices of each source into     *)
(* Redis, where they expire, and a job that every five seconds combines    *)
(* them into the prices of the target pairs, which never expire.           *)
(*                                                                         *)
(* A price is known by its pair and the prices it is made of, each known   *)
(* by its source and its age in minutes; the prices of one source are      *)
(* reloaded together and have one age.                                     *)
(***************************************************************************)
EXTENDS Integers, Sequences, FiniteSets, SequencesExt

CONSTANTS
  Sources,        \* the sources, in the order in which they are read
  targetPairs,    \* the pairs that are offered
  Updater,        \* updates of the prices that may overlap
  TTL,            \* for each source, the age at which its prices expire
  MaxLag,         \* bound: minutes an update takes
  MaxOutages      \* bound: reloads that fail, and symbols that are delisted

VARIABLES
  sourceAge,      \* the age of each source's prices; TTL when there are none
  delisted,       \* sources that do not answer, or without one of our symbols
  marketPrices,   \* for each target pair, the candidates
  updating,       \* for each updater, what it has read and how long it runs
  updateDue,      \* whether the job has yet to run in this minute
  outages

marketVars == <<sourceAge, delisted, marketPrices, updating, updateDue, outages>>

SourceSet == {Sources[i] : i \in DOMAIN Sources}

ASSUME MarketAssumption ==
  /\ Sources \in Seq({"binance", "bittrex", "kraken", "exchangeratesapi"})
  /\ TTL \in [SourceSet -> Nat \ {0}]
  /\ MaxLag \in Nat
-----------------------------------------------------------------------------
binanceSymbols ==
  {<<"LSK", "BTC">>, <<"LSK", "ETH">>, <<"BTC", "EUR">>, <<"BTC", "GBP">>,
   <<"BTC", "RUB">>, <<"ETH", "EUR">>, <<"ETH", "RUB">>, <<"ETH", "GBP">>,
   <<"USDT", "RUB">>, <<"EUR", "USDT">>}

bittrexSymbols == {<<"LSK", "BTC">>, <<"BTC", "USD">>, <<"BTC", "EUR">>}

krakenSymbols == {<<"LSK", "USD">>, <<"LSK", "EUR">>, <<"LSK", "BTC">>}

exchangeratesapiSymbols == {<<"EUR", "USD">>, <<"EUR", "CHF">>, <<"EUR", "BTC">>}

symbolMap(source) ==
  CASE source = "binance" -> binanceSymbols
    [] source = "bittrex" -> bittrexSymbols
    [] source = "kraken" -> krakenSymbols
    [] source = "exchangeratesapi" -> exchangeratesapiSymbols

\* Exchange prices may be reloaded after one minute.  Conversion rates expire
\* before they may be reloaded, so only missing ones are.
validateEntries(source) ==
  \/ sourceAge[source] = TTL[source]
  \/ source # "exchangeratesapi" /\ sourceAge[source] >= 1

\* binance, bittrex, kraken: standardizeTickers throws when a symbol is missing.
reload(source) ==
  /\ source # "exchangeratesapi"
  /\ validateEntries(source)
  /\ source \notin delisted
  /\ sourceAge' = [sourceAge EXCEPT ![source] = 0]
  /\ UNCHANGED <<delisted, marketPrices, updating, updateDue, outages>>

\* The rates of all bases are fetched at once and only those of the base whose
\* answer came first are stored; the readers look for those of EUR.
reloadConversionRates(firstBase) ==
  /\ "exchangeratesapi" \in SourceSet
  /\ validateEntries("exchangeratesapi")
  /\ "exchangeratesapi" \notin delisted
  /\ firstBase = "EUR"
  /\ sourceAge' = [sourceAge EXCEPT !["exchangeratesapi"] = 0]
  /\ UNCHANGED <<delisted, marketPrices, updating, updateDue, outages>>

\* A source stops answering or listing one of our symbols, or does so again.
Delist(source) ==
  /\ outages < MaxOutages
  /\ source \notin delisted
  /\ delisted' = delisted \cup {source}
  /\ outages' = outages + 1
  /\ UNCHANGED <<sourceAge, marketPrices, updating, updateDue>>

Relist(source) ==
  /\ source \in delisted
  /\ delisted' = delisted \ {source}
  /\ UNCHANGED <<sourceAge, marketPrices, updating, updateDue, outages>>
-----------------------------------------------------------------------------
(* calcTargetPairPrices, of the ages read from each source (None: no data) *)

None == -1

rawPrices(raw) ==
  UNION {{[pair |-> pair, source |-> s, age |-> raw[s]] : pair \in symbolMap(s)} :
           s \in {t \in SourceSet : raw[t] # None}}

part(x) == [source |-> x.source, age |-> x.age]

directPrices(all, pair) == {<<part(x)>> : x \in {y \in all : y.pair = pair}}

\* By way of a third currency, from another source.
derivedPrices(all, pair) ==
  {<<part(z[1]), part(z[2])>> :
     z \in {w \in all \X all : /\ w[1].pair[1] = pair[1] /\ w[1].pair # pair
                               /\ w[2].pair = <<w[1].pair[2], pair[2]>>
                               /\ w[1].source # w[2].source}}

\* Mutant of calcTargetPairPrices: only prices by way of a third currency.
calcDerivedPrices(raw) == [pair \in targetPairs |-> derivedPrices(rawPrices(raw), pair)]

calcTargetPairPrices(raw) ==
  [pair \in targetPairs |-> directPrices(rawPrices(raw), pair) \cup derivedPrices(rawPrices(raw), pair)]
-----------------------------------------------------------------------------
IdleUpdater == [next |-> 0, raw |-> << >>, lasts |-> 0]

\* The job runs every few seconds, whether or not the last run has ended.
startUpdatePrices(u) ==
  /\ updating[u] = IdleUpdater
  /\ updateDue
  /\ updateDue' = FALSE
  /\ updating' = [updating EXCEPT ![u] =
                    [next |-> 1, raw |-> [s \in SourceSet |-> None], lasts |-> 0]]
  /\ UNCHANGED <<sourceAge, delisted, marketPrices, outages>>

\* getRawPricesBySource awaits one source after the other.
getFromCache(u) ==
  /\ updating[u].next \in DOMAIN Sources
  /\ LET s == Sources[updating[u].next]
     IN  updating' = [updating EXCEPT
           ![u].next = @ + 1,
           ![u].raw[s] = IF sourceAge[s] = TTL[s] THEN None ELSE sourceAge[s]]
  /\ UNCHANGED <<sourceAge, delisted, marketPrices, updateDue, outages>>

\* Mutant of updatePricesCache: a pair without a price is left as it was.
updateKnownPrices(u) ==
  /\ updating[u].next = Len(Sources) + 1
  /\ marketPrices' =
       [p \in targetPairs |-> LET new == calcTargetPairPrices(updating[u].raw)[p]
                              IN  IF new = {} THEN marketPrices[p] ELSE new]
  /\ updating' = [updating EXCEPT ![u] = IdleUpdater]
  /\ UNCHANGED <<sourceAge, delisted, updateDue, outages>>

updatePricesCache(u) ==
  /\ updating[u].next = Len(Sources) + 1
  /\ marketPrices' = calcTargetPairPrices(updating[u].raw)
  /\ updating' = [updating EXCEPT ![u] = IdleUpdater]
  /\ UNCHANGED <<sourceAge, delisted, updateDue, outages>>

\* A minute passes, in which every price grows older.  The jobs that reload the
\* exchanges have run; those that failed did so because of an outage.
Minute ==
  LET aged(n) == IF n = None THEN None ELSE n + 1
  IN  /\ ~updateDue
      /\ updateDue' = TRUE
      /\ \A u \in Updater : updating[u].lasts < MaxLag
      /\ \A s \in SourceSet \ delisted :
           s # "exchangeratesapi" => ~validateEntries(s)
      /\ sourceAge' = [s \in SourceSet |->
                         IF sourceAge[s] = TTL[s] THEN TTL[s] ELSE sourceAge[s] + 1]
      /\ updating' = [u \in Updater |->
           IF updating[u] = IdleUpdater THEN IdleUpdater
           ELSE [updating[u] EXCEPT !.lasts = @ + 1,
                                    !.raw = [s \in SourceSet |-> aged(@[s])]]]
      /\ marketPrices' = [p \in targetPairs |->
           {[j \in DOMAIN c |-> [c[j] EXCEPT !.age = @ + 1]] : c \in marketPrices[p]}]
      /\ UNCHANGED <<delisted, outages>>

\* What getMarketPrices returns for a pair, the first candidate: it is one of
\* those with the fewest sources.
getMarketPrices(p) == {c \in marketPrices[p] : \A d \in marketPrices[p] : Len(c) <= Len(d)}
-----------------------------------------------------------------------------
MarketInit ==
  /\ sourceAge = TTL
  /\ delisted = {}
  /\ marketPrices = [p \in targetPairs |-> {}]
  /\ updating = [u \in Updater |-> IdleUpdater]
  /\ updateDue = TRUE
  /\ outages = 0

UpdatePrices(u) == startUpdatePrices(u) \/ getFromCache(u) \/ updatePricesCache(u)

MarketNext ==
  \/ \E s \in SourceSet : reload(s) \/ Delist(s) \/ Relist(s)
  \/ \E b \in {"EUR", "USD"} : reloadConversionRates(b)
  \/ \E u \in Updater : UpdatePrices(u)
  \/ Minute
-----------------------------------------------------------------------------
\* The published prices have no expiry of their own.  Still, what a price that is
\* offered is made of is at most as old as its source is kept, plus the time two
\* updates take that follow one another: a dead source's prices disappear.
PricesExpire ==
  \A p \in targetPairs : \A c \in marketPrices[p] : \A j \in DOMAIN c :
    c[j].age <= TTL[c[j].source] - 1 + MaxLag + 1 + MaxLag

\* A pair that is listed by an exchange that still answers is offered again
\* and again, whatever happened to the other sources.
PricesReturn ==
  \A p \in targetPairs : \A s \in SourceSet \ {"exchangeratesapi"} :
    p \in symbolMap(s) => []<>(s \in delisted \/ marketPrices[p] # {})
=============================================================================
