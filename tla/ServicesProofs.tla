--------------------------- MODULE ServicesProofs ---------------------------
(***************************************************************************)
(* What holds of the services next to the indexer for every configuration: *)
(* the prices that the Market offers expire, the days that Export has      *)
(* cached are complete, the days that Statistics counted when they were    *)
(* over are right, and the App Registry has cloned the commit it records.  *)
(***************************************************************************)
EXTENDS MCServices, OperatorProofs, TLAPS

-----------------------------------------------------------------------------
(* Market                                                                   *)

PricePart == [source : SourceSet, age : Int]

RunningUpdater ==
  {x \in [next : 1..(Len(Sources) + 1), raw : [SourceSet -> Int], lasts : 0..MaxLag] :
     \A s \in SourceSet : x.raw[s] <= TTL[s] - 1 + x.lasts}

MarketTyped ==
  /\ sourceAge \in [SourceSet -> Nat] /\ \A s \in SourceSet : sourceAge[s] <= TTL[s]
  /\ updating \in [Updater -> RunningUpdater \cup {IdleUpdater}]
  /\ marketPrices \in [targetPairs -> SUBSET Seq(PricePart)]
  /\ updateDue \in BOOLEAN

\* What is published was at most as old as its source is kept and an update takes,
\* when it was, g minutes ago.
PublishedSince(g) ==
  \A p \in targetPairs : \A c \in marketPrices[p] : \A j \in DOMAIN c :
    c[j].age <= TTL[c[j].source] - 1 + MaxLag + g

\* Who publishes next has run for all but one of these minutes, or is about to start.
NextUpdate(g) ==
  \/ g = 0
  \/ updateDue /\ g = 1
  \/ \E u \in Updater : updating[u] # IdleUpdater /\ updating[u].lasts >= g - 1

MarketInv == MarketTyped /\ \E g \in Nat : PublishedSince(g) /\ NextUpdate(g)

LEMMA TTLIs == \A s \in SourceSet : TTL[s] \in Nat /\ TTL[s] >= 1
  BY MarketAssumption

LEMMA RunningIsNotIdle == \A x \in RunningUpdater : x # IdleUpdater
  BY DEF RunningUpdater, IdleUpdater

LEMMA SourcesAre ==
  /\ Len(Sources) \in Nat /\ DOMAIN Sources = 1..Len(Sources)
  /\ \A i \in DOMAIN Sources : Sources[i] \in SourceSet
  BY MarketAssumption DEF SourceSet

LEMMA MarketInitInv == MarketInit => MarketInv
<1> SUFFICES ASSUME MarketInit PROVE MarketInv
  OBVIOUS
<1>1. sourceAge \in [SourceSet -> Nat] /\ \A s \in SourceSet : sourceAge[s] <= TTL[s]
  BY MarketAssumption DEF MarketInit
<1>2. MarketTyped
  BY <1>1 DEF MarketInit, MarketTyped
<1>3. PublishedSince(0) /\ NextUpdate(0)
  BY DEF MarketInit, PublishedSince, NextUpdate
<1> QED
  BY <1>2, <1>3 DEF MarketInv

\* Steps that leave the updates and what is published alone.
LEMMA ReloadsKeepInv ==
  ASSUME MarketInv, UNCHANGED <<marketPrices, updating, updateDue>>,
         \/ UNCHANGED sourceAge
         \/ \E s : sourceAge' = [sourceAge EXCEPT ![s] = 0]
  PROVE  MarketInv'
<1>0. sourceAge \in [SourceSet -> Nat] /\ \A s \in SourceSet : sourceAge[s] <= TTL[s]
  BY DEF MarketInv, MarketTyped
<1>1. sourceAge' \in [SourceSet -> Nat] /\ \A s \in SourceSet : sourceAge'[s] <= TTL[s]
  <2>1. CASE UNCHANGED sourceAge
    BY <1>0, <2>1
  <2>2. CASE \E s : sourceAge' = [sourceAge EXCEPT ![s] = 0]
    <3>1. PICK s : sourceAge' = [sourceAge EXCEPT ![s] = 0]
      BY <2>2
    <3>2. sourceAge' \in [SourceSet -> Nat]
      BY <1>0, <3>1
    <3>3. ASSUME NEW r \in SourceSet PROVE sourceAge'[r] <= TTL[r]
      <4>1. sourceAge'[r] = IF r = s THEN 0 ELSE sourceAge[r]
        BY <1>0, <3>1
      <4> QED
        BY <1>0, <4>1, TTLIs
    <3> QED
      BY <3>2, <3>3
  <2> QED
    BY <2>1, <2>2
<1>2. MarketTyped'
  BY <1>1 DEF MarketInv, MarketTyped
<1>3. \A g \in Nat : PublishedSince(g) /\ NextUpdate(g) => (PublishedSince(g) /\ NextUpdate(g))'
  BY DEF PublishedSince, NextUpdate
<1> QED
  BY <1>2, <1>3 DEF MarketInv

LEMMA StartKeepsInv ==
  ASSUME MarketInv, NEW u \in Updater, startUpdatePrices(u)
  PROVE  MarketInv'
<1> DEFINE new == [next |-> 1, raw |-> [s \in SourceSet |-> None], lasts |-> 0]
<1>1. /\ updating[u] = IdleUpdater /\ updateDue /\ updateDue' = FALSE
      /\ updating' = [updating EXCEPT ![u] = new]
      /\ UNCHANGED <<sourceAge, marketPrices>>
  BY DEF startUpdatePrices
<1>2. MarketTyped
  BY DEF MarketInv
<1>3. new \in RunningUpdater
  <2>1. 1 \in 1..(Len(Sources) + 1) /\ 0 \in 0..MaxLag
    BY SourcesAre, MarketAssumption
  <2>2. [s \in SourceSet |-> None] \in [SourceSet -> Int]
    BY DEF None
  <2>3. \A s \in SourceSet : None <= TTL[s] - 1 + 0
    BY TTLIs DEF None
  <2> QED
    BY <2>1, <2>2, <2>3 DEF RunningUpdater
<1>4. new # IdleUpdater /\ new.lasts = 0
  BY <1>3, RunningIsNotIdle
<1> HIDE DEF new
<1>5. MarketTyped'
  BY <1>1, <1>2, <1>3 DEF MarketTyped
<1>6. PICK g \in Nat : PublishedSince(g) /\ NextUpdate(g)
  BY DEF MarketInv
<1>7. PublishedSince(g)'
  BY <1>1, <1>6 DEF PublishedSince
<1>8. NextUpdate(g)'
  <2>1. CASE g <= 1
    <3>1. updating'[u] = new /\ 0 >= g - 1
      BY <1>1, <1>2, <2>1 DEF MarketTyped
    <3> QED
      BY <1>4, <3>1 DEF NextUpdate
  <2>2. CASE ~(g <= 1)
    <3>1. PICK v \in Updater : updating[v] # IdleUpdater /\ updating[v].lasts >= g - 1
      BY <1>6, <2>2 DEF NextUpdate
    <3>2. updating'[v] = updating[v]
      BY <1>1, <1>2, <3>1 DEF MarketTyped
    <3> QED
      BY <3>1, <3>2 DEF NextUpdate
  <2> QED
    BY <2>1, <2>2
<1> QED
  BY <1>5, <1>7, <1>8 DEF MarketInv

LEMMA ReadKeepsMarketInv ==
  ASSUME MarketInv, NEW u \in Updater, getFromCache(u)
  PROVE  MarketInv'
<1> DEFINE x == updating[u]
           s == Sources[x.next]
           read == IF sourceAge[s] = TTL[s] THEN None ELSE sourceAge[s]
           new == [x EXCEPT !.next = x.next + 1, !.raw[s] = read]
<1>1. /\ x.next \in DOMAIN Sources
      /\ updating' = [updating EXCEPT ![u].next = @ + 1, ![u].raw[s] = read]
      /\ UNCHANGED <<sourceAge, marketPrices, updateDue>>
  BY DEF getFromCache
<1>2. MarketTyped
  BY DEF MarketInv
<1>3. x \in RunningUpdater /\ s \in SourceSet
  BY <1>1, <1>2, SourcesAre DEF MarketTyped, IdleUpdater
<1>4. updating' = [updating EXCEPT ![u] = new]
  BY <1>1, <1>2, <1>3 DEF MarketTyped, RunningUpdater
<1>5. read \in Int /\ read <= TTL[s] - 1
  BY <1>2, <1>3, TTLIs DEF MarketTyped, None
<1>6. new \in RunningUpdater /\ new.lasts = x.lasts
  <2>1. /\ x.next \in Nat /\ x.raw \in [SourceSet -> Int] /\ x.lasts \in 0..MaxLag
        /\ \A t \in SourceSet : x.raw[t] <= TTL[t] - 1 + x.lasts
        /\ x.next + 1 \in 1..(Len(Sources) + 1)
    BY <1>1, <1>3, SourcesAre DEF RunningUpdater
  <2> DEFINE raw == [x.raw EXCEPT ![s] = read]
  <2>2. /\ DOMAIN new = {"next", "raw", "lasts"} /\ new = [f \in DOMAIN new |-> new[f]]
        /\ new.next = x.next + 1 /\ new.raw = raw /\ new.lasts = x.lasts
    BY <1>3 DEF RunningUpdater
  <2>3. raw \in [SourceSet -> Int] /\ \A t \in SourceSet : raw[t] <= TTL[t] - 1 + x.lasts
    <3>1. read <= TTL[s] - 1 + x.lasts
      <4>1. x.lasts \in Nat /\ TTL[s] \in Nat
        BY <1>3, <2>1, TTLIs, MarketAssumption
      <4> HIDE DEF read, s, x
      <4> QED
        BY <1>5, <4>1
    <3> HIDE DEF read, s, x
    <3> QED
      BY <1>3, <1>5, <2>1, <3>1
  <2> HIDE DEF raw, new
  <2>4. new \in [next : 1..(Len(Sources) + 1), raw : [SourceSet -> Int], lasts : 0..MaxLag]
    BY <2>1, <2>2, <2>3
  <2> QED
    BY <2>2, <2>3, <2>4 DEF RunningUpdater
<1>7. new # IdleUpdater
  BY <1>6, RunningIsNotIdle
<1> HIDE DEF new
<1>8. MarketTyped'
  BY <1>1, <1>2, <1>4, <1>6 DEF MarketTyped
<1>9. PICK g \in Nat : PublishedSince(g) /\ NextUpdate(g)
  BY DEF MarketInv
<1>10. PublishedSince(g)'
  BY <1>1, <1>9 DEF PublishedSince
<1>11. \A v \in Updater : updating[v] # IdleUpdater =>
         updating'[v] # IdleUpdater /\ updating'[v].lasts = updating[v].lasts
  BY <1>2, <1>4, <1>6, <1>7 DEF MarketTyped
<1>12. NextUpdate(g)'
  BY <1>1, <1>9, <1>11 DEF NextUpdate
<1> QED
  BY <1>8, <1>10, <1>12 DEF MarketInv

\* What an update publishes was read from sources that had not expired.
LEMMA PricesOf ==
  ASSUME NEW x \in RunningUpdater
  PROVE  /\ calcTargetPairPrices(x.raw) \in [targetPairs -> SUBSET Seq(PricePart)]
         /\ \A p \in targetPairs : \A c \in calcTargetPairPrices(x.raw)[p] : \A j \in DOMAIN c :
              c[j].age <= TTL[c[j].source] - 1 + MaxLag
<1> DEFINE all == rawPrices(x.raw)
           Good == {q \in PricePart : q.age <= TTL[q.source] - 1 + MaxLag}
<1>1. /\ x.raw \in [SourceSet -> Int] /\ x.lasts \in 0..MaxLag
      /\ \A s \in SourceSet : x.raw[s] <= TTL[s] - 1 + x.lasts
  BY DEF RunningUpdater
<1>2. \A s \in SourceSet : x.raw[s] \in Int /\ x.raw[s] <= TTL[s] - 1 + MaxLag
  BY <1>1, TTLIs, MarketAssumption
<1>3. \A y \in all : part(y) \in Good
  BY <1>2 DEF rawPrices, part, PricePart
<1> HIDE DEF all
<1>4. ASSUME NEW p \in targetPairs, NEW c \in directPrices(all, p) \cup derivedPrices(all, p)
      PROVE  c \in Seq(Good)
  <2>1. CASE c \in directPrices(all, p)
    <3>1. PICK y \in all : c = <<part(y)>>
      BY <2>1 DEF directPrices
    <3> QED
      BY <1>3, <3>1
  <2>2. CASE c \in derivedPrices(all, p)
    <3>1. PICK z \in all \X all : c = <<part(z[1]), part(z[2])>>
      BY <2>2 DEF derivedPrices
    <3>2. part(z[1]) \in Good /\ part(z[2]) \in Good
      BY <1>3, <3>1
    <3> QED
      BY <3>1, <3>2
  <2> QED
    BY <1>4, <2>1, <2>2
<1>5. \A p \in targetPairs :
        calcTargetPairPrices(x.raw)[p] = directPrices(all, p) \cup derivedPrices(all, p)
  BY DEF calcTargetPairPrices, all
<1>6. ASSUME NEW p \in targetPairs, NEW c \in calcTargetPairPrices(x.raw)[p]
      PROVE  c \in Seq(PricePart) /\ \A j \in DOMAIN c : c[j].age <= TTL[c[j].source] - 1 + MaxLag
  <2>1. c \in Seq(Good)
    BY <1>4, <1>5, <1>6
  <2>2. \A j \in DOMAIN c : c[j] \in Good
    BY <2>1
  <2> QED
    BY <2>1, <2>2
<1> QED
  BY <1>6 DEF calcTargetPairPrices

LEMMA PublishKeepsInv ==
  ASSUME MarketInv, NEW u \in Updater, updatePricesCache(u)
  PROVE  MarketInv'
<1> DEFINE x == updating[u]
<1>1. /\ x.next = Len(Sources) + 1
      /\ marketPrices' = calcTargetPairPrices(x.raw)
      /\ updating' = [updating EXCEPT ![u] = IdleUpdater]
      /\ UNCHANGED <<sourceAge, updateDue>>
  BY DEF updatePricesCache
<1>2. MarketTyped
  BY DEF MarketInv
<1>3. x \in RunningUpdater
  BY <1>1, <1>2, SourcesAre DEF MarketTyped, IdleUpdater
<1>4. /\ marketPrices' \in [targetPairs -> SUBSET Seq(PricePart)]
      /\ \A p \in targetPairs : \A c \in marketPrices'[p] : \A j \in DOMAIN c :
           c[j].age <= TTL[c[j].source] - 1 + MaxLag
  BY <1>1, <1>3, PricesOf
<1>5. MarketTyped'
  BY <1>1, <1>2, <1>4 DEF MarketTyped
<1>6. PublishedSince(0)' /\ NextUpdate(0)'
  <2>1. ASSUME NEW p \in targetPairs, NEW c \in marketPrices'[p], NEW j \in DOMAIN c
        PROVE  c[j].age <= TTL[c[j].source] - 1 + MaxLag + 0
    <3>1. c \in Seq(PricePart)
      BY <1>4, <2>1
    <3>4. c[j] \in PricePart
      BY <2>1, <3>1
    <3>2. c[j].source \in SourceSet
      BY <3>4 DEF PricePart
    <3>3. TTL[c[j].source] - 1 + MaxLag + 0 = TTL[c[j].source] - 1 + MaxLag
      BY <3>2, TTLIs, MarketAssumption
    <3> QED
      BY <1>4, <2>1, <3>3
  <2> QED
    BY <2>1 DEF PublishedSince, NextUpdate
<1> QED
  BY <1>5, <1>6 DEF MarketInv

LEMMA MinuteKeepsInv ==
  ASSUME MarketInv, Minute
  PROVE  MarketInv'
<1> DEFINE aged(n) == IF n = None THEN None ELSE n + 1
           later(x) == [x EXCEPT !.lasts = @ + 1, !.raw = [s \in SourceSet |-> aged(@[s])]]
           older(c) == [j \in DOMAIN c |-> [c[j] EXCEPT !.age = @ + 1]]
<1>1. /\ ~updateDue /\ updateDue' = TRUE
      /\ \A u \in Updater : updating[u].lasts < MaxLag
      /\ sourceAge' = [s \in SourceSet |-> IF sourceAge[s] = TTL[s] THEN TTL[s] ELSE sourceAge[s] + 1]
      /\ updating' = [u \in Updater |-> IF updating[u] = IdleUpdater THEN IdleUpdater
                                        ELSE later(updating[u])]
      /\ marketPrices' = [p \in targetPairs |-> {older(c) : c \in marketPrices[p]}]
  BY Zenon DEF Minute
<1>2. MarketTyped
  BY DEF MarketInv
<1>3. sourceAge' \in [SourceSet -> Nat] /\ \A s \in SourceSet : sourceAge'[s] <= TTL[s]
  <2>1. \A s \in SourceSet : /\ sourceAge[s] \in Nat /\ sourceAge[s] <= TTL[s] /\ TTL[s] \in Nat
    BY <1>2, TTLIs DEF MarketTyped
  <2>2. sourceAge' = [s \in SourceSet |-> IF sourceAge[s] = TTL[s] THEN TTL[s] ELSE sourceAge[s] + 1]
    BY <1>1
  <2> QED
    BY <2>1, <2>2
<1>4. ASSUME NEW x \in RunningUpdater, x.lasts < MaxLag
      PROVE  later(x) \in RunningUpdater /\ later(x).lasts = x.lasts + 1
  <2>1. /\ x.next \in 1..(Len(Sources) + 1) /\ x.raw \in [SourceSet -> Int] /\ x.lasts \in 0..MaxLag
        /\ \A t \in SourceSet : x.raw[t] <= TTL[t] - 1 + x.lasts
    BY DEF RunningUpdater
  <2> DEFINE raw == [s \in SourceSet |-> aged(x.raw[s])]
             y == later(x)
  <2>2. /\ DOMAIN y = {"next", "raw", "lasts"} /\ y = [f \in DOMAIN y |-> y[f]]
        /\ y.next = x.next /\ y.raw = raw /\ y.lasts = x.lasts + 1
    BY DEF RunningUpdater
  <2>3. raw \in [SourceSet -> Int]
    BY <2>1 DEF None
  <2>4. ASSUME NEW t \in SourceSet PROVE raw[t] <= TTL[t] - 1 + (x.lasts + 1)
    <3>1. /\ raw[t] = IF x.raw[t] = None THEN None ELSE x.raw[t] + 1
          /\ x.raw[t] \in Int /\ x.raw[t] <= TTL[t] - 1 + x.lasts
          /\ TTL[t] \in Nat /\ TTL[t] >= 1 /\ x.lasts \in Nat
      BY <2>1, TTLIs, MarketAssumption
    <3> HIDE DEF raw
    <3> QED
      BY <3>1 DEF None
  <2>5. x.lasts + 1 \in 0..MaxLag
    BY <1>4, <2>1, MarketAssumption
  <2> HIDE DEF raw, y
  <2>6. y \in [next : 1..(Len(Sources) + 1), raw : [SourceSet -> Int], lasts : 0..MaxLag]
    BY <2>1, <2>2, <2>3, <2>5
  <2>7. y \in RunningUpdater
    BY <2>2, <2>4, <2>6 DEF RunningUpdater
  <2> QED
    BY <2>2, <2>7 DEF y
<1> HIDE DEF later
<1>5. updating' \in [Updater -> RunningUpdater \cup {IdleUpdater}]
  BY <1>1, <1>2, <1>4 DEF MarketTyped
<1>6. ASSUME NEW c \in Seq(PricePart)
      PROVE  /\ older(c) \in Seq(PricePart) /\ DOMAIN older(c) = DOMAIN c
             /\ \A j \in DOMAIN c : /\ older(c)[j].age = c[j].age + 1
                                    /\ older(c)[j].source = c[j].source
                                    /\ c[j].age \in Int /\ c[j].source \in SourceSet
  <2>1. DOMAIN c = 1..Len(c) /\ Len(c) \in Nat /\ \A j \in DOMAIN c : c[j] \in PricePart
    OBVIOUS
  <2>2. \A q \in PricePart : /\ [q EXCEPT !.age = @ + 1] \in PricePart
                             /\ [q EXCEPT !.age = @ + 1].age = q.age + 1
                             /\ [q EXCEPT !.age = @ + 1].source = q.source
                             /\ q.age \in Int /\ q.source \in SourceSet
    BY DEF PricePart
  <2>3. DOMAIN older(c) = DOMAIN c /\ \A j \in DOMAIN c : older(c)[j] = [c[j] EXCEPT !.age = @ + 1]
    OBVIOUS
  <2>4. older(c) \in Seq(PricePart)
    <3>1. older(c) = [j \in 1..Len(c) |-> older(c)[j]]
      BY <2>1
    <3>2. \A j \in 1..Len(c) : older(c)[j] \in PricePart
      BY <2>1, <2>2, <2>3, Zenon
    <3> HIDE DEF older
    <3> QED
      BY <2>1, <3>1, <3>2
  <2> HIDE DEF older
  <2> QED
    BY <2>1, <2>2, <2>3, <2>4, Zenon
<1> HIDE DEF older
<1>7. marketPrices' \in [targetPairs -> SUBSET Seq(PricePart)]
  BY <1>1, <1>2, <1>6 DEF MarketTyped
<1>8. MarketTyped'
  BY <1>1, <1>3, <1>5, <1>7 DEF MarketTyped
<1>9. PICK g \in Nat : PublishedSince(g) /\ NextUpdate(g)
  BY DEF MarketInv
<1>10. PublishedSince(g + 1)'
  <2> SUFFICES ASSUME NEW p \in targetPairs, NEW d \in marketPrices'[p], NEW j \in DOMAIN d
               PROVE  d[j].age <= TTL[d[j].source] - 1 + MaxLag + (g + 1)
    BY DEF PublishedSince
  <2>1. PICK c \in marketPrices[p] : d = older(c)
    BY <1>1
  <2>2. c \in Seq(PricePart)
    BY <1>2, <2>1 DEF MarketTyped
  <2>3. /\ j \in DOMAIN c /\ d[j].age = c[j].age + 1 /\ d[j].source = c[j].source
        /\ c[j].age \in Int /\ c[j].source \in SourceSet
    BY <1>6, <2>1, <2>2, Zenon
  <2>4. c[j].age <= TTL[c[j].source] - 1 + MaxLag + g
    BY <1>9, <2>1, <2>3 DEF PublishedSince
  <2> QED
    BY <2>3, <2>4, TTLIs, MarketAssumption
<1>11. NextUpdate(g + 1)'
  <2>1. CASE g = 0
    BY <1>1, <2>1 DEF NextUpdate
  <2>2. CASE g # 0
    <3>1. PICK u \in Updater : updating[u] # IdleUpdater /\ updating[u].lasts >= g - 1
      BY <1>1, <1>9, <2>2 DEF NextUpdate
    <3>2. updating[u] \in RunningUpdater
      BY <1>2, <3>1 DEF MarketTyped
    <3>3. updating'[u] = later(updating[u]) /\ updating[u].lasts < MaxLag
      BY <1>1, <3>1
    <3>4. updating'[u] \in RunningUpdater /\ updating'[u].lasts = updating[u].lasts + 1
      BY <1>4, <3>2, <3>3
    <3>5. updating[u].lasts \in Int
      BY <3>2 DEF RunningUpdater
    <3>6. updating'[u] # IdleUpdater /\ updating'[u].lasts >= (g + 1) - 1
      BY <3>1, <3>4, <3>5, RunningIsNotIdle
    <3> QED
      BY <3>6 DEF NextUpdate
  <2> QED
    BY <2>1, <2>2
<1> QED
  BY <1>8, <1>10, <1>11 DEF MarketInv

LEMMA MarketStepsKeepInv == MarketInv /\ MarketNext => MarketInv'
<1> SUFFICES ASSUME MarketInv, MarketNext PROVE MarketInv'
  OBVIOUS
<1>1. ASSUME NEW s \in SourceSet, reload(s) \/ Delist(s) \/ Relist(s) PROVE MarketInv'
  BY <1>1, ReloadsKeepInv DEF reload, Delist, Relist
<1>2. ASSUME NEW b \in {"EUR", "USD"}, reloadConversionRates(b) PROVE MarketInv'
  BY <1>2, ReloadsKeepInv DEF reloadConversionRates
<1>3. ASSUME NEW u \in Updater, UpdatePrices(u) PROVE MarketInv'
  BY <1>3, StartKeepsInv, ReadKeepsMarketInv, PublishKeepsInv DEF UpdatePrices
<1> QED
  BY <1>1, <1>2, <1>3, MinuteKeepsInv DEF MarketNext

LEMMA MarketInvUnchanged == MarketInv /\ UNCHANGED marketVars => MarketInv'
  BY DEF MarketInv, MarketTyped, PublishedSince, NextUpdate, marketVars

LEMMA MarketInvExpires == MarketInv => PricesExpire
<1> SUFFICES ASSUME MarketInv, NEW p \in targetPairs, NEW c \in marketPrices[p], NEW j \in DOMAIN c
             PROVE  c[j].age <= TTL[c[j].source] - 1 + MaxLag + 1 + MaxLag
  BY DEF PricesExpire
<1>1. PICK g \in Nat : PublishedSince(g) /\ NextUpdate(g)
  BY DEF MarketInv
<1>2. MarketTyped
  BY DEF MarketInv
<1>3. g <= 1 + MaxLag
  <2>1. CASE g <= 1
    BY <2>1, MarketAssumption
  <2>2. CASE ~(g <= 1)
    <3>1. PICK u \in Updater : updating[u] # IdleUpdater /\ updating[u].lasts >= g - 1
      BY <1>1, <2>2 DEF NextUpdate
    <3>2. updating[u] \in RunningUpdater
      BY <1>2, <3>1 DEF MarketTyped
    <3>3. updating[u].lasts \in 0..MaxLag
      BY <3>2 DEF RunningUpdater
    <3> QED
      BY <3>1, <3>3, MarketAssumption
  <2> QED
    BY <2>1, <2>2
<1>4. c[j].age <= TTL[c[j].source] - 1 + MaxLag + g
  BY <1>1 DEF PublishedSince
<1>5. c[j] \in PricePart
  BY <1>2 DEF MarketTyped
<1>6. c[j].source \in SourceSet /\ c[j].age \in Int
  BY <1>5 DEF PricePart
<1> QED
  BY <1>3, <1>4, <1>6, TTLIs, MarketAssumption

\* Published prices have no expiry of their own, yet what a dead source
\* contributed to them disappears (priceUpdater.js): for any sources with any
\* expiry, any pairs, any number of updates that overlap and any time they take.
THEOREM PricesAlwaysExpire == Spec => []PricesExpire
<1>1. Init => MarketInv
  BY MarketInitInv DEF Init
<1>2. MarketInv /\ [Next]_vars => MarketInv'
  BY MarketStepsKeepInv, MarketInvUnchanged
     DEF Next, vars, MarketStep, StatisticsStep, ExportStep, RegistryStep
<1> QED
  BY <1>1, <1>2, MarketInvExpires, PTL DEF Spec
-----------------------------------------------------------------------------
(* Export                                                                   *)

JobFields ==
  {"pc", "params", "attempt", "day", "to", "txs", "got", "began", "over", "early"}

ExportTyped ==
  /\ getToday \in Nat
  /\ DOMAIN account = ExportDay /\ \A d \in ExportDay : \E S : account[d] \in Seq(S)
  /\ DOMAIN partials = ExportDay /\ DOMAIN noTransactionsCache = ExportDay
  /\ DOMAIN exportJob = Worker
  /\ \A w \in Worker : exportJob[w] = IdleWorker \/ DOMAIN exportJob[w] = JobFields

\* What a day had when it was over, which does not change any more.
OverWith(d, txs) == d < getToday /\ txs = getTransactionsInAsc(d)

\* The first transactions of a day, which stay so when the day gets more.
FirstOf(d, txs) == \E n \in 0..Len(account[d]) : txs = SubSeq(account[d], 1, n)

Holds(d, txs, early) == FirstOf(d, txs) /\ (~early => OverWith(d, txs))

\* What is to be stored was fetched on a day that is known, and is complete when
\* that day was a later one.
FetchSound(w) ==
  LET job == exportJob[w]
  IN  job.pc = "store" /\ job.day \in ExportDay =>
        /\ job.began \in Nat /\ job.began <= getToday
        /\ FirstOf(job.day, job.got)
        /\ job.began > job.day => OverWith(job.day, job.got)

CacheSound(d) ==
  /\ partials[d].whole => Holds(d, partials[d].txs, partials[d].early)
  /\ noTransactionsCache[d] # NoFlag /\ ~noTransactionsCache[d].early => OverWith(d, << >>)

ExportInv ==
  /\ ExportTyped
  /\ \A w \in Worker : FetchSound(w)
  /\ \A p \in partialWrites : p.day \in ExportDay => Holds(p.day, p.txs, p.early)
  /\ \A d \in ExportDay : CacheSound(d)

\* Nothing but the present day's transactions changes.
LEMMA OverStays ==
  ASSUME ExportTyped, getToday' \in Nat, getToday <= getToday',
         \A d \in ExportDay : d < getToday => account'[d] = account[d],
         NEW d \in ExportDay, NEW txs, OverWith(d, txs)
  PROVE  OverWith(d, txs)'
<1>1. d < getToday /\ d \in Int /\ getToday \in Nat
  BY DEF OverWith, ExportTyped, ExportDay
<1>2. account'[d] = account[d]
  BY <1>1
<1> QED
  BY <1>1, <1>2 DEF OverWith, getTransactionsInAsc

LEMMA FirstStays ==
  ASSUME ExportTyped, NEW d \in ExportDay, NEW txs, FirstOf(d, txs),
         account'[d] = account[d] \/ \E t : account'[d] = Append(account[d], t)
  PROVE  FirstOf(d, txs)'
<1>1. CASE account'[d] = account[d]
  BY <1>1 DEF FirstOf
<1>2. CASE \E t : account'[d] = Append(account[d], t)
  <2>1. PICK t : account'[d] = Append(account[d], t)
    BY <1>2
  <2>2. PICK S : account[d] \in Seq(S)
    BY DEF ExportTyped
  <2>3. PICK n \in 0..Len(account[d]) : txs = SubSeq(account[d], 1, n)
    BY DEF FirstOf
  <2> DEFINE s == account[d]
             T == S \cup {t}
  <2>4. s \in Seq(T) /\ t \in T /\ n \in Nat /\ n <= Len(s) /\ Len(s) \in Nat
    BY <2>2
  <2> HIDE DEF s, T
  <2>5. Append(s, t) \in Seq(T) /\ Len(Append(s, t)) = Len(s) + 1
    BY <2>4
  <2>6. SubSeq(Append(s, t), 1, n) = SubSeq(s, 1, n)
    <3>1. \A i \in 1..n : Append(s, t)[i] = s[i]
      BY <2>4
    <3>2. /\ SubSeq(s, 1, n) = [i \in 1..n |-> s[i]]
          /\ SubSeq(Append(s, t), 1, n) = [i \in 1..n |-> Append(s, t)[i]]
      BY <2>4, <2>5
    <3> QED
      BY <3>1, <3>2
  <2> QED
    BY <2>1, <2>3, <2>4, <2>5, <2>6 DEF FirstOf, s
<1> QED
  BY <1>1, <1>2

\* What is fetched are the first transactions of the day.
LEMMA FetchedAreFirst ==
  ASSUME ExportTyped, NEW d \in ExportDay
  PROVE  FirstOf(d, getTransactionsInAsc(d))
<1>1. PICK S : account[d] \in Seq(S)
  BY DEF ExportTyped
<1>2. Len(account[d]) \in Nat /\ MAX_NUM_TRANSACTIONS \in Nat
  BY <1>1, ExportAssumption
<1> QED
  BY <1>2 DEF FirstOf, getTransactionsInAsc

LEMMA ExportInitInv == ExportInit => ExportInv
<1> SUFFICES ASSUME ExportInit PROVE ExportInv
  OBVIOUS
<1>1. ExportTyped
  <2>1. \A d \in ExportDay : account[d] \in Seq({})
    BY DEF ExportInit
  <2> QED
    BY <2>1 DEF ExportTyped, ExportInit
<1>2. \A w \in Worker : exportJob[w].pc # "store"
  BY DEF ExportInit, IdleWorker
<1>3. \A d \in ExportDay : ~partials[d].whole /\ noTransactionsCache[d] = NoFlag
  BY DEF ExportInit, NoFile
<1> QED
  BY <1>1, <1>2, <1>3 DEF ExportInv, ExportInit, FetchSound, CacheSound

\* Steps of the account, the clock, the requests and the jobs that store nothing.
LEMMA JobStepKeepsInv ==
  ASSUME ExportInv, getToday' \in Nat, getToday <= getToday',
         ExportTyped',
         \A d \in ExportDay : d < getToday => account'[d] = account[d],
         \A d \in ExportDay :
           account'[d] = account[d] \/ \E t : account'[d] = Append(account[d], t),
         \A d \in ExportDay : partials'[d] \in {partials[d], NoFile},
         UNCHANGED <<partialWrites, noTransactionsCache>>,
         \A w \in Worker : \/ exportJob'[w].pc # "store"
                           \/ exportJob'[w] = exportJob[w]
  PROVE  ExportInv'
<1>1. ExportTyped
  BY DEF ExportInv
<1>2. /\ \A d \in ExportDay : \A txs : OverWith(d, txs) => OverWith(d, txs)'
      /\ \A d \in ExportDay : \A txs : FirstOf(d, txs) => FirstOf(d, txs)'
  BY <1>1, OverStays, FirstStays
<1>3. ASSUME NEW w \in Worker
      PROVE  FetchSound(w)'
  <2>1. CASE exportJob'[w].pc # "store"
    BY <2>1 DEF FetchSound
  <2>2. CASE exportJob'[w] = exportJob[w]
    <3>1. FetchSound(w)
      BY DEF ExportInv
    <3>2. \A n \in Nat : n <= getToday => n <= getToday'
      BY <1>1 DEF ExportTyped
    <3> QED
      BY <1>2, <2>2, <3>1, <3>2 DEF FetchSound
  <2> QED
    BY <2>1, <2>2
<1>4. ASSUME NEW p \in partialWrites', p.day \in ExportDay
      PROVE  Holds(p.day, p.txs, p.early)'
  BY <1>2, <1>4 DEF ExportInv, Holds
<1>5. ASSUME NEW d \in ExportDay
      PROVE  CacheSound(d)'
  <2>1. ~NoFile.whole
    BY DEF NoFile
  <2>2. CacheSound(d)
    BY DEF ExportInv
  <2>3. CASE partials'[d] = partials[d]
    BY <1>2, <2>2, <2>3 DEF CacheSound, Holds
  <2>4. CASE partials'[d] = NoFile
    BY <1>2, <2>1, <2>2, <2>4 DEF CacheSound
  <2> QED
    BY <2>3, <2>4
<1> QED
  BY <1>3, <1>4, <1>5 DEF ExportInv

LEMMA AccountKeepsInv ==
  ASSUME ExportInv, NewAccountTransaction
  PROVE  ExportInv'
<1> DEFINE t == [kind |-> Kinds[Len(FlattenSeq([i \in 1..(LastExportDay + 1) |-> account[i - 1]])) + 1],
                 day |-> getToday, credit |-> FALSE]
<1>1. /\ account' = [account EXCEPT ![getToday] = Append(@, t)]
      /\ UNCHANGED <<getToday, partials, partialWrites, noTransactionsCache, exportJob>>
  BY DEF NewAccountTransaction
<1> HIDE DEF t
<1>2. ExportTyped /\ getToday \in Nat
  BY DEF ExportInv, ExportTyped
<1>3. \A d \in ExportDay : d # getToday => account'[d] = account[d]
  BY <1>1, <1>2 DEF ExportTyped
<1>4. ASSUME NEW d \in ExportDay PROVE \E S : account'[d] \in Seq(S)
  <2>1. PICK S : account[d] \in Seq(S)
    BY <1>2 DEF ExportTyped
  <2>2. CASE d = getToday
    <3>1. account'[d] = Append(account[d], t)
      BY <1>1, <1>2, <2>2 DEF ExportTyped
    <3>2. account[d] \in Seq(S \cup {t}) /\ t \in S \cup {t}
      BY <2>1
    <3>3. Append(account[d], t) \in Seq(S \cup {t})
      BY <3>2
    <3> QED
      BY <3>1, <3>3
  <2>3. CASE d # getToday
    BY <1>3, <2>1, <2>3
  <2> QED
    BY <2>2, <2>3
<1>5. ExportTyped'
  BY <1>1, <1>2, <1>4 DEF ExportTyped
<1>6. \A d \in ExportDay : d < getToday => account'[d] = account[d]
  BY <1>2, <1>3 DEF ExportDay
<1>7. \A d \in ExportDay :
        account'[d] = account[d] \/ \E e : account'[d] = Append(account[d], e)
  BY <1>1, <1>2 DEF ExportTyped
<1>8. \A w \in Worker : exportJob'[w].pc # "store" \/ exportJob'[w] = exportJob[w]
  BY <1>1
<1>9. /\ \A d \in ExportDay : partials'[d] \in {partials[d], NoFile}
      /\ UNCHANGED <<partialWrites, noTransactionsCache>>
      /\ getToday' \in Nat /\ getToday <= getToday'
  BY <1>1, <1>2
<1> QED
  BY <1>5, <1>6, <1>7, <1>8, <1>9, JobStepKeepsInv

LEMMA QuietStepsKeepInv ==
  ASSUME ExportInv,
         \/ Midnight
         \/ purge
         \/ \E p \in Interval : scheduleTransactionHistoryExport(p)
         \/ \E n \in FileName : downloadTransactionHistory(n)
  PROVE  ExportInv'
<1>1. ExportTyped /\ getToday \in Nat
  BY DEF ExportInv, ExportTyped
<1>2. UNCHANGED <<account, partialWrites, noTransactionsCache, exportJob>>
  BY DEF Midnight, purge, scheduleTransactionHistoryExport, downloadTransactionHistory
<1>3. getToday' \in Nat /\ getToday <= getToday'
  <2>1. getToday' = getToday + 1 \/ getToday' = getToday
    BY DEF Midnight, purge, scheduleTransactionHistoryExport, downloadTransactionHistory
  <2> QED
    BY <1>1, <2>1
<1>4. /\ DOMAIN partials' = ExportDay
      /\ \A d \in ExportDay : partials'[d] \in {partials[d], NoFile}
  <2>1. CASE purge
    <3>1. partials' = [d \in ExportDay |-> AfterPurge(partials[d])]
      BY <2>1 DEF purge
    <3>2. \A file : AfterPurge(file) \in {file, NoFile}
      BY DEF AfterPurge
    <3> QED
      BY <3>1, <3>2
  <2>2. CASE partials' = partials
    BY <1>1, <2>2 DEF ExportTyped
  <2> QED
    BY <2>1, <2>2 DEF Midnight, scheduleTransactionHistoryExport, downloadTransactionHistory
<1>5. ExportTyped'
  <2>1. /\ account' = account /\ noTransactionsCache' = noTransactionsCache
        /\ exportJob' = exportJob /\ DOMAIN partials' = ExportDay /\ getToday' \in Nat
    BY <1>2, <1>3, <1>4
  <2> QED
    BY <1>1, <2>1 DEF ExportTyped
<1>6. /\ \A d \in ExportDay : account'[d] = account[d]
      /\ \A w \in Worker : exportJob'[w].pc # "store" \/ exportJob'[w] = exportJob[w]
  BY <1>2
<1> QED
  BY <1>2, <1>3, <1>4, <1>5, <1>6, JobStepKeepsInv

\* The job of a worker that has nothing to store afterwards.
LEMMA WorkerKeepsInv ==
  ASSUME ExportInv, NEW w \in Worker, NEW job,
         exportJob' = [exportJob EXCEPT ![w] = job],
         job = IdleWorker \/ DOMAIN job = JobFields, job.pc # "store",
         UNCHANGED <<getToday, account, partials, partialWrites, noTransactionsCache>>
  PROVE  ExportInv'
<1>1. ExportTyped /\ getToday \in Nat
  BY DEF ExportInv, ExportTyped
<1>2. \A v \in Worker : exportJob'[v] = IF v = w THEN job ELSE exportJob[v]
  BY <1>1 DEF ExportTyped
<1>3. ExportTyped'
  <2>1. DOMAIN exportJob' = Worker
    BY <1>1 DEF ExportTyped
  <2>2. \A v \in Worker : exportJob'[v] = IdleWorker \/ DOMAIN exportJob'[v] = JobFields
    BY <1>1, <1>2 DEF ExportTyped
  <2> QED
    BY <1>1, <2>1, <2>2 DEF ExportTyped
<1>4. /\ \A d \in ExportDay : account'[d] = account[d]
      /\ \A d \in ExportDay : partials'[d] \in {partials[d], NoFile}
      /\ \A v \in Worker : exportJob'[v].pc # "store" \/ exportJob'[v] = exportJob[v]
      /\ getToday' \in Nat /\ getToday <= getToday'
  BY <1>1, <1>2
<1> QED
  BY <1>3, <1>4, JobStepKeepsInv

LEMMA NextDayIs ==
  ASSUME NEW job, DOMAIN job = JobFields, NEW txs, NEW early
  PROVE  DOMAIN NextDay(job, txs, early) = JobFields /\ NextDay(job, txs, early).pc # "store"
  BY DEF NextDay, JobFields

LEMMA ReadsKeepInv ==
  ASSUME ExportInv, NEW w \in Worker,
         startExport(w) \/ lookUpDay(w) \/ readPartial(w) \/ writeCsv(w) \/ failExport(w)
  PROVE  ExportInv'
<1>1. ExportTyped /\ (exportJob[w] = IdleWorker \/ DOMAIN exportJob[w] = JobFields)
  BY DEF ExportInv, ExportTyped
<1>2. UNCHANGED <<getToday, account, partials, partialWrites, noTransactionsCache>>
  BY DEF startExport, lookUpDay, readPartial, writeCsv, failExport
<1>3. ASSUME exportJob[w].pc # "idle" PROVE DOMAIN exportJob[w] = JobFields
  BY <1>3 DEF ExportInv, ExportTyped, IdleWorker
<1>4. IdleWorker.pc # "store"
  BY DEF IdleWorker
<1>5. CASE startExport(w)
  <2> DEFINE j == Head(exportQueue)
             range == standardizeIntervalFromParams(j.params)
             job == [pc |-> "day", params |-> j.params, attempt |-> j.attempt, day |-> range[1],
                     to |-> range[2], txs |-> << >>, got |-> << >>, began |-> getToday,
                     over |-> j.params[2] # Open /\ getToday > range[2], early |-> FALSE]
  <2>1. exportJob' = [exportJob EXCEPT ![w] = job]
    BY <1>5 DEF startExport
  <2>2. DOMAIN job = JobFields /\ job.pc # "store"
    BY DEF JobFields
  <2> HIDE DEF job
  <2> QED
    BY <1>2, <2>1, <2>2, WorkerKeepsInv
<1>6. CASE lookUpDay(w)
  <2>1. DOMAIN exportJob[w] = JobFields
    BY <1>3, <1>6 DEF lookUpDay
  <2>2. CASE exportJob' = [exportJob EXCEPT ![w].pc = "read"]
    <3> DEFINE job == [exportJob[w] EXCEPT !.pc = "read"]
    <3>1. exportJob' = [exportJob EXCEPT ![w] = job]
      BY <2>2
    <3>2. DOMAIN job = JobFields /\ job.pc # "store"
      BY <2>1 DEF JobFields
    <3> HIDE DEF job
    <3> QED
      BY <1>2, <3>1, <3>2, WorkerKeepsInv
  <2>3. ASSUME NEW early, exportJob' = [exportJob EXCEPT ![w] = NextDay(exportJob[w], << >>, early)]
        PROVE  ExportInv'
    <3> DEFINE job == NextDay(exportJob[w], << >>, early)
    <3>1. DOMAIN job = JobFields /\ job.pc # "store"
      BY <2>1, NextDayIs
    <3> HIDE DEF job
    <3> QED
      BY <1>2, <2>3, <3>1, WorkerKeepsInv DEF job
  <2>4. \/ exportJob' = [exportJob EXCEPT ![w].pc = "read"]
        \/ exportJob' = [exportJob EXCEPT ![w] =
                          NextDay(exportJob[w], << >>, noTransactionsCache[exportJob[w].day].early)]
    BY <1>6, Zenon DEF lookUpDay
  <2> QED
    BY <2>2, <2>3, <2>4
<1>7. CASE readPartial(w)
  <2>1. DOMAIN exportJob[w] = JobFields
    BY <1>3, <1>7 DEF readPartial
  <2> DEFINE file == partials[exportJob[w].day]
             job == NextDay(exportJob[w], file.txs, file.early)
  <2>2. exportJob' = [exportJob EXCEPT ![w] = job]
    BY <1>7 DEF readPartial
  <2>3. DOMAIN job = JobFields /\ job.pc # "store"
    BY <2>1, NextDayIs
  <2> HIDE DEF job
  <2> QED
    BY <1>2, <2>2, <2>3, WorkerKeepsInv
<1>8. CASE writeCsv(w) \/ failExport(w)
  <2>1. exportJob' = [exportJob EXCEPT ![w] = IdleWorker]
    BY <1>8 DEF writeCsv, failExport
  <2> QED
    BY <1>2, <1>4, <2>1, WorkerKeepsInv
<1> QED
  BY <1>5, <1>6, <1>7, <1>8

LEMMA FetchKeepsInv ==
  ASSUME ExportInv, NEW w \in Worker, fetchDay(w)
  PROVE  ExportInv'
<1> DEFINE job == [exportJob[w] EXCEPT !.got = getTransactionsInAsc(exportJob[w].day),
                                       !.began = getToday, !.pc = "store"]
<1>1. ExportTyped /\ getToday \in Nat
  BY DEF ExportInv, ExportTyped
<1>2. /\ UNCHANGED <<getToday, account, partials, partialWrites, noTransactionsCache>>
      /\ exportJob[w].pc = "day"
  BY DEF fetchDay
<1>3. DOMAIN exportJob[w] = JobFields
  BY <1>1, <1>2 DEF ExportTyped, IdleWorker
<1>4. exportJob' = [exportJob EXCEPT ![w] = job]
  BY <1>1, <1>3 DEF fetchDay, ExportTyped, JobFields
<1>5. /\ DOMAIN job = JobFields /\ job.pc = "store" /\ job.began = getToday
      /\ job.day = exportJob[w].day /\ job.got = getTransactionsInAsc(exportJob[w].day)
  BY <1>3 DEF JobFields
<1> HIDE DEF job
<1>6. \A v \in Worker : exportJob'[v] = IF v = w THEN job ELSE exportJob[v]
  BY <1>1, <1>4 DEF ExportTyped
<1>7. ExportTyped'
  <2>1. DOMAIN exportJob' = Worker
    BY <1>1, <1>4 DEF ExportTyped
  <2>2. \A v \in Worker : exportJob'[v] = IdleWorker \/ DOMAIN exportJob'[v] = JobFields
    BY <1>1, <1>5, <1>6 DEF ExportTyped
  <2> QED
    BY <1>1, <1>2, <2>1, <2>2 DEF ExportTyped
<1>8. /\ \A d, txs : OverWith(d, txs)' <=> OverWith(d, txs)
      /\ \A d, txs : FirstOf(d, txs)' <=> FirstOf(d, txs)
  BY <1>2 DEF OverWith, FirstOf, getTransactionsInAsc
<1>9. ASSUME NEW v \in Worker PROVE FetchSound(v)'
  <2>1. CASE v = w
    <3>1. exportJob'[v] = job
      BY <1>6, <2>1
    <3>2. ASSUME job.day \in ExportDay, getToday > job.day
          PROVE  OverWith(job.day, job.got)
      BY <1>1, <1>5, <3>2 DEF OverWith, ExportDay
    <3>3. ASSUME job.day \in ExportDay PROVE FirstOf(job.day, job.got)
      BY <1>1, <1>5, <3>3, FetchedAreFirst
    <3> QED
      BY <1>1, <1>2, <1>5, <1>8, <3>1, <3>2, <3>3 DEF FetchSound
  <2>2. CASE v # w
    <3>1. exportJob'[v] = exportJob[v] /\ FetchSound(v)
      BY <1>6, <2>2 DEF ExportInv
    <3> QED
      BY <1>2, <1>8, <3>1 DEF FetchSound
  <2> QED
    BY <2>1, <2>2
<1>10. \A p \in partialWrites' : p.day \in ExportDay => Holds(p.day, p.txs, p.early)'
  BY <1>2, <1>8 DEF ExportInv, Holds
<1>11. \A d \in ExportDay : CacheSound(d)'
  BY <1>2, <1>8 DEF ExportInv, CacheSound, Holds
<1> QED
  BY <1>7, <1>9, <1>10, <1>11 DEF ExportInv

\* What is stored is complete unless it is marked as early.
LEMMA StoreKeepsInv ==
  ASSUME ExportInv, NEW w \in Worker, storeDay(w)
  PROVE  ExportInv'
<1> DEFINE job == exportJob[w]
           early == job.began <= job.day /\ job.day # getToday
           next == [NextDay(job, job.got, FALSE) EXCEPT !.got = << >>]
<1>1. ExportTyped /\ getToday \in Nat
  BY DEF ExportInv, ExportTyped
<1>2. /\ UNCHANGED <<getToday, account>> /\ job.pc = "store"
      /\ exportJob' = [exportJob EXCEPT ![w] = next]
  BY DEF storeDay
<1>3. DOMAIN job = JobFields
  BY <1>1, <1>2 DEF ExportTyped, IdleWorker
<1>4. DOMAIN next = JobFields /\ next.pc # "store"
  <2>1. DOMAIN NextDay(job, job.got, FALSE) = JobFields /\ NextDay(job, job.got, FALSE).pc # "store"
    BY <1>3, NextDayIs
  <2> QED
    BY <2>1 DEF JobFields
<1> HIDE DEF next
<1>5. \A v \in Worker : exportJob'[v] = IF v = w THEN next ELSE exportJob[v]
  BY <1>1, <1>2 DEF ExportTyped
<1>6. /\ \A d, txs : OverWith(d, txs)' <=> OverWith(d, txs)
      /\ \A d, txs : FirstOf(d, txs)' <=> FirstOf(d, txs)
  BY <1>2 DEF OverWith, FirstOf, getTransactionsInAsc
<1>7. ASSUME NEW v \in Worker PROVE FetchSound(v)'
  <2>1. CASE v = w
    BY <1>4, <1>5, <2>1 DEF FetchSound
  <2>2. CASE v # w
    <3>1. exportJob'[v] = exportJob[v] /\ FetchSound(v)
      BY <1>5, <2>2 DEF ExportInv
    <3> QED
      BY <1>2, <1>6, <3>1 DEF FetchSound
  <2> QED
    BY <2>1, <2>2
<1>8. ASSUME job.day \in ExportDay, mayCache(job.day)
      PROVE  Holds(job.day, job.got, early)
  <2>1. FetchSound(w)
    BY DEF ExportInv
  <2>2. job.began \in Nat /\ job.day \in Int /\ FirstOf(job.day, job.got)
    BY <1>2, <1>8, <2>1 DEF FetchSound, ExportDay
  <2>3. ~early => job.began > job.day
    BY <1>8, <2>2 DEF mayCache
  <2> QED
    BY <1>2, <1>8, <2>1, <2>2, <2>3 DEF FetchSound, Holds
<1>9. ExportTyped' /\ (\A p \in partialWrites' : p.day \in ExportDay => Holds(p.day, p.txs, p.early))
        /\ \A d \in ExportDay :
             /\ partials'[d].whole => Holds(d, partials'[d].txs, partials'[d].early)
             /\ noTransactionsCache'[d] # NoFlag /\ ~noTransactionsCache'[d].early => OverWith(d, << >>)
  <2>1. DOMAIN exportJob' = Worker
    BY <1>1, <1>2 DEF ExportTyped
  <2>2. \A v \in Worker : exportJob'[v] = IdleWorker \/ DOMAIN exportJob'[v] = JobFields
    BY <1>1, <1>4, <1>5 DEF ExportTyped
  <2>3. /\ \A p \in partialWrites : p.day \in ExportDay => Holds(p.day, p.txs, p.early)
        /\ \A d \in ExportDay : CacheSound(d)
    BY DEF ExportInv
  <2>4. CASE /\ mayCache(job.day) /\ job.got # << >>
             /\ partials' = [partials EXCEPT ![job.day] = [whole |-> FALSE, created |-> getToday]]
             /\ partialWrites' = partialWrites \cup
                  {[day |-> job.day, txs |-> job.got, early |-> early]}
             /\ UNCHANGED noTransactionsCache
    <3>1. ExportTyped'
      BY <1>1, <1>2, <2>1, <2>2, <2>4 DEF ExportTyped
    <3> DEFINE new == [day |-> job.day, txs |-> job.got, early |-> early]
    <3>2. new.day = job.day /\ new.txs = job.got /\ (new.early <=> early)
      OBVIOUS
    <3>3. partialWrites' = partialWrites \cup {new}
      BY <2>4
    <3> HIDE DEF new, early
    <3>4. \A p \in partialWrites' : p.day \in ExportDay => Holds(p.day, p.txs, p.early)
      BY <1>8, <2>3, <2>4, <3>2, <3>3
    <3>5. \A d \in ExportDay : partials'[d] = partials[d] \/ ~partials'[d].whole
      BY <1>1, <2>4 DEF ExportTyped
    <3>6. \A d \in ExportDay :
            /\ partials'[d].whole => Holds(d, partials'[d].txs, partials'[d].early)
            /\ noTransactionsCache'[d] # NoFlag /\ ~noTransactionsCache'[d].early => OverWith(d, << >>)
      BY <2>3, <2>4, <3>5 DEF CacheSound
    <3> QED
      BY <3>1, <3>4, <3>6
  <2>5. CASE /\ mayCache(job.day) /\ job.got = << >>
             /\ noTransactionsCache' = [noTransactionsCache EXCEPT ![job.day] =
                                          [at |-> getToday, early |-> early]]
             /\ UNCHANGED <<partials, partialWrites>>
    <3>1. ExportTyped'
      BY <1>1, <1>2, <2>1, <2>2, <2>5 DEF ExportTyped
    <3> DEFINE new == [at |-> getToday, early |-> early]
    <3>2. (new.early <=> early) /\ (~early => OverWith(job.day, << >>) \/ job.day \notin ExportDay)
      BY <1>8, <2>5 DEF Holds
    <3> HIDE DEF new, early
    <3>3. \A d \in ExportDay :
            noTransactionsCache'[d] = IF d = job.day THEN new ELSE noTransactionsCache[d]
      BY <1>1, <2>5 DEF ExportTyped, new
    <3>4. \A d \in ExportDay :
            /\ partials'[d].whole => Holds(d, partials'[d].txs, partials'[d].early)
            /\ noTransactionsCache'[d] # NoFlag /\ ~noTransactionsCache'[d].early => OverWith(d, << >>)
      BY <2>3, <2>5, <3>2, <3>3 DEF CacheSound
    <3> QED
      BY <2>3, <2>5, <3>1, <3>4
  <2>6. CASE UNCHANGED <<partials, partialWrites, noTransactionsCache>>
    <3>1. ExportTyped'
      BY <1>1, <1>2, <2>1, <2>2, <2>6 DEF ExportTyped
    <3> QED
      BY <2>3, <2>6, <3>1 DEF CacheSound
  <2> QED
    BY <2>4, <2>5, <2>6 DEF storeDay
<1>10. \A d \in ExportDay : CacheSound(d)'
  BY <1>6, <1>9 DEF CacheSound, Holds
<1> QED
  BY <1>6, <1>7, <1>9, <1>10 DEF ExportInv, Holds

LEMMA WriteKeepsInv ==
  ASSUME ExportInv, NEW p \in partialWrites, writtenPartial(p)
  PROVE  ExportInv'
<1> DEFINE file == [whole |-> TRUE, created |-> getToday, txs |-> p.txs, early |-> p.early]
<1>1. ExportTyped /\ getToday \in Nat
  BY DEF ExportInv, ExportTyped
<1>2. /\ partialWrites' = partialWrites \ {p} /\ partials' = [partials EXCEPT ![p.day] = file]
      /\ UNCHANGED <<getToday, account, noTransactionsCache, exportJob>>
  BY DEF writtenPartial
<1>3. file.early = p.early /\ file.txs = p.txs
  OBVIOUS
<1> HIDE DEF file
<1>4. /\ \A d, txs : OverWith(d, txs)' <=> OverWith(d, txs)
      /\ \A d, txs : FirstOf(d, txs)' <=> FirstOf(d, txs)
  BY <1>2 DEF OverWith, FirstOf, getTransactionsInAsc
<1>5. ExportTyped'
  BY <1>1, <1>2 DEF ExportTyped
<1>6. \A w \in Worker : FetchSound(w)'
  BY <1>2, <1>4 DEF ExportInv, FetchSound
<1>7. \A q \in partialWrites' : q.day \in ExportDay => Holds(q.day, q.txs, q.early)'
  BY <1>2, <1>4 DEF ExportInv, Holds
<1>8. ASSUME NEW d \in ExportDay PROVE CacheSound(d)'
  <2>1. partials'[d] = IF d = p.day THEN file ELSE partials[d]
    BY <1>1, <1>2 DEF ExportTyped
  <2>2. CacheSound(d) /\ (p.day \in ExportDay => Holds(p.day, p.txs, p.early))
    BY DEF ExportInv
  <2> QED
    BY <1>2, <1>3, <1>4, <2>1, <2>2 DEF CacheSound, Holds
<1> QED
  BY <1>5, <1>6, <1>7, <1>8 DEF ExportInv

LEMMA ExportStepsKeepInv == ExportInv /\ ExportNext => ExportInv'
<1> SUFFICES ASSUME ExportInv, ExportNext PROVE ExportInv'
  OBVIOUS
<1>1. ASSUME NEW w \in Worker, ExportJobStep(w) PROVE ExportInv'
  BY <1>1, ReadsKeepInv, FetchKeepsInv, StoreKeepsInv DEF ExportJobStep
<1>2. ASSUME NEW p \in partialWrites, writtenPartial(p) PROVE ExportInv'
  BY <1>2, WriteKeepsInv
<1> QED
  BY <1>1, <1>2, AccountKeepsInv, QuietStepsKeepInv DEF ExportNext

LEMMA ExportInvUnchanged == ExportInv /\ UNCHANGED exportVars => ExportInv'
<1> SUFFICES ASSUME ExportInv, UNCHANGED exportVars PROVE ExportInv'
  OBVIOUS
<1>1. ExportTyped /\ getToday \in Nat
  BY DEF ExportInv, ExportTyped
<1>2. UNCHANGED <<getToday, account, partials, partialWrites, noTransactionsCache, exportJob>>
  BY DEF exportVars
<1>3. ExportTyped'
  BY <1>1, <1>2 DEF ExportTyped
<1> QED
  BY <1>1, <1>2, <1>3, JobStepKeepsInv

LEMMA ExportInvComplete == ExportInv => CachedDaysComplete
<1> SUFFICES ASSUME ExportInv, NEW d \in ExportDay
             PROVE  /\ partials[d].whole => FirstOf(d, partials[d].txs)
                    /\ partials[d].whole /\ ~partials[d].early => partials[d].txs = Exported(d)
                    /\ noTransactionsCache[d] # NoFlag /\ ~noTransactionsCache[d].early =>
                         account[d] = << >>
  BY DEF CachedDaysComplete, FirstOf
<1>1. PICK S : account[d] \in Seq(S)
  BY DEF ExportInv, ExportTyped
<1>2. CacheSound(d)
  BY DEF ExportInv
<1> DEFINE s == account[d]
<1>3. s \in Seq(S) /\ Len(s) \in Nat /\ MAX_NUM_TRANSACTIONS \in Nat /\ MAX_NUM_TRANSACTIONS > 0
  BY <1>1, ExportAssumption
<1> HIDE DEF s
<1>4. SubSeq(s, 1, Len(s)) = s
  BY <1>3
<1>5. SubSeq(s, 1, IF Len(s) > MAX_NUM_TRANSACTIONS THEN MAX_NUM_TRANSACTIONS ELSE Len(s)) = << >>
        => s = << >>
  <2> DEFINE n == IF Len(s) > MAX_NUM_TRANSACTIONS THEN MAX_NUM_TRANSACTIONS ELSE Len(s)
  <2>1. n \in 0..Len(s) /\ (n = 0 => Len(s) = 0)
    BY <1>3
  <2> HIDE DEF n
  <2>2. Len(SubSeq(s, 1, n)) = n
    BY <1>3, <2>1
  <2>3. SubSeq(s, 1, n) = << >> => n = 0
    BY <2>2
  <2>4. Len(s) = 0 => s = << >>
    BY <1>3
  <2> QED
    BY <2>1, <2>3, <2>4 DEF n
<1> QED
  BY <1>2, <1>4, <1>5 DEF CacheSound, Holds, OverWith, getTransactionsInAsc, Exported, s

\* A day that Export has cached is complete for as long as it is cached, unless it
\* was fetched before it was over and cached when it was, and even then holds the
\* first of the day's transactions (csvExport.js, exportCache.js): for any account,
\* any intervals, any number of jobs at a time and any retention.
THEOREM CachedDaysAlwaysComplete == Spec => []CachedDaysComplete
<1>1. Init => ExportInv
  BY ExportInitInv DEF Init
<1>2. ExportInv /\ [Next]_vars => ExportInv'
  BY ExportStepsKeepInv, ExportInvUnchanged
     DEF Next, vars, MarketStep, StatisticsStep, ExportStep, RegistryStep
<1> QED
  BY <1>1, <1>2, ExportInvComplete, PTL DEF Spec
-----------------------------------------------------------------------------
(* Transaction Statistics                                                  *)

TokenID == Token \cup {UNAVAILABLE}
TxRow == [at : Nat, group : Group, tokenID : TokenID, place : Int]
Building ==
  [date : Day, total : Nat, page : Nat, counts : [Group -> Nat],
   tokens : [Group -> TokenID], over : BOOLEAN]

StatsTyped ==
  /\ now \in Nat /\ now <= 2 * LastDay + 1
  /\ indexedTxs \subseteq TxRow /\ IsFiniteSet(indexedTxs)
  /\ forked \subseteq Group
  /\ statsTable \in [Day -> [Group -> Nat]]
  /\ tokenIDs \in [Day -> [Group -> TokenID]]
  /\ statsQueue \in Seq(Day)
  /\ build \in Building \cup {NoJob}
  /\ settled \subseteq Day

\* No two rows share a place in the listing.
PlacesDiffer == \A tx, other \in indexedTxs : tx.place = other.place => tx = other

\* What was built as a day that is over stays so.
StaysOver ==
  /\ \A d \in settled : now > 2 * d + 2
  /\ build # NoJob /\ build.over => now > 2 * build.date + 2

\* Who is counted is there, unless a fork dropped one of that kind.
Seen(d, g) == \E tx \in ofDay(d) : tx.group = g
CountedSeen ==
  /\ \A d \in Day, g \in Group : statsTable[d][g] > 0 /\ g \notin forked => Seen(d, g)
  /\ build # NoJob =>
       \A g \in Group : build.counts[g] > 0 /\ g \notin forked => Seen(build.date, g)

\* The pages so far hold no more than they can, nor, without forks, than the day.
PagesBounded ==
  /\ forked = {} => \A d \in Day, g \in Group : statsTable[d][g] <= Cardinality(ofDay(d))
  /\ build # NoJob =>
       \A g \in Group : /\ build.counts[g] <= PageSize * build.page
                        /\ forked = {} => build.counts[g] <= Cardinality(ofDay(build.date))

upTo(txs, n) == {tx \in txs : placeIn(txs, tx) < PageSize * n}

\* Of a day that is over, the pages so far are exactly counted, and no page will
\* be left out.
OverExact ==
  build # NoJob /\ build.over =>
    LET there == ofDay(build.date)
    IN  /\ \A g \in Group : build.counts[g] = CountIn(upTo(there, build.page), g)
        /\ \/ build.total = Cardinality(there) \/ Cardinality(there) = 0
           \/ PageSize * build.page >= Cardinality(there)

SettledExact ==
  \A d \in settled, g \in Group :
    g \notin forked \/ CountIn(ofDay(d), g) > 0 => statsTable[d][g] = CountIn(ofDay(d), g)

\* The token of a group is that of one of its transactions of the day.
Names(d, g, token) == \E tx \in ofDay(d) : tx.group = g /\ tx.tokenID = token
OverNamed ==
  build # NoJob /\ build.over =>
    \A g \in Group : build.counts[g] > 0 => Names(build.date, g, build.tokens[g])
SettledNamed ==
  \A d \in settled, g \in Group : Seen(d, g) => Names(d, g, tokenIDs[d][g])

StatsInv ==
  /\ StatsTyped /\ PlacesDiffer /\ StaysOver /\ CountedSeen /\ PagesBounded
  /\ OverExact /\ SettledExact /\ OverNamed /\ SettledNamed

LEMMA StatisticsConstants ==
  /\ IsFiniteSet(Group)
  /\ LastDay \in Nat /\ historyLengthDays \in Nat /\ PageSize \in Nat /\ PageSize >= 1
  /\ DefaultMaxAmount \in Nat
  BY StatisticsAssumption

LEMMA BuildingIs ==
  \A b \in Building : /\ b # NoJob
                      /\ b.date \in Day /\ b.total \in Nat /\ b.page \in Nat
                      /\ b.counts \in [Group -> Nat] /\ b.tokens \in [Group -> TokenID]
                      /\ b.over \in BOOLEAN
<1>1. \A b \in Building : b.date # NoJob.date
  BY StatisticsConstants DEF Building, NoJob, Day
<1> QED
  BY <1>1 DEF Building

\* Whatever part of the rows is meant, it can be counted.
LEMMA RowsFinite ==
  ASSUME IsFiniteSet(indexedTxs)
  PROVE  /\ \A d : ofDay(d) \subseteq indexedTxs /\ IsFiniteSet(ofDay(d))
         /\ \A T \in SUBSET indexedTxs :
              /\ IsFiniteSet(T) /\ Cardinality(T) \in Nat
              /\ \A U \in SUBSET T : IsFiniteSet(U) /\ Cardinality(U) \in Nat
                                     /\ Cardinality(U) <= Cardinality(T)
<1>1. \A d : ofDay(d) \in SUBSET indexedTxs
  BY DEF ofDay
<1>2. \A T \in SUBSET indexedTxs : IsFiniteSet(T) /\ Cardinality(T) \in Nat
  BY FS_Subset, FS_CardinalityType
<1>3. ASSUME NEW T \in SUBSET indexedTxs, NEW U \in SUBSET T
      PROVE  IsFiniteSet(U) /\ Cardinality(U) \in Nat /\ Cardinality(U) <= Cardinality(T)
  BY <1>2, FS_Subset, FS_CardinalityType
<1> QED
  BY <1>1, <1>2, <1>3

LEMMA CountIs ==
  ASSUME NEW T, IsFiniteSet(T), NEW g
  PROVE  /\ CountIn(T, g) \in Nat /\ CountIn(T, g) <= Cardinality(T)
         /\ CountIn(T, g) = 0 <=> ~\E tx \in T : tx.group = g
<1> DEFINE U == {tx \in T : tx.group = g}
<1>1. U \in SUBSET T
  OBVIOUS
<1>2. IsFiniteSet(U) /\ Cardinality(U) <= Cardinality(T) /\ Cardinality(U) \in Nat
  BY <1>1, FS_Subset, FS_CardinalityType
<1>3. Cardinality(U) = 0 <=> U = {}
  BY <1>2, FS_EmptySet
<1> QED
  BY <1>2, <1>3 DEF CountIn

\* Pages do not overlap.
LEMMA CountsAdd ==
  ASSUME NEW T, IsFiniteSet(T), NEW U, IsFiniteSet(U), T \cap U = {}, NEW g
  PROVE  CountIn(T \cup U, g) = CountIn(T, g) + CountIn(U, g)
<1> DEFINE ofGroup(V) == {tx \in V : tx.group = g}
<1>1. IsFiniteSet(ofGroup(T)) /\ IsFiniteSet(ofGroup(U))
  <2>1. ofGroup(T) \in SUBSET T /\ ofGroup(U) \in SUBSET U
    OBVIOUS
  <2> QED
    BY <2>1, FS_Subset
<1>2. ofGroup(T \cup U) = ofGroup(T) \cup ofGroup(U) /\ ofGroup(T) \cap ofGroup(U) = {}
  OBVIOUS
<1>3. Cardinality(ofGroup(T) \cup ofGroup(U))
        = Cardinality(ofGroup(T)) + Cardinality(ofGroup(U)) - Cardinality(ofGroup(T) \cap ofGroup(U))
  BY <1>1, FS_Union
<1>4. Cardinality(ofGroup(T)) \in Nat /\ Cardinality(ofGroup(U)) \in Nat
  BY <1>1, FS_CardinalityType
<1>5. Cardinality(ofGroup(T) \cup ofGroup(U)) = Cardinality(ofGroup(T)) + Cardinality(ofGroup(U))
  BY <1>2, <1>3, <1>4, FS_EmptySet
<1> QED
  BY <1>2, <1>5 DEF CountIn

LEMMA MultiplesOfPageSize ==
  ASSUME NEW n \in Nat
  PROVE  /\ PageSize * n \in Nat /\ PageSize * (n + 1) \in Nat
         /\ PageSize * (n + 1) = PageSize * n + PageSize
  BY StatisticsConstants

\* In a listing, a row has as many rows before it as its place says, and the first
\* pages together hold as many rows as they can.
LEMMA PagesAre ==
  ASSUME NEW T, IsFiniteSet(T), T \subseteq TxRow,
         \A tx, other \in T : tx.place = other.place => tx = other,
         NEW n \in Nat
  PROVE  /\ \A tx \in T : placeIn(T, tx) \in Nat /\ placeIn(T, tx) < Cardinality(T)
         /\ upTo(T, n) \subseteq T /\ pageOf(T, n) \subseteq T
         /\ upTo(T, n + 1) = upTo(T, n) \cup pageOf(T, n) /\ upTo(T, n) \cap pageOf(T, n) = {}
         /\ Cardinality(pageOf(T, n)) <= PageSize
         /\ pageOf(T, n) # {} => Cardinality(upTo(T, n)) >= PageSize * n
         /\ pageOf(T, n) = {} => Cardinality(T) <= PageSize * n
<1> DEFINE before == [tx \in T |-> {other \in T : other.place < tx.place}]
           P == PageSize * n
<1>1. before \in [T -> SUBSET T] /\ \A tx \in T : tx \notin before[tx]
  BY DEF TxRow
<1>2. \A tx, other \in T : tx # other => before[tx] \cup {tx} \subseteq before[other]
                                         \/ before[other] \cup {other} \subseteq before[tx]
  BY DEF TxRow
<1>3. \A tx \in T : placeIn(T, tx) = Cardinality(before[tx])
  BY DEF placeIn
<1>4. \A tx, other \in T : tx.place < other.place => before[tx] \cup {tx} \subseteq before[other]
  BY DEF TxRow
<1> HIDE DEF before
<1>5. /\ \A i \in 1..Cardinality(T) : \E tx \in T : Cardinality(before[tx]) = i - 1
      /\ \A tx \in T : Cardinality(before[tx]) \in 0..Cardinality(T) - 1
      /\ \A tx, other \in T : before[tx] \cup {tx} \subseteq before[other]
                              => Cardinality(before[tx]) < Cardinality(before[other])
  BY <1>1, <1>2, EveryRankTaken
<1>6. Cardinality(T) \in Nat
  BY FS_CardinalityType
<1>7. \A tx \in T : placeIn(T, tx) \in Nat /\ placeIn(T, tx) < Cardinality(T)
  BY <1>3, <1>5, <1>6
<1>8. \A i \in 0..Cardinality(T) - 1 : \E tx \in T : placeIn(T, tx) = i
  <2> SUFFICES ASSUME NEW i \in 0..Cardinality(T) - 1
               PROVE  \E tx \in T : placeIn(T, tx) = i
    OBVIOUS
  <2>1. i + 1 \in 1..Cardinality(T) /\ (i + 1) - 1 = i
    BY <1>6
  <2> QED
    BY <1>3, <1>5, <2>1
<1>9. \A tx, other \in T : placeIn(T, tx) = placeIn(T, other) => tx = other
  <2> SUFFICES ASSUME NEW tx \in T, NEW other \in T, tx # other
               PROVE  placeIn(T, tx) # placeIn(T, other)
    OBVIOUS
  <2>1. tx.place \in Int /\ other.place \in Int /\ tx.place # other.place
    BY DEF TxRow
  <2>2. tx.place < other.place \/ other.place < tx.place
    BY <2>1
  <2>3. Cardinality(before[tx]) < Cardinality(before[other])
        \/ Cardinality(before[other]) < Cardinality(before[tx])
    BY <1>4, <1>5, <2>2
  <2> QED
    BY <1>3, <1>7, <2>3
<1>10. P \in Nat /\ PageSize * (n + 1) = P + PageSize /\ PageSize \in Nat /\ PageSize >= 1
  BY MultiplesOfPageSize, StatisticsConstants
<1> HIDE DEF P
<1>11. upTo(T, n) = {tx \in T : placeIn(T, tx) < P}
       /\ upTo(T, n + 1) = {tx \in T : placeIn(T, tx) < P + PageSize}
       /\ pageOf(T, n) = {tx \in T : P <= placeIn(T, tx) /\ placeIn(T, tx) < P + PageSize}
  BY <1>10 DEF upTo, pageOf, P
<1>12. /\ upTo(T, n) \subseteq T /\ pageOf(T, n) \subseteq T
       /\ upTo(T, n + 1) = upTo(T, n) \cup pageOf(T, n) /\ upTo(T, n) \cap pageOf(T, n) = {}
  BY <1>7, <1>10, <1>11
<1>13. Cardinality(pageOf(T, n)) <= PageSize
  <2> DEFINE places == P .. P + PageSize - 1
             f == [tx \in pageOf(T, n) |-> placeIn(T, tx)]
  <2>1. IsFiniteSet(places) /\ Cardinality(places) = PageSize
    BY <1>10, FS_Interval
  <2>2. f \in Injection(pageOf(T, n), places)
    BY <1>7, <1>9, <1>10, <1>11 DEF Injection, IsInjective
  <2> QED
    BY <2>1, <2>2, FS_Injection
<1>14. ASSUME pageOf(T, n) # {} PROVE Cardinality(upTo(T, n)) >= P
  <2>1. P < Cardinality(T)
    BY <1>6, <1>7, <1>10, <1>11, <1>14
  <2> DEFINE places == 0 .. P - 1
             f == [tx \in upTo(T, n) |-> placeIn(T, tx)]
  <2>2. f \in [upTo(T, n) -> places]
    BY <1>7, <1>10, <1>11
  <2>3. \A i \in places : \E tx \in upTo(T, n) : f[tx] = i
    BY <1>6, <1>8, <1>10, <1>11, <2>1
  <2>4. f \in Surjection(upTo(T, n), places)
    BY <2>2, <2>3 DEF Surjection
  <2>5. IsFiniteSet(upTo(T, n)) /\ Cardinality(upTo(T, n)) \in Nat
    BY <1>12, FS_Subset, FS_CardinalityType
  <2>6. Cardinality(places) = P
    BY <1>10, FS_Interval
  <2> QED
    BY <1>10, <2>4, <2>5, <2>6, FS_Surjection
<1>15. ASSUME pageOf(T, n) = {} PROVE Cardinality(T) <= P
  <2> SUFFICES ASSUME P < Cardinality(T) PROVE FALSE
    BY <1>6, <1>10
  <2>1. P \in 0..Cardinality(T) - 1
    BY <1>6, <1>10
  <2>2. PICK tx \in T : placeIn(T, tx) = P
    BY <1>8, <2>1
  <2> QED
    BY <1>10, <1>11, <1>15, <2>2
<1> QED
  BY <1>7, <1>12, <1>13, <1>14, <1>15 DEF P

\* Days are told apart by the times of their transactions, and today is one.
LEMMA TodayIs ==
  ASSUME StatsTyped
  PROVE  today \in Day /\ \A n \in Nat : fetchTransactionsForPastNDays(n) \in Seq(Day)
<1>1. now \in Nat /\ LastDay \in Nat /\ now <= 2 * LastDay + 1
  BY StatisticsConstants DEF StatsTyped
<1>2. today \in Nat /\ 2 * today <= now
  BY <1>1 DEF today
<1>3. today \in Day
  BY <1>1, <1>2 DEF Day
<1>4. ASSUME NEW n \in Nat PROVE fetchTransactionsForPastNDays(n) \in Seq(Day)
  <2> DEFINE k == Min({n, today + 1})
  <2>1. k = IF n <= today + 1 THEN n ELSE today + 1
    BY <1>2, OfTwo
  <2>2. k \in Nat /\ k <= today + 1
    BY <1>2, <2>1
  <2> HIDE DEF k
  <2>3. \A i \in 1..k : today - (i - 1) \in Day
    BY <1>2, <1>3, <2>2, StatisticsConstants DEF Day
  <2>4. [i \in 1..k |-> today - (i - 1)] \in Seq(Day)
    BY <2>2, <2>3
  <2> QED
    BY <2>4 DEF fetchTransactionsForPastNDays, k
<1> QED
  BY <1>3, <1>4

LEMMA StatisticsInitInv == StatisticsInit => StatsInv
<1> SUFFICES ASSUME StatisticsInit PROVE StatsInv
  OBVIOUS
<1>1. now = 1 /\ now \in Nat /\ now <= 2 * LastDay + 1
  BY StatisticsConstants DEF StatisticsInit
<1>2. today = 0
  BY <1>1 DEF today
<1>3. fetchTransactionsForPastNDays(historyLengthDays) \in Seq(Day)
  <2> DEFINE k == Min({historyLengthDays, today + 1})
  <2>1. k = IF historyLengthDays <= 1 THEN historyLengthDays ELSE 1
    BY <1>2, OfTwo, StatisticsConstants
  <2>2. k \in {0, 1}
    BY <2>1, StatisticsConstants
  <2> HIDE DEF k
  <2>3. \A i \in 1..k : today - (i - 1) \in Day
    BY <1>2, <2>2, StatisticsConstants DEF Day
  <2>4. [i \in 1..k |-> today - (i - 1)] \in Seq(Day)
    BY <2>2, <2>3
  <2> QED
    BY <2>4 DEF fetchTransactionsForPastNDays, k
<1>4. StatsTyped
  BY <1>1, <1>3, FS_EmptySet DEF StatisticsInit, StatsTyped, TokenID
<1>5. \A d : ofDay(d) = {}
  BY DEF StatisticsInit, ofDay
<1>6. PlacesDiffer /\ StaysOver /\ OverExact /\ SettledExact /\ OverNamed /\ SettledNamed
  BY DEF StatisticsInit, PlacesDiffer, StaysOver, OverExact, SettledExact, OverNamed,
         SettledNamed
<1>7. CountedSeen
  BY DEF StatisticsInit, CountedSeen
<1>8. PagesBounded
  BY <1>5, FS_EmptySet DEF StatisticsInit, PagesBounded
<1> QED
  BY <1>4, <1>6, <1>7, <1>8 DEF StatsInv

\* What becomes of a day when the rows change: a day that is over stays as it is.
LEMMA NewTransactionKeepsInv ==
  ASSUME StatsInv, NEW g \in Group, NEW token \in TokenID, NEW place \in NewPlaces,
         NewTransaction(g, token, place)
  PROVE  StatsInv'
<1> DEFINE tx == [at |-> now, group |-> g, tokenID |-> token, place |-> place]
<1> USE DEF StatsInv
<1>1. /\ indexedTxs' = indexedTxs \cup {tx}
      /\ UNCHANGED <<now, forked, statsTable, tokenIDs, statsQueue, build, settled, mishaps>>
  BY DEF NewTransaction
<1>2. place \in Int /\ \A row \in indexedTxs : row.place # place
  <2> DEFINE used == {row.place : row \in indexedTxs}
  <2>1. \A row \in indexedTxs : row.place \in Int
    BY DEF StatsTyped, TxRow
  <2>2. used \subseteq Int
    BY <2>1
  <2>3. CASE used = {}
    BY <2>3 DEF NewPlaces
  <2>4. CASE used # {}
    <3>1. IsFiniteSet(used)
      <4> DEFINE f == [row \in indexedTxs |-> row.place]
      <4>1. f \in Surjection(indexedTxs, used)
        BY DEF Surjection
      <4> QED
        BY <4>1, FS_Surjection DEF StatsTyped
    <3>2. place = Min(used) - 1 \/ place = Max(used) + 1
      BY <2>4 DEF NewPlaces
    <3>3. /\ Min(used) \in used /\ \A x \in used : Min(used) <= x
          /\ Max(used) \in used /\ \A x \in used : x <= Max(used)
      BY <2>2, <2>4, <3>1, FiniteHasEnds
    <3>4. Min(used) \in Int /\ Max(used) \in Int
      BY <2>2, <3>3
    <3>5. ASSUME NEW row \in indexedTxs PROVE row.place # place
      <4>1. row.place \in used
        OBVIOUS
      <4> HIDE DEF used
      <4>2. row.place \in Int /\ Min(used) <= row.place /\ row.place <= Max(used)
        BY <2>1, <3>3, <4>1
      <4> QED
        BY <3>2, <3>4, <4>2
    <3> QED
      BY <3>2, <3>4, <3>5
  <2> QED
    BY <2>3, <2>4
<1>3. StatsTyped'
  <2>1. tx \in TxRow
    BY <1>2 DEF StatsTyped, TxRow
  <2>2. IsFiniteSet(indexedTxs \cup {tx})
    BY FS_AddElement DEF StatsTyped
  <2> QED
    BY <1>1, <2>1, <2>2 DEF StatsTyped
<1>4. PlacesDiffer'
  BY <1>1, <1>2 DEF PlacesDiffer
<1>5. ASSUME NEW d \in Day
      PROVE  /\ ofDay(d) \subseteq ofDay(d)' /\ (now > 2 * d + 2 => ofDay(d)' = ofDay(d))
             /\ Cardinality(ofDay(d)) \in Nat /\ Cardinality(ofDay(d)') \in Nat
             /\ Cardinality(ofDay(d)) <= Cardinality(ofDay(d)')
  <2>1. d \in Nat /\ now \in Nat
    BY StatisticsConstants DEF Day, StatsTyped
  <2>2. ofDay(d) \subseteq ofDay(d)' /\ ofDay(d)' \subseteq indexedTxs'
    BY <1>1 DEF ofDay
  <2>3. now > 2 * d + 2 => ofDay(d)' = ofDay(d)
    BY <1>1, <2>1 DEF ofDay
  <2>4. IsFiniteSet(ofDay(d)')
    BY <1>3, <2>2, FS_Subset DEF StatsTyped
  <2>5. IsFiniteSet(ofDay(d)) /\ Cardinality(ofDay(d)) <= Cardinality(ofDay(d)')
    BY <2>2, <2>4, FS_Subset
  <2> QED
    BY <2>2, <2>3, <2>4, <2>5, FS_CardinalityType
<1>6. StaysOver'
  BY <1>1 DEF StaysOver
<1>7. build # NoJob => build.date \in Day /\ build.counts \in [Group -> Nat]
  BY BuildingIs DEF StatsTyped
<1>8. \A d \in Day : \A h : Seen(d, h) => Seen(d, h)'
  BY <1>5 DEF Seen
<1>9. CountedSeen'
  BY <1>1, <1>7, <1>8 DEF CountedSeen
<1>10. PagesBounded'
  <2>1. forked = {} => \A d \in Day, h \in Group : statsTable[d][h] <= Cardinality(ofDay(d)')
    <3> SUFFICES ASSUME forked = {}, NEW d \in Day, NEW h \in Group
                 PROVE  statsTable[d][h] <= Cardinality(ofDay(d)')
      OBVIOUS
    <3>1. statsTable[d][h] \in Nat /\ statsTable[d][h] <= Cardinality(ofDay(d))
      BY DEF PagesBounded, StatsTyped
    <3> QED
      BY <1>5, <3>1
  <2>2. ASSUME build # NoJob, NEW d \in Day, d = build.date, NEW h \in Group
        PROVE  /\ build.counts[h] <= PageSize * build.page
               /\ forked = {} => build.counts[h] <= Cardinality(ofDay(d)')
    <3>1. build.counts[h] \in Nat
      BY <1>7, <2>2
    <3>2. /\ build.counts[h] <= PageSize * build.page
          /\ forked = {} => build.counts[h] <= Cardinality(ofDay(d))
      BY <2>2 DEF PagesBounded
    <3> QED
      BY <1>5, <3>1, <3>2
  <2> QED
    BY <1>1, <1>7, <2>1, <2>2 DEF PagesBounded
<1>11. OverExact'
  <2> SUFFICES ASSUME build # NoJob, build.over PROVE OverExact'
    BY <1>1 DEF OverExact
  <2>1. ASSUME NEW d \in Day, d = build.date PROVE ofDay(d)' = ofDay(d)
    BY <1>5, <2>1 DEF StaysOver
  <2> QED
    BY <1>1, <1>7, <2>1 DEF OverExact
<1>12. SettledExact'
  <2>1. \A d \in settled : ofDay(d)' = ofDay(d)
    BY <1>5 DEF StaysOver, StatsTyped
  <2> QED
    BY <1>1, <2>1 DEF SettledExact
<1>13. OverNamed' /\ SettledNamed'
  <2>1. ASSUME build # NoJob, build.over PROVE ofDay(build.date)' = ofDay(build.date)
    <3>1. ASSUME NEW d \in Day, d = build.date PROVE ofDay(d)' = ofDay(d)
      BY <1>5, <2>1, <3>1 DEF StaysOver
    <3>2. build.date \in Day
      BY <1>7, <2>1
    <3> QED
      BY <1>1, <3>1, <3>2 DEF ofDay
  <2>2. \A d \in settled : ofDay(d)' = ofDay(d)
    BY <1>5 DEF StaysOver, StatsTyped
  <2>3. OverNamed'
    BY <1>1, <2>1 DEF OverNamed, Names, Seen
  <2>4. SettledNamed'
    BY <1>1, <2>2 DEF SettledNamed, Names, Seen
  <2> QED
    BY <2>3, <2>4
<1> QED
  BY <1>3, <1>4, <1>6, <1>9, <1>10, <1>11, <1>12, <1>13

LEMMA DropTransactionKeepsInv ==
  ASSUME StatsInv, NEW tx \in indexedTxs, DropTransaction(tx)
  PROVE  StatsInv'
<1> USE DEF StatsInv
<1>1. /\ tx.at = now /\ indexedTxs' = indexedTxs \ {tx} /\ forked' = forked \cup {tx.group}
      /\ UNCHANGED <<now, statsTable, tokenIDs, statsQueue, build, settled, mishaps>>
  BY DEF DropTransaction
<1>2. tx.group \in Group /\ tx.at \in Nat
  BY DEF StatsTyped, TxRow
<1>3. StatsTyped'
  BY <1>1, <1>2, FS_RemoveElement DEF StatsTyped
<1>4. PlacesDiffer' /\ StaysOver'
  BY <1>1 DEF PlacesDiffer, StaysOver
<1>5. ASSUME NEW d \in Day PROVE now > 2 * d + 2 => ofDay(d)' = ofDay(d)
  <2>1. d \in Nat /\ now \in Nat
    BY StatisticsConstants DEF Day, StatsTyped
  <2> QED
    BY <1>1, <2>1 DEF ofDay
<1>6. build # NoJob => build.date \in Day
  BY BuildingIs DEF StatsTyped
<1>7. ASSUME NEW d \in Day, NEW h, h \notin forked', Seen(d, h) PROVE Seen(d, h)'
  BY <1>1, <1>7 DEF Seen, ofDay
<1>8. CountedSeen'
  <2>1. forked \subseteq forked'
    BY <1>1
  <2> QED
    BY <1>1, <1>6, <1>7, <2>1 DEF CountedSeen
<1>9. PagesBounded'
  BY <1>1 DEF PagesBounded
<1>10. OverExact'
  <2> SUFFICES ASSUME build # NoJob, build.over PROVE OverExact'
    BY <1>1 DEF OverExact
  <2>1. ASSUME NEW d \in Day, d = build.date PROVE ofDay(d)' = ofDay(d)
    BY <1>5, <2>1 DEF StaysOver
  <2> QED
    BY <1>1, <1>6, <2>1 DEF OverExact
<1>11. SettledExact'
  <2>1. \A d \in settled : ofDay(d)' = ofDay(d)
    BY <1>5 DEF StaysOver, StatsTyped
  <2>2. forked \subseteq forked'
    BY <1>1
  <2> QED
    BY <1>1, <2>1, <2>2 DEF SettledExact
<1>12. OverNamed' /\ SettledNamed'
  <2>1. ASSUME build # NoJob, build.over PROVE ofDay(build.date)' = ofDay(build.date)
    <3>1. ASSUME NEW d \in Day, d = build.date PROVE ofDay(d)' = ofDay(d)
      BY <1>5, <2>1, <3>1 DEF StaysOver
    <3>2. build.date \in Day
      BY <1>6, <2>1
    <3> QED
      BY <1>1, <3>1, <3>2 DEF ofDay
  <2>2. \A d \in settled : ofDay(d)' = ofDay(d)
    BY <1>5 DEF StaysOver, StatsTyped
  <2>3. OverNamed'
    BY <1>1, <2>1 DEF OverNamed, Names, Seen
  <2>4. SettledNamed'
    BY <1>1, <2>2 DEF SettledNamed, Names, Seen
  <2> QED
    BY <2>3, <2>4
<1> QED
  BY <1>3, <1>4, <1>8, <1>9, <1>10, <1>11, <1>12

LEMMA TimePassesKeepsInv == ASSUME StatsInv, TimePasses PROVE StatsInv'
<1> USE DEF StatsInv
<1>1. /\ now' = now + 1 /\ now < 2 * LastDay + 1
      /\ UNCHANGED <<indexedTxs, forked, statsTable, tokenIDs, statsQueue, build, settled,
                     mishaps>>
  BY DEF TimePasses
<1>2. StatsTyped'
  BY <1>1, StatisticsConstants DEF StatsTyped
<1>3. StaysOver'
  <2>1. \A d \in Day : d \in Nat
    BY StatisticsConstants DEF Day
  <2>2. build # NoJob => build.date \in Day
    BY BuildingIs DEF StatsTyped
  <2>3. now \in Nat
    BY DEF StatsTyped
  <2>4. \A d \in settled : now' > 2 * d + 2
    BY <1>1, <2>1, <2>3 DEF StatsTyped, StaysOver
  <2>5. build # NoJob /\ build.over => now' > 2 * build.date + 2
    BY <1>1, <2>1, <2>2, <2>3 DEF StaysOver
  <2> QED
    BY <1>1, <2>4, <2>5 DEF StaysOver
<1>4. /\ PlacesDiffer' /\ CountedSeen' /\ PagesBounded' /\ OverExact' /\ SettledExact'
      /\ OverNamed' /\ SettledNamed'
  BY <1>1 DEF PlacesDiffer, CountedSeen, PagesBounded, OverExact, SettledExact, OverNamed,
              SettledNamed, Names, Seen, ofDay
<1> QED
  BY <1>2, <1>3, <1>4

\* A job that is scheduled, or given up, does not touch what has been built.
LEMMA SchedulingKeepsInv ==
  ASSUME StatsInv, init \/ updateTodayStats \/ FailJob
  PROVE  StatsInv'
<1> USE DEF StatsInv
<1>1. /\ UNCHANGED <<now, indexedTxs, forked, statsTable, tokenIDs, settled>>
      /\ build' = NoJob
  BY DEF init, updateTodayStats, FailJob
<1>2. statsQueue' \in Seq(Day)
  <2>1. /\ fetchTransactionsForPastNDays(historyLengthDays) \in Seq(Day)
        /\ fetchTransactionsForPastNDays(1) \in Seq(Day)
    BY TodayIs, StatisticsConstants
  <2>2. build # NoJob => <<build.date>> \in Seq(Day)
    BY BuildingIs DEF StatsTyped
  <2>3. statsQueue \in Seq(Day) /\ << >> \in Seq(Day)
    BY DEF StatsTyped
  <2>4. CASE init
    BY <2>1, <2>2, <2>3, <2>4, ConcatIs DEF init
  <2>5. CASE updateTodayStats
    BY <2>1, <2>5 DEF updateTodayStats
  <2>6. CASE FailJob
    BY <2>2, <2>3, <2>6, ConcatIs DEF FailJob
  <2> QED
    BY <2>4, <2>5, <2>6
<1>3. StatsTyped'
  BY <1>1, <1>2 DEF StatsTyped
<1> QED
  BY <1>1, <1>3 DEF PlacesDiffer, StaysOver, CountedSeen, PagesBounded, OverExact, SettledExact,
                    OverNamed, SettledNamed, Names, Seen, ofDay

LEMMA StartJobKeepsInv == ASSUME StatsInv, StartJob PROVE StatsInv'
<1> USE DEF StatsInv
<1> DEFINE d == Head(statsQueue)
           there == ofDay(d)
           total == Cardinality(there)
           new == [date |-> d, total |-> IF total = 0 THEN DefaultMaxAmount ELSE total,
                   page |-> 0, counts |-> [g \in Group |-> 0],
                   tokens |-> [g \in Group |-> UNAVAILABLE], over |-> now > 2 * d + 2]
<1>1. /\ build' = new /\ statsQueue' = Tail(statsQueue) /\ statsQueue # << >>
      /\ UNCHANGED <<now, indexedTxs, forked, statsTable, tokenIDs, settled>>
  BY DEF StartJob
<1>2. d \in Day /\ statsQueue' \in Seq(Day)
  BY <1>1 DEF StatsTyped
<1>3. total \in Nat
  BY RowsFinite DEF StatsTyped
<1> HIDE DEF d, total
<1>4. new \in Building
  BY <1>2, <1>3, StatisticsConstants DEF Building, TokenID
<1>5. StatsTyped'
  BY <1>1, <1>2, <1>4 DEF StatsTyped
<1>6. /\ build'.date = d /\ build'.total = (IF total = 0 THEN DefaultMaxAmount ELSE total)
      /\ build'.page = 0 /\ build'.counts = [g \in Group |-> 0] /\ build'.over = (now > 2 * d + 2)
  BY <1>1
<1> HIDE DEF new
<1>7. \A e : ofDay(e)' = {tx \in indexedTxs : 2 * e <= tx.at /\ tx.at <= 2 * e + 2}
  BY <1>1 DEF ofDay
<1>8. ofDay(build.date)' = there
  BY <1>1, <1>6 DEF ofDay
<1>9. PlacesDiffer' /\ StaysOver'
  BY <1>1, <1>6 DEF PlacesDiffer, StaysOver
<1>10. CountedSeen'
  BY <1>1, <1>6 DEF CountedSeen, Seen, ofDay
<1>11. PageSize * 0 = 0
  BY StatisticsConstants
<1>12. PagesBounded'
  <2>1. forked = {} => \A e \in Day, g \in Group : statsTable[e][g] <= Cardinality(ofDay(e))
    BY DEF PagesBounded
  <2>2. \A e : ofDay(e)' = ofDay(e)
    BY <1>1 DEF ofDay
  <2>3. forked' = {} =>
          \A e \in Day, g \in Group : statsTable'[e][g] <= Cardinality(ofDay(e)')
    BY <1>1, <2>1, <2>2
  <2>4. \A g \in Group : /\ build'.counts[g] <= PageSize * build'.page
                         /\ build'.counts[g] <= Cardinality(ofDay(build.date)')
    BY <1>3, <1>6, <1>8, <1>11 DEF total
  <2> QED
    BY <2>3, <2>4 DEF PagesBounded
<1>13. OverExact'
  <2>1. upTo(there, 0) = {}
    <3>1. \A tx \in there : placeIn(there, tx) \in Nat
      BY RowsFinite DEF placeIn, StatsTyped
    <3> QED
      BY <1>11, <3>1 DEF upTo
  <2>2. \A g : CountIn(upTo(there, 0), g) = 0
    BY <2>1, FS_EmptySet DEF CountIn
  <2>3. \A g \in Group : build'.counts[g] = CountIn(upTo(there, build'.page), g)
    BY <1>6, <2>2
  <2>4. build'.total = total \/ total = 0
    BY <1>6
  <2> QED
    BY <1>8, <2>3, <2>4 DEF OverExact, total
<1>14. SettledExact'
  BY <1>1 DEF SettledExact, ofDay
<1>15. OverNamed' /\ SettledNamed'
  BY <1>1, <1>6 DEF OverNamed, SettledNamed, Names, Seen, ofDay
<1> QED
  BY <1>5, <1>9, <1>10, <1>12, <1>13, <1>14, <1>15

\* A group has the token of one of its transactions of the page, if it has any.
LEMMA TokensAre ==
  ASSUME NEW T, IsFiniteSet(T), T \subseteq TxRow, NEW tokens \in [Group -> TokenID]
  PROVE  /\ tokensWith(tokens, T) \in [Group -> TokenID]
         /\ \A g \in Group :
              IF \E tx \in T : tx.group = g
              THEN \E tx \in T : tx.group = g /\ tx.tokenID = tokensWith(tokens, T)[g]
              ELSE tokensWith(tokens, T)[g] = tokens[g]
<1> DEFINE mine(g) == {tx \in T : tx.group = g}
           last(g) == CHOOSE tx \in mine(g) : \A other \in mine(g) : other.place <= tx.place
           with == [g \in Group |-> IF mine(g) = {} THEN tokens[g] ELSE last(g).tokenID]
<1>1. tokensWith(tokens, T) = with
  BY DEF tokensWith
<1>2. ASSUME NEW g \in Group, mine(g) # {} PROVE last(g) \in mine(g)
  <2> DEFINE places == {tx.place : tx \in mine(g)}
             f == [tx \in mine(g) |-> tx.place]
  <2>1. mine(g) \in SUBSET T
    OBVIOUS
  <2>2. IsFiniteSet(mine(g))
    BY <2>1, FS_Subset
  <2>3. f \in Surjection(mine(g), places)
    BY DEF Surjection
  <2>4. IsFiniteSet(places)
    BY <2>2, <2>3, FS_Surjection
  <2>5. \A tx \in mine(g) : tx.place \in Int
    BY DEF TxRow
  <2>6. places \subseteq Int /\ places # {}
    BY <1>2, <2>5
  <2>7. Max(places) \in places /\ \A x \in places : x <= Max(places)
    BY <2>4, <2>6, FiniteHasEnds
  <2>8. \E tx \in mine(g) : \A other \in mine(g) : other.place <= tx.place
    BY <2>7
  <2> HIDE DEF mine
  <2> QED
    BY <2>8
<1> HIDE DEF last
<1>3. ASSUME NEW g \in Group
      PROVE  /\ with[g] \in TokenID
             /\ IF \E tx \in T : tx.group = g
                THEN \E tx \in T : tx.group = g /\ tx.tokenID = with[g]
                ELSE with[g] = tokens[g]
  <2>1. CASE mine(g) = {}
    BY <2>1
  <2>2. CASE mine(g) # {}
    BY <1>2, <2>2 DEF TxRow
  <2> QED
    BY <2>1, <2>2
<1> QED
  BY <1>1, <1>3

\* A page more.
LEMMA RequestKeepsInv == ASSUME StatsInv, requestAll PROVE StatsInv'
<1> USE DEF StatsInv
<1> DEFINE d == build.date
           there == ofDay(d)
           size == Cardinality(there)
           n == build.page
           data == pageOf(there, n)
           new == [build EXCEPT
                     !.counts = countsWith(@, data),
                     !.tokens = tokensWith(@, data),
                     !.page = @ + 1,
                     !.total = IF build.page > 0 THEN IF data = {} THEN 0 ELSE @
                               ELSE IF size = 0 \/ size > @ THEN @ ELSE size]
<1>1. /\ build # NoJob /\ morePages(build) /\ build' = new
      /\ UNCHANGED <<now, indexedTxs, forked, statsTable, tokenIDs, statsQueue, settled>>
  BY DEF requestAll
<1>2. build \in Building
  BY <1>1 DEF StatsTyped
<1>3. /\ d \in Day /\ build.total \in Nat /\ n \in Nat /\ build.over \in BOOLEAN
      /\ build.counts \in [Group -> Nat]
  BY <1>2, BuildingIs
<1>4. IsFiniteSet(there) /\ there \subseteq TxRow /\ size \in Nat
      /\ \A tx, other \in there : tx.place = other.place => tx = other
  BY RowsFinite DEF StatsTyped, PlacesDiffer
<1>5. DOMAIN build = {"date", "total", "page", "counts", "tokens", "over"}
  BY <1>2 DEF Building
<1>6. /\ build'.date = d /\ build'.page = n + 1 /\ build'.over = build.over
      /\ build'.counts = [g \in Group |-> build.counts[g] + CountIn(data, g)]
      /\ build'.tokens = tokensWith(build.tokens, data)
      /\ build'.total = IF n > 0 THEN IF data = {} THEN 0 ELSE build.total
                        ELSE IF size = 0 \/ size > build.total THEN build.total ELSE size
  BY <1>1, <1>5 DEF countsWith
<1> HIDE DEF new
<1>7. ofDay(build.date)' = there /\ \A e : ofDay(e)' = ofDay(e)
  BY <1>1, <1>6 DEF ofDay
<1> HIDE DEF d, there, size, n, data
<1>8. /\ \A tx \in there : placeIn(there, tx) \in Nat /\ placeIn(there, tx) < Cardinality(there)
      /\ upTo(there, n) \subseteq there /\ data \subseteq there
      /\ upTo(there, n + 1) = upTo(there, n) \cup data /\ upTo(there, n) \cap data = {}
      /\ Cardinality(data) <= PageSize
      /\ data # {} => Cardinality(upTo(there, n)) >= PageSize * n
      /\ data = {} => Cardinality(there) <= PageSize * n
  BY <1>3, <1>4, PagesAre DEF data
<1>9. IsFiniteSet(data) /\ IsFiniteSet(upTo(there, n))
  BY <1>4, <1>8, FS_Subset
<1>10. Cardinality(data) \in Nat /\ Cardinality(upTo(there, n)) \in Nat
  BY <1>9, FS_CardinalityType
<1>11. \A g : CountIn(data, g) \in Nat /\ CountIn(data, g) <= Cardinality(data)
              /\ (CountIn(data, g) = 0 <=> ~\E tx \in data : tx.group = g)
  BY <1>9, CountIs
<1>12. PageSize \in Nat /\ PageSize * n \in Nat /\ PageSize * (n + 1) = PageSize * n + PageSize
  BY <1>3, MultiplesOfPageSize, StatisticsConstants
<1>19. /\ build'.tokens \in [Group -> TokenID]
       /\ \A g \in Group :
            IF \E tx \in data : tx.group = g
            THEN \E tx \in data : tx.group = g /\ tx.tokenID = build'.tokens[g]
            ELSE build'.tokens[g] = build.tokens[g]
  <2>1. IsFiniteSet(data) /\ data \subseteq TxRow
    BY <1>4, <1>8, <1>9
  <2>2. build.tokens \in [Group -> TokenID]
    BY <1>2, BuildingIs
  <2> QED
    BY <1>6, <2>1, <2>2, TokensAre
<1>13. StatsTyped'
  <2>1. build'.counts \in [Group -> Nat] /\ build'.total \in Nat
    BY <1>3, <1>4, <1>6, <1>11 DEF size
  <2>2. build' = [date |-> build'.date, total |-> build'.total, page |-> build'.page,
                  counts |-> build'.counts, tokens |-> build'.tokens, over |-> build'.over]
    BY <1>1, <1>5 DEF new
  <2>3. build' \in Building
    BY <1>3, <1>6, <1>19, <2>1, <2>2 DEF Building
  <2> QED
    BY <1>1, <2>3 DEF StatsTyped
<1>14. PlacesDiffer' /\ StaysOver'
  BY <1>1, <1>6 DEF PlacesDiffer, StaysOver, d
<1>15. CountedSeen'
  <2>1. ASSUME NEW g \in Group, build'.counts[g] > 0, g \notin forked
        PROVE  \E tx \in there : tx.group = g
    <3>1. build.counts[g] > 0 \/ CountIn(data, g) # 0
      BY <1>3, <1>6, <1>11, <2>1
    <3>2. build.counts[g] > 0 => \E tx \in there : tx.group = g
      BY <1>1, <2>1 DEF CountedSeen, Seen, there, d
    <3> QED
      BY <1>8, <1>11, <3>1, <3>2
  <2> QED
    BY <1>1, <1>7, <2>1 DEF CountedSeen, Seen
<1>16. PagesBounded'
  <2>1. ASSUME NEW g \in Group
        PROVE  /\ build'.counts[g] <= PageSize * build'.page
               /\ forked = {} => build'.counts[g] <= Cardinality(there)
    <3>1. build'.counts[g] = build.counts[g] + CountIn(data, g) /\ build.counts[g] \in Nat
      BY <1>3, <1>6
    <3>2. /\ build.counts[g] <= PageSize * n
          /\ forked = {} => build.counts[g] <= Cardinality(there)
      BY <1>1 DEF PagesBounded, there, d, n
    <3>3. CountIn(data, g) \in Nat /\ CountIn(data, g) <= Cardinality(data)
      BY <1>11
    <3>4. build'.counts[g] <= PageSize * build'.page
      BY <1>6, <1>8, <1>10, <1>12, <3>1, <3>2, <3>3
    <3>5. CASE data = {}
      <4>1. Cardinality(data) = 0
        BY <3>5, FS_EmptySet
      <4> QED
        BY <3>1, <3>2, <3>3, <3>4, <4>1
    <3>6. CASE data # {}
      <4>1. Cardinality(upTo(there, n) \cup data)
              = Cardinality(upTo(there, n)) + Cardinality(data) - Cardinality(upTo(there, n) \cap data)
        BY <1>9, FS_Union
      <4>2. Cardinality(upTo(there, n) \cap data) = 0
        BY <1>8, FS_EmptySet
      <4>3. Cardinality(upTo(there, n) \cup data) <= Cardinality(there)
        BY <1>4, <1>8, FS_Subset
      <4> QED
        BY <1>4, <1>8, <1>10, <1>12, <3>1, <3>2, <3>3, <3>4, <3>6, <4>1, <4>2, <4>3 DEF size
    <3> QED
      BY <3>5, <3>6
  <2>2. forked = {} => \A e \in Day, g \in Group : statsTable[e][g] <= Cardinality(ofDay(e))
    BY DEF PagesBounded
  <2> QED
    BY <1>1, <1>7, <2>1, <2>2 DEF PagesBounded
<1>17. OverExact'
  <2> SUFFICES ASSUME build.over
               PROVE  /\ \A g \in Group : build'.counts[g] = CountIn(upTo(there, n + 1), g)
                      /\ \/ build'.total = size \/ size = 0
                         \/ PageSize * (n + 1) >= size
    BY <1>6, <1>7 DEF OverExact, size
  <2>1. /\ \A g \in Group : build.counts[g] = CountIn(upTo(there, n), g)
        /\ \/ build.total = size \/ size = 0
           \/ PageSize * n >= size
    BY <1>1 DEF OverExact, there, size, d, n
  <2>2. \A g \in Group : build'.counts[g] = CountIn(upTo(there, n + 1), g)
    BY <1>6, <1>8, <1>9, <2>1, CountsAdd
  <2>3. data = {} => size <= PageSize * n
    BY <1>8 DEF size
  <2>4. size \in Nat
    BY <1>4 DEF size
  <2>5. size <= PageSize * n => PageSize * (n + 1) >= size
    BY <1>12, <2>4
  <2>6. CASE n > 0 /\ data = {}
    BY <2>2, <2>3, <2>5, <2>6
  <2>7. CASE n > 0 /\ data # {}
    BY <1>6, <1>12, <2>1, <2>2, <2>4, <2>5, <2>7
  <2>8. CASE ~(n > 0)
    BY <1>3, <1>6, <1>12, <2>1, <2>2, <2>4, <2>5, <2>8
  <2> QED
    BY <2>6, <2>7, <2>8
<1>18. SettledExact'
  BY <1>1, <1>7 DEF SettledExact
<1>20. OverNamed' /\ SettledNamed'
  <2>1. ASSUME build.over, NEW g \in Group, build'.counts[g] > 0
        PROVE  \E tx \in there : tx.group = g /\ tx.tokenID = build'.tokens[g]
    <3>1. CASE \E tx \in data : tx.group = g
      BY <1>8, <1>19, <3>1
    <3>2. CASE ~\E tx \in data : tx.group = g
      <4>1. CountIn(data, g) = 0 /\ build.counts[g] \in Nat
        BY <1>3, <1>11, <3>2
      <4>2. build.counts[g] > 0
        BY <1>6, <2>1, <4>1
      <4>3. \E tx \in there : tx.group = g /\ tx.tokenID = build.tokens[g]
        BY <1>1, <2>1, <4>2 DEF OverNamed, Names, there, d
      <4> QED
        BY <1>19, <3>2, <4>3
    <3> QED
      BY <3>1, <3>2
  <2>2. OverNamed'
    BY <1>6, <1>7, <2>1 DEF OverNamed, Names
  <2>3. SettledNamed'
    BY <1>1, <1>7 DEF SettledNamed, Names, Seen
  <2> QED
    BY <2>2, <2>3
<1> QED
  BY <1>13, <1>14, <1>15, <1>16, <1>17, <1>18, <1>20

\* The rows of the day are written, those of groups without a transaction left alone.
LEMMA InsertKeepsInv == ASSUME StatsInv, insertToDB PROVE StatsInv'
<1> USE DEF StatsInv
<1> DEFINE d == build.date
           there == ofDay(d)
           size == Cardinality(there)
           n == build.page
<1>1. /\ build # NoJob /\ ~morePages(build) /\ build' = NoJob
      /\ statsTable' = [statsTable EXCEPT ![d] =
           [g \in Group |-> IF build.counts[g] > 0 THEN build.counts[g] ELSE @[g]]]
      /\ tokenIDs' = [tokenIDs EXCEPT ![d] =
           [g \in Group |-> IF build.counts[g] > 0 THEN build.tokens[g] ELSE @[g]]]
      /\ settled' = IF build.over THEN settled \cup {d} ELSE settled \ {d}
      /\ UNCHANGED <<now, indexedTxs, forked, statsQueue>>
  BY DEF insertToDB
<1>2. build \in Building
  BY <1>1 DEF StatsTyped
<1>3. /\ d \in Day /\ build.total \in Nat /\ n \in Nat /\ build.over \in BOOLEAN
      /\ build.counts \in [Group -> Nat] /\ build.tokens \in [Group -> TokenID]
  BY <1>2, BuildingIs
<1>4. statsTable \in [Day -> [Group -> Nat]] /\ tokenIDs \in [Day -> [Group -> TokenID]]
  BY DEF StatsTyped
<1>5. /\ \A g \in Group : statsTable'[d][g] = IF build.counts[g] > 0 THEN build.counts[g]
                                                 ELSE statsTable[d][g]
      /\ \A g \in Group : tokenIDs'[d][g] = IF build.counts[g] > 0 THEN build.tokens[g]
                                               ELSE tokenIDs[d][g]
      /\ \A e \in Day \ {d} : statsTable'[e] = statsTable[e] /\ tokenIDs'[e] = tokenIDs[e]
      /\ statsTable' \in [Day -> [Group -> Nat]] /\ tokenIDs' \in [Day -> [Group -> TokenID]]
  BY <1>1, <1>3, <1>4
<1>6. StatsTyped'
  BY <1>1, <1>3, <1>5 DEF StatsTyped
<1>7. \A e : ofDay(e)' = ofDay(e)
  BY <1>1 DEF ofDay
<1>8. PlacesDiffer' /\ StaysOver' /\ OverExact' /\ OverNamed'
  BY <1>1 DEF PlacesDiffer, StaysOver, OverExact, OverNamed
<1>9. CountedSeen'
  <2>1. ASSUME NEW e \in Day, NEW g \in Group, statsTable'[e][g] > 0, g \notin forked
        PROVE  Seen(e, g)
    BY <1>1, <1>5, <2>1 DEF CountedSeen
  <2> QED
    BY <1>1, <1>7, <2>1 DEF CountedSeen, Seen
<1>10. PagesBounded'
  <2>1. ASSUME NEW e \in Day, NEW g \in Group, forked = {}
        PROVE  statsTable'[e][g] <= Cardinality(ofDay(e))
    BY <1>1, <1>5, <2>1 DEF PagesBounded
  <2> QED
    BY <1>1, <1>7, <2>1 DEF PagesBounded
<1>11. ASSUME build.over, NEW g \in Group PROVE build.counts[g] = CountIn(there, g)
  <2>1. /\ IsFiniteSet(there) /\ there \subseteq TxRow /\ size \in Nat
        /\ \A tx, other \in there : tx.place = other.place => tx = other
    BY RowsFinite DEF StatsTyped, PlacesDiffer
  <2>2. /\ \A h \in Group : build.counts[h] = CountIn(upTo(there, n), h)
        /\ \/ build.total = size \/ size = 0
           \/ PageSize * n >= size
    BY <1>1, <1>11 DEF OverExact
  <2>3. n # 0 /\ ~(n * PageSize < build.total)
    BY <1>1 DEF morePages
  <2>4. PageSize * n \in Nat /\ n * PageSize = PageSize * n
    BY <1>3, MultiplesOfPageSize, StatisticsConstants
  <2>5. size <= PageSize * n
    BY <1>3, <2>1, <2>2, <2>3, <2>4
  <2>6. \A tx \in there : placeIn(there, tx) \in Nat /\ placeIn(there, tx) < size
    BY <1>3, <2>1, PagesAre
  <2>7. \A tx \in there : placeIn(there, tx) < PageSize * n
    BY <2>1, <2>4, <2>5, <2>6
  <2>8. upTo(there, n) = there
    BY <2>7 DEF upTo
  <2> QED
    BY <2>2, <2>8
<1>12. IsFiniteSet(there) /\ \A g : /\ CountIn(there, g) \in Nat
                                    /\ CountIn(there, g) = 0 <=> ~\E tx \in there : tx.group = g
  BY RowsFinite, CountIs DEF StatsTyped
<1>13. SettledExact'
  <2> SUFFICES ASSUME NEW e \in settled', NEW g \in Group,
                      g \notin forked \/ CountIn(ofDay(e), g) > 0
               PROVE  statsTable'[e][g] = CountIn(ofDay(e), g)
    BY <1>1, <1>7 DEF SettledExact
  <2>1. CASE e # d
    <3>1. e \in settled /\ e \in Day
      BY <1>1, <2>1 DEF StatsTyped
    <3> QED
      BY <1>5, <2>1, <3>1 DEF SettledExact
  <2>2. CASE e = d
    <3>1. build.counts[g] = CountIn(there, g)
      BY <1>1, <1>11, <2>2
    <3>2. CASE CountIn(there, g) > 0
      BY <1>5, <2>2, <3>1, <3>2
    <3>3. CASE CountIn(there, g) = 0
      <4>1. g \notin forked /\ ~Seen(d, g)
        BY <1>12, <2>2, <3>3 DEF Seen
      <4>2. statsTable[d][g] = 0
        BY <1>3, <1>4, <4>1 DEF CountedSeen
      <4> QED
        BY <1>5, <2>2, <3>1, <3>3, <4>2
    <3> QED
      BY <1>12, <3>2, <3>3
  <2> QED
    BY <2>1, <2>2
<1>14. SettledNamed'
  <2> SUFFICES ASSUME NEW e \in settled', NEW g \in Group, Seen(e, g)
               PROVE  Names(e, g, tokenIDs'[e][g])
    BY <1>7 DEF SettledNamed, Names, Seen
  <2>1. CASE e # d
    <3>1. e \in settled /\ e \in Day
      BY <1>1, <2>1 DEF StatsTyped
    <3> QED
      BY <1>5, <2>1, <3>1 DEF SettledNamed
  <2>2. CASE e = d
    <3>1. build.over /\ build.counts[g] = CountIn(there, g)
      BY <1>1, <1>11, <2>2
    <3>2. build.counts[g] > 0
      BY <1>12, <2>2, <3>1 DEF Seen
    <3> QED
      BY <1>1, <1>5, <2>2, <3>1, <3>2 DEF OverNamed
  <2> QED
    BY <2>1, <2>2
<1> QED
  BY <1>6, <1>8, <1>9, <1>10, <1>13, <1>14

LEMMA StatisticsStepsKeepInv == StatsInv /\ StatisticsNext => StatsInv'
  BY NewTransactionKeepsInv, DropTransactionKeepsInv, TimePassesKeepsInv, SchedulingKeepsInv,
     StartJobKeepsInv, RequestKeepsInv, InsertKeepsInv
     DEF StatisticsNext, JobStep, TokenID

LEMMA StatsInvUnchanged == StatsInv /\ UNCHANGED statsVars => StatsInv'
<1> SUFFICES ASSUME StatsInv, UNCHANGED statsVars PROVE StatsInv'
  OBVIOUS
<1> USE DEF StatsInv
<1>1. UNCHANGED <<now, indexedTxs, forked, statsTable, tokenIDs, statsQueue, build, settled>>
  BY DEF statsVars
<1>2. StatsTyped' /\ PlacesDiffer' /\ StaysOver'
  BY <1>1 DEF StatsTyped, PlacesDiffer, StaysOver
<1>3. CountedSeen' /\ PagesBounded' /\ OverExact' /\ SettledExact' /\ OverNamed' /\ SettledNamed'
  BY <1>1 DEF CountedSeen, PagesBounded, OverExact, SettledExact, OverNamed, SettledNamed,
              Names, Seen, ofDay
<1> QED
  BY <1>2, <1>3

\* The counts of groups that are exact add up to the transactions of these groups.
LEMMA TotalIs ==
  ASSUME NEW T, IsFiniteSet(T), NEW G, NEW counts,
         \A g \in G : counts[g] = CountIn(T, g)
  PROVE  totalOf(counts, G) = Cardinality({tx \in T : tx.group \in G})
<1> DEFINE members(g) == {tx \in T : tx.group = g}
           all == {tx \in T : tx.group \in G}
           pairs == UNION {{g} \X (1..counts[g]) : g \in G}
           number == [g \in G |-> CHOOSE f : f \in Bijection(1..counts[g], members(g))]
           F == [p \in pairs |-> number[p[1]][p[2]]]
<1>1. ASSUME NEW g \in G
      PROVE  number[g] \in Bijection(1..counts[g], members(g))
  <2>1. members(g) \in SUBSET T
    OBVIOUS
  <2>2. ExistsBijection(1..Cardinality(members(g)), members(g))
    BY <2>1, FS_Subset, FS_CardinalityType
  <2>3. counts[g] = Cardinality(members(g))
    BY DEF CountIn
  <2> QED
    BY <2>2, <2>3 DEF ExistsBijection
<1>2. \A p : p \in pairs <=> \E g \in G : \E i \in 1..counts[g] : p = <<g, i>>
  OBVIOUS
<1> HIDE DEF number, pairs
<1>3. ASSUME NEW g \in G, NEW i \in 1..counts[g]
      PROVE  /\ <<g, i>> \in pairs /\ F[<<g, i>>] = number[g][i]
             /\ F[<<g, i>>] \in T /\ F[<<g, i>>].group = g
  <2>1. number[g][i] \in members(g)
    BY <1>1 DEF Bijection, Injection, Surjection
  <2> QED
    BY <1>2, <2>1
<1> HIDE DEF F
<1>4. \A p \in pairs : F[p] \in all
  BY <1>2, <1>3
<1>5. ASSUME NEW p \in pairs, NEW q \in pairs, F[p] = F[q]
      PROVE  p = q
  <2>1. PICK g \in G : \E k \in 1..counts[g] : p = <<g, k>>
    BY <1>2
  <2> PICK i \in 1..counts[g] : p = <<g, i>>
    BY <2>1
  <2>2. PICK h \in G : \E k \in 1..counts[h] : q = <<h, k>>
    BY <1>2
  <2> PICK j \in 1..counts[h] : q = <<h, j>>
    BY <2>2
  <2>3. g = h
    BY <1>3, <1>5, <2>1, <2>2
  <2>4. number[g][i] = number[g][j]
    BY <1>3, <1>5, <2>1, <2>2, <2>3
  <2>5. i = j
    BY <1>1, <2>3, <2>4 DEF Bijection, Injection, IsInjective
  <2> QED
    BY <2>1, <2>2, <2>3, <2>5
<1>6. ASSUME NEW tx \in all
      PROVE  \E p \in pairs : F[p] = tx
  <2>1. tx.group \in G /\ tx \in members(tx.group)
    OBVIOUS
  <2>2. PICK i \in 1..counts[tx.group] : number[tx.group][i] = tx
    BY <1>1, <2>1 DEF Bijection, Surjection
  <2>3. /\ <<tx.group, i>> \in pairs
        /\ F[<<tx.group, i>>] = number[tx.group][i]
    BY <1>3, <2>1
  <2> QED
    BY <2>2, <2>3
<1>7. F \in Bijection(pairs, all)
  <2>1. F \in [pairs -> all]
    BY <1>4 DEF F
  <2> HIDE DEF all
  <2>2. F \in Injection(pairs, all)
    BY <1>5, <2>1 DEF Injection, IsInjective
  <2>3. F \in Surjection(pairs, all)
    BY <1>6, <2>1 DEF Surjection
  <2> QED
    BY <2>2, <2>3 DEF Bijection
<1>8. IsFiniteSet(all)
  <2>1. all \in SUBSET T
    OBVIOUS
  <2> QED
    BY <2>1, FS_Subset
<1>9. IsFiniteSet(pairs)
  BY <1>7, <1>8, FS_Injection DEF Bijection
<1>10. Cardinality(all) = Cardinality(pairs)
  BY <1>7, <1>9, FS_Bijection DEF ExistsBijection
<1> QED
  BY <1>10 DEF totalOf, pairs

LEMMA StatsInvRight == StatsInv => StatisticsRight
<1> SUFFICES ASSUME StatsInv PROVE StatisticsRight
  OBVIOUS
<1> USE DEF StatsInv
<1>1. NeverOvercounts
  BY DEF NeverOvercounts, PagesBounded
<1>2. ASSUME NEW d \in settled
      PROVE  /\ d \in Day /\ IsFiniteSet(ofDay(d)) /\ ofDay(d) \subseteq TxRow
             /\ \A g : /\ CountIn(ofDay(d), g) \in Nat
                       /\ CountIn(ofDay(d), g) = 0 <=> ~\E tx \in ofDay(d) : tx.group = g
  BY RowsFinite, CountIs DEF StatsTyped
<1>3. DaysOverAreCounted
  <2> SUFFICES ASSUME NEW d \in settled, NEW g \in Group,
                      (\E tx \in ofDay(d) : tx.group = g) \/ g \notin forked
               PROVE  /\ statsTable[d][g] = CountIn(ofDay(d), g)
                      /\ Seen(d, g) => Names(d, g, tokenIDs[d][g])
    BY DEF DaysOverAreCounted, CountIn, Names, Seen
  <2>1. g \notin forked \/ CountIn(ofDay(d), g) > 0
    BY <1>2
  <2> QED
    BY <2>1 DEF SettledExact, SettledNamed
<1>4. DaysOverAreShown
  <2> DEFINE with(d, token) == {tx \in ofDay(d) : tx.tokenID \in {token, UNAVAILABLE}}
  <2>1. ASSUME NEW d \in settled, stale(d) = {}
        PROVE  /\ \A g \in Group : statsTable[d][g] = CountIn(ofDay(d), g)
               /\ \A tx \in ofDay(d) : tx.group \in rowsWith(d)
               /\ \A g \in rowsWith(d) : Seen(d, g)
               /\ \A S \in SUBSET Group :
                    totalOf(statsTable[d], S) = Cardinality({tx \in ofDay(d) : tx.group \in S})
    <3>1. \A g \in Group : g \notin forked \/ CountIn(ofDay(d), g) > 0
      BY <1>2, <2>1 DEF stale
    <3>2. \A g \in Group : statsTable[d][g] = CountIn(ofDay(d), g)
      BY <3>1 DEF SettledExact
    <3>3. \A tx \in ofDay(d) : tx.group \in Group
      BY <1>2 DEF TxRow
    <3>4. \A tx \in ofDay(d) : CountIn(ofDay(d), tx.group) > 0
      BY <1>2
    <3>5. \A g \in rowsWith(d) : Seen(d, g)
      BY <1>2, <3>2 DEF rowsWith, Seen
    <3>6. ASSUME NEW S \in SUBSET Group
          PROVE  totalOf(statsTable[d], S) = Cardinality({tx \in ofDay(d) : tx.group \in S})
      BY <1>2, <3>2, TotalIs
    <3> QED
      BY <3>2, <3>3, <3>4, <3>5, <3>6 DEF rowsWith
  <2>2. ASSUME NEW d \in settled, stale(d) = {}, NEW tx \in ofDay(d)
        PROVE  getDistributionByType(d)[tx.group.type]
                 = Cardinality({other \in ofDay(d) : other.group.type = tx.group.type})
    <3> DEFINE S == {g \in Group : g.type = tx.group.type}
    <3>1. tx.group.type \in {g.type : g \in rowsWith(d)}
      BY <2>1, <2>2
    <3>2. getDistributionByType(d)[tx.group.type] = totalOf(statsTable[d], S)
      BY <3>1 DEF getDistributionByType
    <3>3. {other \in ofDay(d) : other.group \in S}
            = {other \in ofDay(d) : other.group.type = tx.group.type}
      BY <1>2 DEF TxRow
    <3> QED
      BY <2>1, <2>2, <3>2, <3>3
  \* Where no group mixes tokens, the rows of a token are the groups of its
  \* transactions and of those without one.
  <2>3. ASSUME NEW d \in settled, stale(d) = {}, mixed(d) = {}, NEW tx \in ofDay(d)
        PROVE  tx.tokenID = tokenIDs[d][tx.group]
    <3>1. tx.group \in Group /\ Seen(d, tx.group)
      BY <1>2 DEF TxRow, Seen
    <3>2. PICK other \in ofDay(d) : /\ other.group = tx.group
                                    /\ other.tokenID = tokenIDs[d][tx.group]
      BY <3>1 DEF SettledNamed, Names
    <3> QED
      BY <2>3, <3>1, <3>2 DEF mixed
  <2>4. ASSUME NEW d \in settled, stale(d) = {}, mixed(d) = {}, NEW token
        PROVE  /\ rowsOfToken(d, token) \in SUBSET Group
               /\ \A tx \in ofDay(d) :
                    tx.group \in rowsOfToken(d, token) <=> tx \in with(d, token)
    BY <2>1, <2>3, <2>4 DEF rowsOfToken, rowsWith
  <2>5. ASSUME NEW d \in settled, stale(d) = {}, mixed(d) = {}, NEW tx \in ofDay(d),
               tx.tokenID # UNAVAILABLE
        PROVE  tx.tokenID \in tokensShown
    <3>1. tx.group \in rowsWith(d) /\ tx.tokenID = tokenIDs[d][tx.group] /\ d \in Day
      BY <1>2, <2>1, <2>3, <2>5
    <3>2. tx.tokenID \in {tokenIDs[d][g] : g \in rowsWith(d)}
      BY <3>1
    <3> HIDE DEF rowsWith
    <3>3. tx.tokenID \in UNION {{tokenIDs[e][g] : g \in rowsWith(e)} : e \in Day}
      BY <3>1, <3>2
    <3> QED
      BY <2>5, <3>3 DEF tokensShown
  <2>6. ASSUME NEW d \in settled, stale(d) = {}, mixed(d) = {}, NEW token \in tokensShown
        PROVE  /\ getStatsTimeline(d)[token] = Cardinality(with(d, token))
               /\ \A tx \in with(d, token) :
                    getDistributionByAmount(d)[token][tx.group.range]
                      = Cardinality({other \in with(d, token) :
                                       other.group.range = tx.group.range})
    <3> DEFINE R == rowsOfToken(d, token)
    <3>1. {tx \in ofDay(d) : tx.group \in R} = with(d, token)
      BY <2>4, <2>6
    <3>2. R \in SUBSET Group
      BY <2>4, <2>6
    <3>3. getStatsTimeline(d)[token] = Cardinality(with(d, token))
      BY <2>1, <2>6, <3>1, <3>2 DEF getStatsTimeline
    <3>4. ASSUME NEW tx \in with(d, token)
          PROVE  getDistributionByAmount(d)[token][tx.group.range]
                   = Cardinality({other \in with(d, token) :
                                    other.group.range = tx.group.range})
      <4> DEFINE S == {g \in R : g.range = tx.group.range}
      <4>1. tx.group \in R
        BY <2>4, <2>6, <3>4
      <4>2. tx.group.range \in {g.range : g \in R}
        BY <4>1
      <4>3. getDistributionByAmount(d)[token][tx.group.range] = totalOf(statsTable[d], S)
        BY <2>6, <4>2 DEF getDistributionByAmount
      <4>4. S \in SUBSET Group
        BY <3>2
      <4>5. {other \in ofDay(d) : other.group \in S}
              = {other \in with(d, token) : other.group.range = tx.group.range}
        BY <3>1
      <4> QED
        BY <2>1, <2>6, <4>3, <4>4, <4>5
    <3> QED
      BY <3>3, <3>4
  <2> HIDE DEF with
  <2>7. ASSUME NEW d \in settled, stale(d) = {}
        PROVE  /\ \A t \in {tx.group.type : tx \in ofDay(d)} :
                    getDistributionByType(d)[t]
                      = Cardinality({tx \in ofDay(d) : tx.group.type = t})
               /\ mixed(d) = {} =>
                    \A token \in {tx.tokenID : tx \in ofDay(d)} \ {UNAVAILABLE} :
                      /\ getStatsTimeline(d)[token] = Cardinality(with(d, token))
                      /\ \A r \in {tx.group.range : tx \in with(d, token)} :
                           getDistributionByAmount(d)[token][r]
                             = Cardinality({tx \in with(d, token) : tx.group.range = r})
    <3>1. ASSUME NEW t \in {tx.group.type : tx \in ofDay(d)}
          PROVE  getDistributionByType(d)[t] = Cardinality({tx \in ofDay(d) : tx.group.type = t})
      <4> PICK tx \in ofDay(d) : t = tx.group.type
        OBVIOUS
      <4> QED
        BY <2>2, <2>7
    <3>2. ASSUME mixed(d) = {}, NEW token \in {tx.tokenID : tx \in ofDay(d)} \ {UNAVAILABLE}
          PROVE  /\ getStatsTimeline(d)[token] = Cardinality(with(d, token))
                 /\ \A r \in {tx.group.range : tx \in with(d, token)} :
                      getDistributionByAmount(d)[token][r]
                        = Cardinality({tx \in with(d, token) : tx.group.range = r})
      <4>1. token \in tokensShown
        BY <2>5, <2>7, <3>2
      <4>2. getStatsTimeline(d)[token] = Cardinality(with(d, token))
        BY <2>6, <2>7, <3>2, <4>1
      <4>3. ASSUME NEW r \in {tx.group.range : tx \in with(d, token)}
            PROVE  getDistributionByAmount(d)[token][r]
                     = Cardinality({tx \in with(d, token) : tx.group.range = r})
        <5>1. \A tx \in with(d, token) :
                 getDistributionByAmount(d)[token][tx.group.range]
                   = Cardinality({other \in with(d, token) :
                                    other.group.range = tx.group.range})
          BY <2>6, <2>7, <3>2, <4>1
        <5>2. PICK tx \in with(d, token) : r = tx.group.range
          OBVIOUS
        <5> QED
          BY <5>1, <5>2
      <4> QED
        BY <4>2, <4>3
    <3> QED
      BY <3>1, <3>2
  <2>8. \A d : /\ getTransactionsStatistics(d).timeline = getStatsTimeline(d)
               /\ getTransactionsStatistics(d).distributionByType = getDistributionByType(d)
               /\ getTransactionsStatistics(d).distributionByAmount = getDistributionByAmount(d)
    BY DEF getTransactionsStatistics
  <2> QED
    BY <2>7, <2>8 DEF DaysOverAreShown, with
<1> QED
  BY <1>1, <1>3, <1>4 DEF StatisticsRight

\* However pages, new transactions, forks, failures and midnights interleave, a day
\* that was over when it was built is counted exactly, each row is kept under the
\* token of one of its transactions, what is shown by command is exact, what is
\* shown by token is exact when no row mixes tokens, and of no group more is kept
\* than the day has (buildTransactionStatistics.js, transactionStatistics.js), for
\* any groups, tokens, days and size of pages.
THEOREM StatisticsAlwaysRight == Spec => []StatisticsRight
<1>1. Init => StatsInv
  BY StatisticsInitInv DEF Init
<1>2. StatsInv /\ [Next]_vars => StatsInv'
  BY StatisticsStepsKeepInv, StatsInvUnchanged
     DEF Next, vars, MarketStep, StatisticsStep, ExportStep, RegistryStep
<1> QED
  BY <1>1, <1>2, StatsInvRight, PTL DEF Spec
-----------------------------------------------------------------------------
(* App Registry: what is recorded as synchronised is in the clone           *)

Files == [App -> [MetaFiles -> {<< >>} \cup {<<c>> : c \in (App \X ChainName) \cup TokenSets}]]
FileStatus == {"added", "renamed"} \cup fileUpdatedStatuses
Entry == [filename : MetaFiles, status : FileStatus]
DoneFile == [dir : App, filename : MetaFiles, status : FileStatus]

SyncTyped(x, n) ==
  /\ x.pc = "files" =>
       /\ x = [pc |-> "files", to |-> x.to, ops |-> x.ops, done |-> x.done, todo |-> x.todo]
       /\ x.to \in 1..n /\ x.done \subseteq DoneFile /\ x.todo \in [App -> Seq(Entry)]
  /\ x.pc = "move" => x = [pc |-> "move", done |-> x.done] /\ x.done \subseteq DoneFile

RegistryTyped ==
  /\ commits \in Seq(Files) /\ Len(commits) >= 1
  /\ localFiles \in Files /\ tempFiles \in Files
  /\ lastSyncedCommit \in 0..Len(commits)
  /\ syncing = [s \in Sync |-> syncing[s]]
  /\ \A s \in Sync : SyncTyped(syncing[s], Len(commits))

Busy(x) == x.pc \in {"files", "move"}

\* The clone is there once a commit is recorded, and before that nothing is
\* synchronised: nobody else touches what the start downloads.
StartsOnce ==
  /\ lastSyncedCommit # 0 => isCloned
  /\ \A s \in Sync : Busy(syncing[s]) => lastSyncedCommit # 0
  /\ syncing["init"].pc \in {"extracted", "hash"} => lastSyncedCommit = 0
  /\ syncing["init"].pc = "extracted" => syncing["init"].files \in Files
  /\ syncing["init"].pc = "hash" => isCloned

\* Some comparison of commits shows the file as renamed.
Left(cs, a, f) ==
  \E k \in 1..Len(cs) : \E i \in 1..k, b \in App : isRenamed(cs[i], cs[k], a, b, f)

\* Content of a commit that is not older than one with what commit n has there, or
\* of a file that commit n does not have and that was left behind.
Stems(cs, c, n, a, f) ==
  \/ \E k \in 1..Len(cs) : \E i \in 1..k : cs[k][a][f] = c /\ cs[i][a][f] = cs[n][a][f]
  \/ cs[n][a][f] = << >> /\ Left(cs, a, f)

StatusIs(st, cs, from, to, a, f) == st = fileStatus(cs[from], cs[to], a, f)

IsDone(x, a, f) == \E d \in x.done : d.dir = a /\ d.filename = f
IsTodo(x, a, f) == \E i \in 1..Len(x.todo[a]) : x.todo[a][i].filename = f

\* Before the commit: what differs is to do or downloaded, with the right status.
FilesFollow(x, cs, last, temp) ==
  x.pc = "files" =>
    /\ \A a \in App : \A i \in 1..Len(x.todo[a]) :
         StatusIs(x.todo[a][i].status, cs, last, x.to, a, x.todo[a][i].filename)
    /\ \A d \in x.done : /\ StatusIs(d.status, cs, last, x.to, d.dir, d.filename)
                         /\ d.status # "removed" =>
                              Stems(cs, temp[d.dir][d.filename], x.to, d.dir, d.filename)
    /\ \A a \in App, f \in MetaFiles :
         \/ cs[last][a][f] = cs[x.to][a][f] \/ IsTodo(x, a, f) \/ IsDone(x, a, f)
         \/ cs[x.to][a][f] = << >> /\ Left(cs, a, f)

\* After it: what is not in the clone yet is about to be moved there.
MovesFollow(x, cs, last, temp, local) ==
  x.pc = "move" =>
    /\ \A d \in x.done, e \in x.done : d.dir = e.dir /\ d.filename = e.filename => d = e
    /\ \A d \in x.done : IF d.status = "removed" THEN cs[last][d.dir][d.filename] = << >>
                         ELSE Stems(cs, temp[d.dir][d.filename], last, d.dir, d.filename)
    /\ \A a \in App, f \in MetaFiles :
         IsDone(x, a, f) \/ Stems(cs, local[a][f], last, a, f)

AllFollow(cs, last, local) ==
  \A a \in App, f \in MetaFiles : Stems(cs, local[a][f], last, a, f)

Clean == accidents \cap {"skipped", "overlap", "torn"} = {}

CleanInv ==
  /\ \A s \in Sync, r \in Sync : Busy(syncing[s]) /\ Busy(syncing[r]) => s = r
  /\ \A s \in Sync : /\ FilesFollow(syncing[s], commits, lastSyncedCommit, tempFiles)
                     /\ MovesFollow(syncing[s], commits, lastSyncedCommit, tempFiles, localFiles)
  /\ lastSyncedCommit # 0 /\ (\A s \in Sync : syncing[s].pc # "move") =>
       AllFollow(commits, lastSyncedCommit, localFiles)

RegistryInv == RegistryTyped /\ StartsOnce /\ (Clean => CleanInv)

LEMMA StemsFacts ==
  ASSUME NEW cs, NEW n \in 1..Len(cs), Len(cs) \in Nat, NEW a, NEW f
  PROVE  /\ Stems(cs, cs[n][a][f], n, a, f)
         /\ Stems(cs, cs[Len(cs)][a][f], n, a, f)
         /\ \A c, m : cs[m][a][f] = cs[n][a][f] /\ Stems(cs, c, m, a, f) => Stems(cs, c, n, a, f)
  BY DEF Stems

LEMMA LatestStems ==
  ASSUME RegistryTyped, NEW a \in App, NEW f \in MetaFiles,
         Stems(commits, localFiles[a][f], Len(commits), a, f)
  PROVE  ClonedOrUndone(a, f) \/ (head[a][f] = << >> /\ LeftBehind(a, f))
<1> SUFFICES ASSUME ~(head[a][f] = << >> /\ LeftBehind(a, f)) PROVE ClonedOrUndone(a, f)
  OBVIOUS
<1>0. PICK k \in 1..Len(commits) : \E i \in 1..k :
        commits[k][a][f] = localFiles[a][f] /\ commits[i][a][f] = head[a][f]
  BY DEF Stems, head, Left, LeftBehind
<1>1. PICK i \in 1..k : commits[k][a][f] = localFiles[a][f] /\ commits[i][a][f] = head[a][f]
  BY <1>0
<1>2. CASE i = k
  BY <1>1, <1>2 DEF ClonedOrUndone
<1>3. CASE i # k
  <2>1. Len(commits) \in Nat
    BY DEF RegistryTyped
  <2>2. i \in 1..(k - 1)
    BY <1>3, <2>1
  <2> QED
    BY <1>1, <2>2 DEF ClonedOrUndone
<1> QED
  BY <1>2, <1>3

LEMMA GroupIs ==
  ASSUME NEW files \in SUBSET MetaFiles
  PROVE  LET g == groupFilesByNetworkAndApp(files)
         IN  /\ g \in Seq(MetaFiles)
             /\ \A i \in 1..Len(g) : g[i] \in files
             /\ \A f \in files : \E i \in 1..Len(g) : g[i] = f
<1> DEFINE g == groupFilesByNetworkAndApp(files)
<1>1. CASE APP_JSON \in files /\ NATIVETOKENS_JSON \in files
  <2>1. g = <<APP_JSON>> \o <<NATIVETOKENS_JSON>>
    BY <1>1 DEF groupFilesByNetworkAndApp
  <2>2. /\ <<APP_JSON>> \in Seq(MetaFiles) /\ Len(<<APP_JSON>>) = 1
        /\ <<NATIVETOKENS_JSON>> \in Seq(MetaFiles) /\ Len(<<NATIVETOKENS_JSON>>) = 1
    BY DEF MetaFiles
  <2>3. g \in Seq(MetaFiles) /\ Len(g) = 2 /\ g[1] = APP_JSON /\ g[2] = NATIVETOKENS_JSON
    BY <2>1, <2>2
  <2>4. /\ \A i \in 1..Len(g) : g[i] \in files
        /\ \A f \in files : \E i \in 1..Len(g) : g[i] = f
    <3> HIDE DEF g
    <3> QED
      BY <1>1, <2>3 DEF MetaFiles
  <2> QED
    BY <2>3, <2>4
<1>2. CASE APP_JSON \in files /\ NATIVETOKENS_JSON \notin files
  <2>1. g = <<APP_JSON>>
    BY <1>2 DEF groupFilesByNetworkAndApp
  <2> QED
    BY <1>2, <2>1 DEF MetaFiles
<1>3. CASE APP_JSON \notin files /\ NATIVETOKENS_JSON \in files
  <2>1. g = <<NATIVETOKENS_JSON>>
    BY <1>3 DEF groupFilesByNetworkAndApp
  <2> QED
    BY <1>3, <2>1 DEF MetaFiles
<1>4. CASE APP_JSON \notin files /\ NATIVETOKENS_JSON \notin files
  <2>1. g = << >> /\ files = {}
    BY <1>4 DEF groupFilesByNetworkAndApp, MetaFiles
  <2> QED
    BY <1>4, <2>1
<1> QED
  BY <1>1, <1>2, <1>3, <1>4

\* What is to do: exactly what differs, with its status.
LEMMA DiffIs ==
  ASSUME NEW from, NEW to, NEW a \in App
  PROVE  LET t == getDiff(from, to, a)
         IN  /\ t \in Seq(Entry)
             /\ \A i \in 1..Len(t) : StatusIs(t[i].status, commits, from, to, a, t[i].filename)
             /\ \A f \in MetaFiles : commits[from][a][f] # commits[to][a][f] =>
                  \/ \E i \in 1..Len(t) : t[i].filename = f
                  \/ \E b \in App : isRenamed(commits[from], commits[to], a, b, f)
<1> DEFINE status(f) == fileStatus(commits[from], commits[to], a, f)
           differ == {f \in MetaFiles :
                        /\ commits[from][a][f] # commits[to][a][f]
                        /\ ~\E b \in App : isRenamed(commits[from], commits[to], a, b, f)}
           g == groupFilesByNetworkAndApp(differ)
           t == getDiff(from, to, a)
<1>1. /\ g \in Seq(MetaFiles) /\ Len(g) \in Nat
      /\ \A f \in differ : \E i \in 1..Len(g) : g[i] = f
  <2>1. differ \in SUBSET MetaFiles
    OBVIOUS
  <2> HIDE DEF differ
  <2>2. /\ g \in Seq(MetaFiles)
        /\ \A f \in differ : \E i \in 1..Len(g) : g[i] = f
    BY <2>1, GroupIs
  <2> QED
    BY <2>2
<1>2. t = [i \in 1..Len(g) |-> [filename |-> g[i], status |-> status(g[i])]]
  <2>1. t = [i \in DOMAIN g |-> [filename |-> g[i], status |-> status(g[i])]]
    BY ZenonT(30) DEF getDiff
  <2> HIDE DEF g, t, status
  <2>2. DOMAIN g = 1..Len(g)
    BY <1>1
  <2> QED
    BY <2>1, <2>2
<1>3. \A f : status(f) \in FileStatus /\ StatusIs(status(f), commits, from, to, a, f)
  BY DEF FileStatus, fileUpdatedStatuses, StatusIs, fileStatus
<1> HIDE DEF g, status, t
<1>4. \A i \in 1..Len(g) : [filename |-> g[i], status |-> status(g[i])] \in Entry
  BY <1>1, <1>3 DEF Entry
<1>5. t \in [1..Len(g) -> Entry]
  BY <1>2, <1>4
<1>6. t \in Seq(Entry) /\ Len(t) = Len(g)
  BY <1>1, <1>5
<1>7. \A i \in 1..Len(t) : t[i].filename = g[i] /\ t[i].status = status(g[i])
  BY <1>2, <1>6
<1>8. \A i \in 1..Len(t) : StatusIs(t[i].status, commits, from, to, a, t[i].filename)
  BY <1>3, <1>7
<1>9. \A f \in MetaFiles : commits[from][a][f] # commits[to][a][f] =>
                  \/ \E i \in 1..Len(t) : t[i].filename = f
                  \/ \E b \in App : isRenamed(commits[from], commits[to], a, b, f)
  BY <1>1, <1>6, <1>7
<1> QED
  BY <1>6, <1>8, <1>9 DEF t

LEMMA SyncSet ==
  ASSUME RegistryTyped, NEW s \in Sync, NEW x, syncing' = [syncing EXCEPT ![s] = x]
  PROVE  /\ syncing' = [r \in Sync |-> syncing'[r]]
         /\ syncing'[s] = x
         /\ \A r \in Sync : r # s => syncing'[r] = syncing[r]
<1>1. syncing = [r \in Sync |-> syncing[r]]
  BY DEF RegistryTyped
<1>2. DOMAIN syncing = Sync
  BY <1>1
<1> QED
  BY <1>1, <1>2

\* Steps after which nobody new is busy: what was downloaded is of no use to others,
\* and what had to be moved is in the clone.
LEMMA CalmStep ==
  ASSUME RegistryInv, NEW s \in Sync, NEW x, syncing' = [syncing EXCEPT ![s] = x],
         x.pc \notin {"files", "move", "extracted", "hash"},
         UNCHANGED <<commits, localFiles, lastSyncedCommit>>,
         isCloned => isCloned', tempFiles' \in Files,
         Clean' => /\ Clean
                   /\ syncing[s].pc = "move" => syncing[s].done = {}
                   /\ tempFiles' = tempFiles \/ \A r \in Sync : r # s => ~Busy(syncing[r])
  PROVE  RegistryInv'
<1>1. /\ syncing' = [r \in Sync |-> syncing'[r]]
      /\ syncing'[s] = x
      /\ \A r \in Sync : r # s => syncing'[r] = syncing[r]
  BY SyncSet DEF RegistryInv
<1>2. RegistryTyped'
  <2>1. \A r \in Sync : SyncTyped(syncing'[r], Len(commits))
    BY <1>1 DEF RegistryInv, RegistryTyped, SyncTyped
  <2> QED
    BY <1>1, <2>1 DEF RegistryInv, RegistryTyped
<1>3. StartsOnce'
  <2>1. CASE s = "init"
    BY <1>1, <2>1 DEF RegistryInv, StartsOnce, Busy, Sync
  <2>2. CASE s # "init"
    BY <1>1, <2>2 DEF RegistryInv, StartsOnce, Busy, Sync
  <2> QED
    BY <2>1, <2>2
<1>4. ASSUME Clean' PROVE CleanInv'
  <2>1. Clean /\ CleanInv
    BY <1>4 DEF RegistryInv
  <2>2. \A r \in Sync, q \in Sync : Busy(syncing'[r]) /\ Busy(syncing'[q]) => r = q
    BY <1>1, <2>1 DEF CleanInv, Busy
  <2>3. ASSUME NEW r \in Sync
        PROVE  /\ FilesFollow(syncing'[r], commits, lastSyncedCommit, tempFiles')
               /\ MovesFollow(syncing'[r], commits, lastSyncedCommit, tempFiles', localFiles)
    <3>1. CASE ~Busy(syncing'[r])
      BY <3>1 DEF FilesFollow, MovesFollow, Busy
    <3>2. CASE Busy(syncing'[r])
      <4>1. r # s
        BY <1>1, <3>2 DEF Busy
      <4>2. syncing'[r] = syncing[r] /\ tempFiles' = tempFiles
        BY <1>1, <1>4, <3>2, <4>1
      <4> QED
        BY <2>1, <4>2 DEF CleanInv
    <3> QED
      BY <3>1, <3>2
  <2>4. ASSUME lastSyncedCommit # 0, \A r \in Sync : syncing'[r].pc # "move"
        PROVE  AllFollow(commits, lastSyncedCommit, localFiles)
    <3>1. CASE syncing[s].pc = "move"
      <4>1. \A a, f : ~IsDone(syncing[s], a, f)
        BY <1>4, <3>1 DEF IsDone
      <4> QED
        BY <2>1, <3>1, <4>1 DEF CleanInv, MovesFollow, AllFollow
    <3>2. CASE syncing[s].pc # "move"
      BY <1>1, <2>1, <2>4, <3>2 DEF CleanInv
    <3> QED
      BY <3>1, <3>2
  <2> QED
    BY <2>2, <2>3, <2>4 DEF CleanInv
<1> QED
  BY <1>2, <1>3, <1>4 DEF RegistryInv

LEMMA NoFilesTyped == NoFiles \in Files
  BY DEF NoFiles, Files

\* The steps of a synchronisation but for those that download, commit and move.
LEMMA StartSyncKeeps ==
  ASSUME RegistryInv, NEW s \in Sync, startSync(s), syncing[s].pc # "move"
  PROVE  RegistryInv'
<1>1. /\ syncing' = [syncing EXCEPT ![s] = [pc |-> "commits"]]
      /\ UNCHANGED <<commits, localFiles, lastSyncedCommit, isCloned, tempFiles, accidents>>
  BY DEF startSync
<1>2. tempFiles \in Files /\ (Clean' => Clean)
  BY <1>1 DEF RegistryInv, RegistryTyped, Clean
<1>3. [pc |-> "commits"].pc \notin {"files", "move", "extracted", "hash"}
  OBVIOUS
<1> QED
  BY <1>1, <1>2, <1>3, CalmStep

LEMMA AfterSyncIs ==
  ASSUME NEW s \in Sync
  PROVE  \E x : /\ AfterSync(s) = [syncing EXCEPT ![s] = x]
                /\ x.pc \notin {"files", "move", "extracted", "hash"}
<1> DEFINE x == IF s = "init" THEN [pc |-> "indexAll"] ELSE NotSyncing
<1>1. AfterSync(s) = [syncing EXCEPT ![s] = x]
  BY DEF AfterSync
<1>2. x.pc \notin {"files", "move", "extracted", "hash"}
  BY DEF NotSyncing
<1> QED
  BY <1>1, <1>2

LEMMA SkipSyncKeeps ==
  ASSUME RegistryInv, NEW s \in Sync, skipSync(s)
  PROVE  RegistryInv'
<1>1. /\ syncing' = AfterSync(s) /\ syncing[s].pc = "commits"
      /\ UNCHANGED <<commits, localFiles, lastSyncedCommit, isCloned, tempFiles, accidents>>
  BY DEF skipSync
<1>2. tempFiles \in Files /\ (Clean' => Clean)
  BY <1>1 DEF RegistryInv, RegistryTyped, Clean
<1>3. PICK x : /\ syncing' = [syncing EXCEPT ![s] = x]
               /\ x.pc \notin {"files", "move", "extracted", "hash"}
  BY <1>1, AfterSyncIs
<1> QED
  BY <1>1, <1>2, <1>3, CalmStep

LEMMA EndSyncKeeps ==
  ASSUME RegistryInv, NEW s \in Sync, endSync(s)
  PROVE  RegistryInv'
<1>1. /\ syncing' = AfterSync(s) /\ syncing[s].pc = "move" /\ syncing[s].done = {}
      /\ UNCHANGED <<commits, localFiles, lastSyncedCommit, isCloned, accidents>>
      /\ tempFiles' = NoFiles
  BY DEF endSync
<1>2. Clean' => Clean
  BY <1>1 DEF Clean
<1>3. PICK x : /\ syncing' = [syncing EXCEPT ![s] = x]
               /\ x.pc \notin {"files", "move", "extracted", "hash"}
  BY <1>1, AfterSyncIs
<1>4. Clean => \A r \in Sync : r # s => ~Busy(syncing[r])
  BY <1>1 DEF RegistryInv, CleanInv, Busy
<1> QED
  BY <1>1, <1>2, <1>3, <1>4, NoFilesTyped, CalmStep

LEMMA FailSyncKeeps ==
  ASSUME RegistryInv, NEW s \in Sync, failSync(s)
  PROVE  RegistryInv'
<1>1. /\ syncing' = [syncing EXCEPT ![s] = NotSyncing]
      /\ UNCHANGED <<commits, localFiles, lastSyncedCommit, isCloned, tempFiles>>
  BY DEF failSync
<1>2. /\ \/ syncing[s].pc = "files" /\ accidents' = accidents \cup Aborted(s)
         \/ syncing[s].pc = "move" /\ accidents' = accidents \cup {"torn"} \cup Aborted(s)
  BY DEF failSync
<1>3. Clean' => Clean /\ syncing[s].pc # "move"
  BY <1>2 DEF Clean
<1>4. tempFiles \in Files
  BY DEF RegistryInv, RegistryTyped
<1>5. NotSyncing.pc \notin {"files", "move", "extracted", "hash"}
  BY DEF NotSyncing
<1> QED
  BY <1>1, <1>3, <1>4, <1>5, CalmStep

LEMMA FailStartKeeps ==
  ASSUME RegistryInv, NEW s \in Sync, failStart(s)
  PROVE  RegistryInv'
<1>1. /\ syncing' = [syncing EXCEPT ![s] = NotSyncing] /\ syncing[s].pc = "start"
      /\ UNCHANGED <<commits, localFiles, lastSyncedCommit, isCloned, tempFiles>>
      /\ accidents' = accidents \cup Aborted(s)
  BY DEF failStart
<1>3. Clean' => Clean
  BY <1>1 DEF Clean
<1>4. tempFiles \in Files
  BY DEF RegistryInv, RegistryTyped
<1>5. NotSyncing.pc \notin {"files", "move", "extracted", "hash"}
  BY DEF NotSyncing
<1> QED
  BY <1>1, <1>3, <1>4, <1>5, CalmStep

LEMMA IndexAllKeeps ==
  ASSUME RegistryInv, indexAllBlockchainAppsMeta
  PROVE  RegistryInv'
<1>1. /\ syncing' = [syncing EXCEPT !["init"] = NotSyncing] /\ syncing["init"].pc = "indexAll"
      /\ UNCHANGED <<commits, localFiles, lastSyncedCommit, isCloned, tempFiles>>
      /\ accidents' = accidents \cup (IF IsMoving THEN {"torn"} ELSE {})
  BY DEF indexAllBlockchainAppsMeta
<1>2. "init" \in Sync
  BY DEF Sync
<1>3. Clean' => Clean
  BY <1>1 DEF Clean
<1>4. tempFiles \in Files
  BY DEF RegistryInv, RegistryTyped
<1>5. NotSyncing.pc \notin {"files", "move", "extracted", "hash"}
  BY DEF NotSyncing
<1> QED
  BY <1>1, <1>2, <1>3, <1>4, <1>5, CalmStep

LEMMA StemsGrow ==
  ASSUME NEW cs \in Seq(Files), NEW y \in Files, NEW c, NEW n \in 1..Len(cs), NEW a, NEW f
  PROVE  /\ Append(cs, y)[n] = cs[n]
         /\ Left(cs, a, f) => Left(Append(cs, y), a, f)
         /\ Stems(cs, c, n, a, f) => Stems(Append(cs, y), c, n, a, f)
<1> DEFINE cs2 == Append(cs, y)
<1>1. Len(cs) \in Nat /\ Len(cs2) = Len(cs) + 1 /\ \A k \in 1..Len(cs) : cs2[k] = cs[k]
  OBVIOUS
<1> HIDE DEF cs2
<1>2. \A k \in 1..Len(cs) : k \in 1..Len(cs2) /\ \A i \in 1..k : i \in 1..Len(cs)
  BY <1>1
<1>3. ASSUME Left(cs, a, f) PROVE Left(cs2, a, f)
  <2>1. PICK k \in 1..Len(cs) : \E i \in 1..k, b \in App : isRenamed(cs[i], cs[k], a, b, f)
    BY <1>3 DEF Left
  <2>2. PICK i \in 1..k : \E b \in App : isRenamed(cs[i], cs[k], a, b, f)
    BY <2>1
  <2>3. cs2[k] = cs[k] /\ cs2[i] = cs[i] /\ k \in 1..Len(cs2)
    BY <1>1, <1>2
  <2> QED
    BY <2>2, <2>3 DEF Left
<1>4. ASSUME NEW k \in 1..Len(cs), NEW i \in 1..k,
             cs[k][a][f] = c /\ cs[i][a][f] = cs[n][a][f]
      PROVE  Stems(cs2, c, n, a, f)
  <2>1. cs2[k] = cs[k] /\ cs2[i] = cs[i] /\ cs2[n] = cs[n] /\ k \in 1..Len(cs2)
    BY <1>1, <1>2
  <2> QED
    BY <1>4, <2>1 DEF Stems
<1> QED
  BY <1>1, <1>3, <1>4 DEF cs2, Stems

LEMMA CommitKeeps ==
  ASSUME RegistryInv, NEW y \in Files, Commit(y)
  PROVE  RegistryInv'
<1> DEFINE cs == commits'
           n == Len(commits)
<1>1. /\ cs = Append(commits, y)
      /\ UNCHANGED <<localFiles, lastSyncedCommit, isCloned, tempFiles, syncing, accidents>>
  BY DEF Commit
<1>2. commits \in Seq(Files) /\ n \in Nat /\ n >= 1 /\ head \in Files
  BY DEF RegistryInv, RegistryTyped, head
<1>3. y \in Files
  OBVIOUS
<1>4. cs \in Seq(Files) /\ Len(cs) = n + 1 /\ \A k \in 1..n : cs[k] = commits[k]
  BY <1>1, <1>2, <1>3
<1>5. /\ \A c, a, f : \A k \in 1..n : Stems(commits, c, k, a, f) => Stems(cs, c, k, a, f)
      /\ \A a, f : Left(commits, a, f) => Left(cs, a, f)
  BY <1>1, <1>2, <1>3, StemsGrow
<1> HIDE DEF cs
<1>6. RegistryTyped'
  <2>1. \A s \in Sync : SyncTyped(syncing[s], n + 1)
    <3>1. \A k \in 1..n : k \in 1..(n + 1)
      BY <1>2
    <3>2. \A s \in Sync : SyncTyped(syncing[s], n)
      BY DEF RegistryInv, RegistryTyped
    <3> HIDE DEF n
    <3> QED
      BY <3>1, <3>2 DEF SyncTyped
  <2>2. lastSyncedCommit \in 0..(n + 1)
    BY <1>2 DEF RegistryInv, RegistryTyped
  <2> QED
    BY <1>1, <1>2, <1>4, <2>1, <2>2 DEF RegistryInv, RegistryTyped, cs
<1>7. StartsOnce'
  BY <1>1 DEF RegistryInv, StartsOnce
<1>8. ASSUME Clean' PROVE CleanInv'
  <2>1. CleanInv
    BY <1>1, <1>8 DEF RegistryInv, Clean
  <2>2. ASSUME NEW s \in Sync
        PROVE  /\ FilesFollow(syncing[s], cs, lastSyncedCommit, tempFiles)
               /\ MovesFollow(syncing[s], cs, lastSyncedCommit, tempFiles, localFiles)
    <3> DEFINE x == syncing[s]
    <3>1. /\ FilesFollow(x, commits, lastSyncedCommit, tempFiles)
          /\ MovesFollow(x, commits, lastSyncedCommit, tempFiles, localFiles)
          /\ SyncTyped(x, n)
      BY <2>1 DEF CleanInv, RegistryInv, RegistryTyped
    <3>2. Busy(x) => lastSyncedCommit \in 1..n
      BY <1>2 DEF RegistryInv, StartsOnce, RegistryTyped
    <3>3. x.pc = "files" => x.to \in 1..n
      BY <3>1 DEF SyncTyped
    <3> HIDE DEF x, n
    <3>4. FilesFollow(x, cs, lastSyncedCommit, tempFiles)
      <4> SUFFICES ASSUME x.pc = "files" PROVE FilesFollow(x, cs, lastSyncedCommit, tempFiles)
        BY DEF FilesFollow
      <4>1. cs[lastSyncedCommit] = commits[lastSyncedCommit] /\ cs[x.to] = commits[x.to]
        BY <1>4, <3>2, <3>3 DEF Busy
      <4>2. \A st, a, f : StatusIs(st, cs, lastSyncedCommit, x.to, a, f)
                            <=> StatusIs(st, commits, lastSyncedCommit, x.to, a, f)
        BY <4>1 DEF StatusIs
      <4> QED
        BY <1>5, <3>1, <3>3, <4>1, <4>2 DEF FilesFollow
    <3>5. MovesFollow(x, cs, lastSyncedCommit, tempFiles, localFiles)
      <4> SUFFICES ASSUME x.pc = "move"
                   PROVE  MovesFollow(x, cs, lastSyncedCommit, tempFiles, localFiles)
        BY DEF MovesFollow
      <4>1. cs[lastSyncedCommit] = commits[lastSyncedCommit]
        BY <1>4, <3>2 DEF Busy
      <4> QED
        BY <1>5, <3>1, <3>2, <4>1 DEF MovesFollow, Busy
    <3> QED
      BY <3>4, <3>5 DEF x
  <2>3. ASSUME lastSyncedCommit # 0, \A s \in Sync : syncing[s].pc # "move"
        PROVE  AllFollow(cs, lastSyncedCommit, localFiles)
    <3>1. AllFollow(commits, lastSyncedCommit, localFiles) /\ lastSyncedCommit \in 1..n
      BY <1>2, <2>1, <2>3 DEF CleanInv, RegistryInv, RegistryTyped
    <3> QED
      BY <1>5, <3>1 DEF AllFollow
  <2> QED
    BY <1>1, <2>1, <2>2, <2>3 DEF CleanInv, cs
<1> QED
  BY <1>6, <1>7, <1>8 DEF RegistryInv

LEMMA PushKeeps ==
  ASSUME RegistryInv, NEW b \in App, NEW g \in MetaFiles, NEW content \in Contents(b, g),
         Push(b, g, content)
  PROVE  RegistryInv'
<1>1. head \in Files
  BY DEF RegistryInv, RegistryTyped, head
<1>2. content \in {<< >>} \cup {<<c>> : c \in (App \X ChainName) \cup TokenSets}
  BY DEF Contents, AppOf
<1>3. [head EXCEPT ![b][g] = content] \in Files
  BY <1>1, <1>2 DEF Files
<1> QED
  BY <1>3, CommitKeeps DEF Push

LEMMA PushMoveKeeps ==
  ASSUME RegistryInv, NEW a \in App, NEW b \in App, PushMove(b, a)
  PROVE  RegistryInv'
<1>1. head \in Files
  BY DEF RegistryInv, RegistryTyped, head
<1>2. [head EXCEPT ![a] = head[b], ![b] = NoFiles[b]] \in Files
  BY <1>1, NoFilesTyped DEF Files
<1> QED
  BY <1>2, CommitKeeps DEF PushMove

LEMMA GetCommitInfoKeeps ==
  ASSUME RegistryInv, NEW s \in Sync, getCommitInfo(s)
  PROVE  RegistryInv'
<1> DEFINE todo == [a \in App |-> getDiff(lastSyncedCommit, Len(commits), a)]
           x == [pc |-> "files", to |-> Len(commits), ops |-> << >>, done |-> {}, todo |-> todo]
           last == lastSyncedCommit
<1>1. /\ syncing[s].pc = "commits" /\ tempFiles' = NoFiles /\ isCloned' = TRUE
      /\ UNCHANGED <<commits, localFiles, lastSyncedCommit>>
  BY DEF getCommitInfo
<1>2. Clean' => Clean /\ \A r \in Sync : r # s => ~Busy(syncing[r])
  <2>1. accidents' = accidents
       \cup (IF lastSyncedCommit = 0 THEN Aborted(s) ELSE {})
       \cup (IF \E r \in Sync \ {s} : syncing[r].pc \in {"files", "move"} THEN {"overlap"} ELSE {})
    BY DEF getCommitInfo
  <2> QED
    BY <2>1 DEF Clean, Busy
<1>3. CASE last = 0
  <2>1. syncing' = [syncing EXCEPT ![s] = NotSyncing]
    BY <1>3 DEF getCommitInfo
  <2>2. NotSyncing.pc \notin {"files", "move", "extracted", "hash"}
    BY DEF NotSyncing
  <2> QED
    BY <1>1, <1>2, <2>1, <2>2, NoFilesTyped, CalmStep
<1>4. CASE last # 0
  <2>1. syncing' = [syncing EXCEPT ![s] = x]
    BY <1>4 DEF getCommitInfo
  <2>2. \A a \in App : /\ todo[a] \in Seq(Entry)
                       /\ \A i \in 1..Len(todo[a]) :
                            StatusIs(todo[a][i].status, commits, last, Len(commits), a, todo[a][i].filename)
                       /\ \A f \in MetaFiles : commits[last][a][f] # commits[Len(commits)][a][f] =>
                            \/ \E i \in 1..Len(todo[a]) : todo[a][i].filename = f
                            \/ \E b \in App : isRenamed(commits[last], commits[Len(commits)], a, b, f)
    BY DiffIs
  <2>3. todo \in [App -> Seq(Entry)]
    BY <2>2
  <2>4. /\ commits \in Seq(Files) /\ Len(commits) \in 1..Len(commits)
    BY DEF RegistryInv, RegistryTyped
  <2> HIDE DEF todo
  <2>5. /\ x.pc = "files" /\ x.to = Len(commits) /\ x.done = {} /\ x.todo = todo
        /\ x = [pc |-> "files", to |-> x.to, ops |-> x.ops, done |-> x.done, todo |-> x.todo]
    OBVIOUS
  <2> HIDE DEF x
  <2>6. /\ syncing' = [r \in Sync |-> syncing'[r]]
        /\ syncing'[s] = x
        /\ \A r \in Sync : r # s => syncing'[r] = syncing[r]
    BY <2>1, SyncSet DEF RegistryInv
  <2>7. RegistryTyped'
    <3>1. SyncTyped(x, Len(commits))
      BY <2>3, <2>4, <2>5 DEF SyncTyped
    <3>2. \A r \in Sync : SyncTyped(syncing'[r], Len(commits))
      BY <2>6, <3>1 DEF RegistryInv, RegistryTyped
    <3> QED
      BY <1>1, <2>6, <3>2, NoFilesTyped DEF RegistryInv, RegistryTyped
  <2>8. StartsOnce'
    <3>1. syncing["init"].pc \notin {"extracted", "hash"} /\ "init" \in Sync
      BY <1>4 DEF RegistryInv, StartsOnce, Sync
    <3>2. syncing'["init"].pc \notin {"extracted", "hash"}
      BY <2>5, <2>6, <3>1
    <3> QED
      BY <1>1, <1>4, <3>2 DEF StartsOnce
  <2>9. ASSUME Clean' PROVE CleanInv'
    <3>1. CleanInv /\ \A r \in Sync : r # s => ~Busy(syncing'[r])
      BY <1>2, <2>6, <2>9 DEF RegistryInv
    <3>2. FilesFollow(x, commits, last, NoFiles)
      <4>1. last \in 1..Len(commits)
        BY <1>4 DEF RegistryInv, RegistryTyped
      <4>2. ASSUME NEW a \in App, NEW f \in MetaFiles,
                   \E b \in App : isRenamed(commits[last], commits[Len(commits)], a, b, f)
            PROVE  commits[Len(commits)][a][f] = << >> /\ Left(commits, a, f)
        <5>1. commits[Len(commits)][a][f] = << >>
          BY <4>2 DEF isRenamed
        <5> QED
          BY <2>4, <4>1, <4>2, <5>1 DEF Left
      <4>3. \A a \in App, f \in MetaFiles :
              \/ commits[last][a][f] = commits[Len(commits)][a][f] \/ IsTodo(x, a, f)
              \/ commits[Len(commits)][a][f] = << >> /\ Left(commits, a, f)
        BY <2>2, <2>5, <4>2 DEF IsTodo
      <4> QED
        BY <2>2, <2>5, <4>3 DEF FilesFollow
    <3>3. AllFollow(commits, last, localFiles)
      <4>1. \A r \in Sync : syncing[r].pc # "move"
        BY <1>1, <1>2, <2>9 DEF Busy
      <4> QED
        BY <1>4, <3>1, <4>1 DEF CleanInv
    <3>4. ASSUME NEW r \in Sync
          PROVE  /\ FilesFollow(syncing'[r], commits, last, NoFiles)
                 /\ MovesFollow(syncing'[r], commits, last, NoFiles, localFiles)
      <4>1. CASE r = s
        BY <2>5, <2>6, <3>2, <4>1 DEF MovesFollow
      <4>2. CASE r # s
        BY <3>1, <4>2 DEF FilesFollow, MovesFollow, Busy
      <4> QED
        BY <4>1, <4>2
    <3>5. \A r \in Sync, q \in Sync : Busy(syncing'[r]) /\ Busy(syncing'[q]) => r = q
      BY <3>1
    <3> QED
      BY <1>1, <3>3, <3>4, <3>5 DEF CleanInv
  <2> QED
    BY <2>7, <2>8, <2>9 DEF RegistryInv
<1> QED
  BY <1>3, <1>4

LEMMA HeadAndTail ==
  ASSUME NEW q \in Seq(Entry), q # << >>
  PROVE  /\ Head(q) \in Entry /\ Head(q) = q[1] /\ 1 \in 1..Len(q) /\ Len(q) \in Nat
         /\ Tail(q) \in Seq(Entry) /\ Len(Tail(q)) = Len(q) - 1
         /\ \A i \in 1..(Len(q) - 1) : i + 1 \in 1..Len(q) /\ Tail(q)[i] = q[i + 1]
         /\ \A i \in 1..Len(q) : i # 1 => i - 1 \in 1..(Len(q) - 1)
<1> HIDE DEF Entry
<1> QED
  OBVIOUS

LEMMA ProcessFileKeeps ==
  ASSUME RegistryInv, NEW s \in Sync, NEW b \in App, processFile(s, b)
  PROVE  RegistryInv'
<1> DEFINE x == syncing[s]
           entry == Head(x.todo[b])
           g == entry.filename
           temp == [tempFiles EXCEPT ![b][g] = head[b][g]]
           deletion == IF entry.status \in fileUpdatedStatuses
                       THEN <<deleteIndexedMetadataFromFile(b, g)>> ELSE << >>
           indexing == IF entry.status = "removed" THEN << >>
                       ELSE <<indexMetadataFromFile(b, g, temp)>>
           file == [dir |-> b, filename |-> g, status |-> entry.status]
           ops == x.ops \o deletion \o indexing
           todo == [x.todo EXCEPT ![b] = Tail(@)]
           y == [pc |-> "files", to |-> x.to, ops |-> ops, done |-> x.done \cup {file}, todo |-> todo]
           last == lastSyncedCommit
           T == tempFiles'
<1>1. /\ x.pc = "files" /\ x.todo[b] # << >>
      /\ T = IF entry.status = "removed" THEN tempFiles ELSE temp
      /\ syncing' = [syncing EXCEPT ![s] = y]
      /\ UNCHANGED <<commits, localFiles, lastSyncedCommit, isCloned, accidents>>
  BY DEF processFile
<1> HIDE DEF deletion, indexing, T
<1>2. /\ SyncTyped(x, Len(commits))
      /\ x = [pc |-> "files", to |-> x.to, ops |-> x.ops, done |-> x.done, todo |-> x.todo]
      /\ x.to \in 1..Len(commits) /\ x.done \subseteq DoneFile /\ x.todo \in [App -> Seq(Entry)]
      /\ commits \in Seq(Files) /\ Len(commits) \in Nat /\ Len(commits) >= 1
      /\ tempFiles \in Files /\ syncing = [r \in Sync |-> syncing[r]]
      /\ last \in 1..Len(commits)
  BY <1>1 DEF RegistryInv, RegistryTyped, SyncTyped, StartsOnce, Busy
<1>3. /\ x.todo[b] \in Seq(Entry) /\ entry \in Entry /\ g \in MetaFiles
      /\ entry = x.todo[b][1] /\ 1 \in 1..Len(x.todo[b]) /\ Len(x.todo[b]) \in Nat
      /\ Tail(x.todo[b]) \in Seq(Entry) /\ Len(Tail(x.todo[b])) = Len(x.todo[b]) - 1
      /\ \A i \in 1..Len(Tail(x.todo[b])) : /\ i + 1 \in 1..Len(x.todo[b])
                                           /\ Tail(x.todo[b])[i] = x.todo[b][i + 1]
      /\ \A i \in 1..Len(x.todo[b]) : i # 1 =>
           i - 1 \in 1..Len(Tail(x.todo[b])) /\ Tail(x.todo[b])[i - 1] = x.todo[b][i]
  <2> DEFINE q == x.todo[b]
  <2>1. q \in Seq(Entry) /\ q # << >>
    BY <1>1, <1>2
  <2> HIDE DEF q
  <2>2. /\ Head(q) \in Entry /\ Head(q) = q[1] /\ 1 \in 1..Len(q) /\ Len(q) \in Nat
        /\ Tail(q) \in Seq(Entry) /\ Len(Tail(q)) = Len(q) - 1
        /\ \A i \in 1..(Len(q) - 1) : i + 1 \in 1..Len(q) /\ Tail(q)[i] = q[i + 1]
        /\ \A i \in 1..Len(q) : i # 1 => i - 1 \in 1..(Len(q) - 1)
    BY <2>1, HeadAndTail
  <2>3. \A i \in 1..Len(q) : i # 1 => Tail(q)[i - 1] = q[i]
    <3> SUFFICES ASSUME NEW i \in 1..Len(q), i # 1 PROVE Tail(q)[i - 1] = q[i]
      OBVIOUS
    <3>1. i - 1 \in 1..(Len(q) - 1) /\ (i - 1) + 1 = i
      BY <2>2
    <3> QED
      BY <2>2, <3>1
  <2>4. Head(q).filename \in MetaFiles
    BY <2>2 DEF Entry
  <2> QED
    BY <2>1, <2>2, <2>3, <2>4 DEF q
<1>4. file \in DoneFile /\ todo \in [App -> Seq(Entry)]
  BY <1>2, <1>3 DEF DoneFile, Entry
<1>5. head \in Files /\ T \in Files
  <2>1. head \in Files
    BY <1>2 DEF head
  <2>2. temp \in Files
    BY <1>2, <1>3, <2>1 DEF Files
  <2> QED
    BY <1>1, <1>2, <2>1, <2>2
<1>6. /\ \A a \in App, f \in MetaFiles : ~(a = b /\ f = g) => T[a][f] = tempFiles[a][f]
      /\ entry.status # "removed" => T[b][g] = head[b][g]
      /\ entry.status = "removed" => T = tempFiles
  BY <1>1, <1>2, <1>3 DEF Files
<1>7. /\ todo[b] = Tail(x.todo[b])
      /\ \A a \in App : a # b => todo[a] = x.todo[a]
  BY <1>2
<1>8. /\ y.pc = "files" /\ y.to = x.to /\ y.done = x.done \cup {file} /\ y.todo = todo
      /\ y = [pc |-> "files", to |-> y.to, ops |-> y.ops, done |-> y.done, todo |-> y.todo]
      /\ file.dir = b /\ file.filename = g /\ file.status = entry.status
  OBVIOUS
<1> HIDE DEF y, todo, file, temp
<1>9. /\ syncing' = [r \in Sync |-> syncing'[r]]
       /\ syncing'[s] = y
       /\ \A r \in Sync : r # s => syncing'[r] = syncing[r]
  BY <1>1, SyncSet DEF RegistryInv
<1>10. RegistryTyped'
  <2>1. SyncTyped(y, Len(commits))
    BY <1>2, <1>4, <1>8 DEF SyncTyped
  <2>2. \A r \in Sync : SyncTyped(syncing'[r], Len(commits))
    BY <1>9, <2>1 DEF RegistryInv, RegistryTyped
  <2> QED
    BY <1>1, <1>5, <1>9, <2>2 DEF RegistryInv, RegistryTyped, T
<1>11. StartsOnce'
  <2>1. syncing["init"].pc \notin {"extracted", "hash"} /\ "init" \in Sync
    BY <1>2 DEF RegistryInv, StartsOnce, Sync
  <2>2. syncing'["init"].pc \notin {"extracted", "hash"}
    BY <1>8, <1>9, <2>1
  <2>3. last # 0
    BY <1>2
  <2> QED
    BY <1>1, <2>2, <2>3 DEF StartsOnce, RegistryInv
<1>12. ASSUME Clean' PROVE CleanInv'
  <2>1. CleanInv /\ FilesFollow(x, commits, last, tempFiles)
    BY <1>1, <1>12 DEF RegistryInv, Clean, CleanInv
  <2>2. \A r \in Sync : r # s => ~Busy(syncing'[r])
    BY <1>1, <1>9, <2>1 DEF CleanInv, Busy
  <2>3. StatusIs(entry.status, commits, last, x.to, b, g)
    BY <1>1, <1>3, <2>1 DEF FilesFollow
  <2>4. Stems(commits, head[b][g], x.to, b, g)
    BY <1>2, StemsFacts DEF head
  <2>5. FilesFollow(y, commits, last, T)
    <3>1. ASSUME NEW a \in App, NEW i \in 1..Len(todo[a])
          PROVE  StatusIs(todo[a][i].status, commits, last, x.to, a, todo[a][i].filename)
      <4>1. CASE a = b
        <5>1. i + 1 \in 1..Len(x.todo[b]) /\ todo[a][i] = x.todo[b][i + 1]
          BY <1>3, <1>7, <3>1, <4>1
        <5> QED
          BY <1>1, <2>1, <4>1, <5>1 DEF FilesFollow
      <4>2. CASE a # b
        BY <1>1, <1>7, <2>1, <3>1, <4>2 DEF FilesFollow
      <4> QED
        BY <4>1, <4>2
    <3>2. ASSUME NEW d \in y.done
          PROVE  /\ StatusIs(d.status, commits, last, x.to, d.dir, d.filename)
                 /\ d.status # "removed" => Stems(commits, T[d.dir][d.filename], x.to, d.dir, d.filename)
      <4>1. CASE d = file
        BY <1>6, <1>8, <2>3, <2>4, <4>1
      <4>2. CASE d \in x.done
        <5>1. /\ StatusIs(d.status, commits, last, x.to, d.dir, d.filename)
              /\ d.status # "removed" =>
                   Stems(commits, tempFiles[d.dir][d.filename], x.to, d.dir, d.filename)
              /\ d.dir \in App /\ d.filename \in MetaFiles
          BY <1>1, <1>2, <2>1, <4>2 DEF FilesFollow, DoneFile
        <5>2. CASE d.dir = b /\ d.filename = g /\ entry.status # "removed"
          BY <1>6, <2>4, <5>1, <5>2
        <5>3. CASE ~(d.dir = b /\ d.filename = g /\ entry.status # "removed")
          <6>1. T[d.dir][d.filename] = tempFiles[d.dir][d.filename]
            BY <1>6, <5>1, <5>3
          <6> QED
            BY <5>1, <6>1
        <5> QED
          BY <5>2, <5>3
      <4> QED
        BY <1>8, <4>1, <4>2
    <3>3. ASSUME NEW a \in App, NEW f \in MetaFiles, commits[last][a][f] # commits[x.to][a][f],
                 ~(commits[x.to][a][f] = << >> /\ Left(commits, a, f))
          PROVE  IsTodo(y, a, f) \/ IsDone(y, a, f)
      <4>1. CASE IsDone(x, a, f)
        BY <1>8, <4>1 DEF IsDone
      <4>2. CASE IsTodo(x, a, f) /\ a # b
        BY <1>7, <1>8, <4>2 DEF IsTodo
      <4>3. CASE IsTodo(x, a, f) /\ a = b
        <5>1. PICK i \in 1..Len(x.todo[b]) : x.todo[b][i].filename = f
          BY <4>3 DEF IsTodo
        <5>2. CASE i = 1
          BY <1>3, <1>8, <4>3, <5>1, <5>2 DEF IsDone
        <5>3. CASE i # 1
          <6>1. i - 1 \in 1..Len(todo[b]) /\ todo[b][i - 1] = x.todo[b][i]
            BY <1>3, <1>7, <5>3
          <6> QED
            BY <1>8, <4>3, <5>1, <6>1 DEF IsTodo
        <5> QED
          BY <5>2, <5>3
      <4> QED
        BY <1>1, <2>1, <3>3, <4>1, <4>2, <4>3 DEF FilesFollow
    <3> QED
      BY <1>8, <3>1, <3>2, <3>3 DEF FilesFollow
  <2>6. ASSUME NEW r \in Sync
        PROVE  /\ FilesFollow(syncing'[r], commits, last, T)
               /\ MovesFollow(syncing'[r], commits, last, T, localFiles)
    <3>1. CASE r = s
      BY <1>8, <1>9, <2>5, <3>1 DEF MovesFollow
    <3>2. CASE r # s
      BY <2>2, <3>2 DEF FilesFollow, MovesFollow, Busy
    <3> QED
      BY <3>1, <3>2
  <2>7. \A r \in Sync, q \in Sync : Busy(syncing'[r]) /\ Busy(syncing'[q]) => r = q
    BY <2>2
  <2>8. AllFollow(commits, last, localFiles)
    <3>1. \A r \in Sync : syncing[r].pc # "move"
      BY <1>1, <1>9, <2>2 DEF Busy
    <3> QED
      BY <1>2, <2>1, <3>1 DEF CleanInv
  <2> QED
    BY <1>1, <2>6, <2>7, <2>8 DEF CleanInv, T
<1> QED
  BY <1>10, <1>11, <1>12 DEF RegistryInv

LEMMA CommitSyncKeeps ==
  ASSUME RegistryInv, NEW s \in Sync, commitSync(s)
  PROVE  RegistryInv'
<1> DEFINE x == syncing[s]
           y == [pc |-> "move", done |-> x.done]
           last == lastSyncedCommit
<1>1. /\ x.pc = "files" /\ \A a \in App : x.todo[a] = << >>
      /\ lastSyncedCommit' = x.to
      /\ syncing' = [syncing EXCEPT ![s] = y]
      /\ accidents' = accidents \cup (IF RenamedAlone(s) THEN {"renamed"} ELSE {})
      /\ UNCHANGED <<commits, localFiles, isCloned, tempFiles>>
  BY DEF commitSync
<1>2. /\ x.to \in 1..Len(commits) /\ x.done \subseteq DoneFile
      /\ Len(commits) \in Nat /\ last # 0
  BY <1>1 DEF RegistryInv, RegistryTyped, SyncTyped, StartsOnce, Busy
<1>3. y.pc = "move" /\ y.done = x.done /\ y = [pc |-> "move", done |-> y.done]
  OBVIOUS
<1> HIDE DEF y
<1>4. /\ syncing' = [r \in Sync |-> syncing'[r]]
      /\ syncing'[s] = y
      /\ \A r \in Sync : r # s => syncing'[r] = syncing[r]
  BY <1>1, SyncSet DEF RegistryInv
<1>5. RegistryTyped'
  <2>1. SyncTyped(y, Len(commits))
    BY <1>2, <1>3 DEF SyncTyped
  <2>2. \A r \in Sync : SyncTyped(syncing'[r], Len(commits))
    BY <1>4, <2>1 DEF RegistryInv, RegistryTyped
  <2>3. x.to \in 0..Len(commits)
    BY <1>2
  <2> QED
    BY <1>1, <1>4, <2>2, <2>3 DEF RegistryInv, RegistryTyped
<1>6. StartsOnce'
  <2>1. syncing["init"].pc \notin {"extracted", "hash"} /\ "init" \in Sync
    BY <1>2 DEF RegistryInv, StartsOnce, Sync
  <2>2. syncing'["init"].pc \notin {"extracted", "hash"}
    BY <1>3, <1>4, <2>1
  <2>3. x.to # 0 /\ isCloned
    BY <1>2 DEF RegistryInv, StartsOnce
  <2> QED
    BY <1>1, <2>2, <2>3 DEF StartsOnce
<1>7. ASSUME Clean' PROVE CleanInv'
  <2>1. CleanInv /\ FilesFollow(x, commits, last, tempFiles)
    BY <1>1, <1>7 DEF RegistryInv, Clean, CleanInv
  <2>2. \A r \in Sync : r # s => ~Busy(syncing'[r])
    BY <1>1, <1>4, <2>1 DEF CleanInv, Busy
  <2>3. AllFollow(commits, last, localFiles)
    <3>1. \A r \in Sync : syncing[r].pc # "move"
      BY <1>1, <1>4, <2>2 DEF Busy
    <3> QED
      BY <1>2, <2>1, <3>1 DEF CleanInv
  <2>4. MovesFollow(y, commits, x.to, tempFiles, localFiles)
    <3>1. ASSUME NEW d \in x.done, NEW e \in x.done, d.dir = e.dir, d.filename = e.filename
          PROVE  d = e
      <4>1. d.status = e.status
        BY <1>1, <2>1, <3>1 DEF FilesFollow, StatusIs
      <4> QED
        BY <1>2, <3>1, <4>1 DEF DoneFile
    <3>2. ASSUME NEW d \in x.done
          PROVE  IF d.status = "removed" THEN commits[x.to][d.dir][d.filename] = << >>
                 ELSE Stems(commits, tempFiles[d.dir][d.filename], x.to, d.dir, d.filename)
      <4>1. StatusIs(d.status, commits, last, x.to, d.dir, d.filename)
        BY <1>1, <2>1, <3>2 DEF FilesFollow
      <4>2. d.status = "removed" => commits[x.to][d.dir][d.filename] = << >>
        BY <4>1 DEF StatusIs, fileStatus
      <4> QED
        BY <1>1, <2>1, <3>2, <4>2 DEF FilesFollow
    <3>3. ASSUME NEW a \in App, NEW f \in MetaFiles, ~IsDone(x, a, f)
          PROVE  Stems(commits, localFiles[a][f], x.to, a, f)
      <4>1. ~IsTodo(x, a, f)
        BY <1>1 DEF IsTodo
      <4>2. \/ commits[last][a][f] = commits[x.to][a][f]
            \/ commits[x.to][a][f] = << >> /\ Left(commits, a, f)
        BY <1>1, <2>1, <3>3, <4>1 DEF FilesFollow
      <4>3. Stems(commits, localFiles[a][f], last, a, f)
        BY <2>3 DEF AllFollow
      <4>4. CASE commits[last][a][f] = commits[x.to][a][f]
        BY <1>2, <4>3, <4>4, StemsFacts
      <4>5. CASE commits[x.to][a][f] = << >> /\ Left(commits, a, f)
        BY <4>5 DEF Stems
      <4> QED
        BY <4>2, <4>4, <4>5
    <3> QED
      BY <1>3, <3>1, <3>2, <3>3 DEF MovesFollow, IsDone
  <2>5. ASSUME NEW r \in Sync
        PROVE  /\ FilesFollow(syncing'[r], commits, x.to, tempFiles)
               /\ MovesFollow(syncing'[r], commits, x.to, tempFiles, localFiles)
    <3>1. CASE r = s
      BY <1>3, <1>4, <2>4, <3>1 DEF FilesFollow
    <3>2. CASE r # s
      BY <2>2, <3>2 DEF FilesFollow, MovesFollow, Busy
    <3> QED
      BY <3>1, <3>2
  <2>6. \A r \in Sync, q \in Sync : Busy(syncing'[r]) /\ Busy(syncing'[q]) => r = q
    BY <2>2
  <2>7. syncing'[s].pc = "move"
    BY <1>3, <1>4
  <2> QED
    BY <1>1, <2>5, <2>6, <2>7 DEF CleanInv
<1> QED
  BY <1>5, <1>6, <1>7 DEF RegistryInv

LEMMA MoveFileKeeps ==
  ASSUME RegistryInv, NEW s \in Sync, NEW d \in DoneFile, moveFile(s, d)
  PROVE  RegistryInv'
<1> DEFINE x == syncing[s]
           y == [pc |-> "move", done |-> x.done \ {d}]
           last == lastSyncedCommit
           L == localFiles'
           T == tempFiles'
           b == d.dir
           g == d.filename
<1>1. /\ x.pc = "move" /\ d \in x.done
      /\ syncing' = [syncing EXCEPT ![s] = y]
      /\ L = IF d.status = "removed" THEN rm(localFiles, d) ELSE mv(d)
      /\ T = IF d.status = "removed" THEN tempFiles ELSE rm(tempFiles, d)
      /\ UNCHANGED <<commits, lastSyncedCommit, isCloned, accidents>>
  BY DEF moveFile
<1>2. /\ x.done \subseteq DoneFile /\ b \in App /\ g \in MetaFiles
      /\ localFiles \in Files /\ tempFiles \in Files
      /\ Len(commits) \in Nat /\ last \in 1..Len(commits)
  BY <1>1 DEF RegistryInv, RegistryTyped, SyncTyped, StartsOnce, Busy, DoneFile
<1>3. y.pc = "move" /\ y.done = x.done \ {d} /\ y = [pc |-> "move", done |-> y.done]
  OBVIOUS
<1> HIDE DEF y, L, T
<1>4. /\ syncing' = [r \in Sync |-> syncing'[r]]
      /\ syncing'[s] = y
      /\ \A r \in Sync : r # s => syncing'[r] = syncing[r]
  BY <1>1, SyncSet DEF RegistryInv
<1>5. /\ \A h \in Files : /\ rm(h, d) \in Files /\ rm(h, d)[b][g] = << >>
                          /\ \A a \in App, f \in MetaFiles : ~(a = b /\ f = g) => rm(h, d)[a][f] = h[a][f]
      /\ mv(d) \in Files /\ mv(d)[b][g] = tempFiles[b][g]
      /\ \A a \in App, f \in MetaFiles : ~(a = b /\ f = g) => mv(d)[a][f] = localFiles[a][f]
  BY <1>2 DEF rm, mv, Files
<1>6. /\ L \in Files /\ T \in Files
      /\ \A a \in App, f \in MetaFiles : ~(a = b /\ f = g) =>
           L[a][f] = localFiles[a][f] /\ T[a][f] = tempFiles[a][f]
      /\ L[b][g] = IF d.status = "removed" THEN << >> ELSE tempFiles[b][g]
  BY <1>1, <1>2, <1>5
<1>7. RegistryTyped'
  <2>1. SyncTyped(y, Len(commits))
    BY <1>2, <1>3 DEF SyncTyped
  <2>2. \A r \in Sync : SyncTyped(syncing'[r], Len(commits))
    BY <1>4, <2>1 DEF RegistryInv, RegistryTyped
  <2> QED
    BY <1>1, <1>4, <1>6, <2>2 DEF RegistryInv, RegistryTyped, L, T
<1>8. StartsOnce'
  <2>1. syncing["init"].pc \notin {"extracted", "hash"} /\ "init" \in Sync
    BY <1>2 DEF RegistryInv, StartsOnce, Sync
  <2>2. syncing'["init"].pc \notin {"extracted", "hash"}
    BY <1>3, <1>4, <2>1
  <2>3. last # 0 /\ isCloned
    BY <1>2 DEF RegistryInv, StartsOnce
  <2> QED
    BY <1>1, <2>2, <2>3 DEF StartsOnce
<1>9. ASSUME Clean' PROVE CleanInv'
  <2>1. CleanInv /\ MovesFollow(x, commits, last, tempFiles, localFiles)
    BY <1>1, <1>9 DEF RegistryInv, Clean, CleanInv
  <2>2. \A r \in Sync : r # s => ~Busy(syncing'[r])
    BY <1>1, <1>4, <2>1 DEF CleanInv, Busy
  <2>3. MovesFollow(y, commits, last, T, L)
    <3>1. ASSUME NEW e \in y.done
          PROVE  /\ ~(e.dir = b /\ e.filename = g) /\ e \in x.done
                 /\ e.dir \in App /\ e.filename \in MetaFiles
      BY <1>1, <1>2, <1>3, <2>1, <3>1 DEF MovesFollow, DoneFile
    <3>2. ASSUME NEW e \in y.done
          PROVE  IF e.status = "removed" THEN commits[last][e.dir][e.filename] = << >>
                 ELSE Stems(commits, T[e.dir][e.filename], last, e.dir, e.filename)
      <4>1. T[e.dir][e.filename] = tempFiles[e.dir][e.filename]
        BY <1>6, <3>1
      <4> QED
        BY <1>1, <2>1, <3>1, <4>1 DEF MovesFollow
    <3>3. Stems(commits, L[b][g], last, b, g)
      <4>1. CASE d.status = "removed"
        <5>1. L[b][g] = commits[last][b][g]
          BY <1>1, <1>6, <2>1, <4>1 DEF MovesFollow
        <5> QED
          BY <1>2, <5>1, StemsFacts
      <4>2. CASE d.status # "removed"
        BY <1>1, <1>6, <2>1, <4>2 DEF MovesFollow
      <4> QED
        BY <4>1, <4>2
    <3>4. ASSUME NEW a \in App, NEW f \in MetaFiles, ~IsDone(y, a, f)
          PROVE  Stems(commits, L[a][f], last, a, f)
      <4>1. CASE a = b /\ f = g
        BY <3>3, <4>1
      <4>2. CASE ~(a = b /\ f = g)
        <5>1. ~IsDone(x, a, f)
          BY <1>3, <3>4, <4>2 DEF IsDone
        <5>2. Stems(commits, localFiles[a][f], last, a, f)
          BY <1>1, <2>1, <5>1 DEF MovesFollow
        <5> QED
          BY <1>6, <4>2, <5>2
      <4> QED
        BY <4>1, <4>2
    <3>5. \A e \in y.done, h \in y.done : e.dir = h.dir /\ e.filename = h.filename => e = h
      BY <1>1, <2>1, <3>1 DEF MovesFollow
    <3> QED
      BY <3>2, <3>4, <3>5 DEF MovesFollow
  <2>4. ASSUME NEW r \in Sync
        PROVE  /\ FilesFollow(syncing'[r], commits, last, T)
               /\ MovesFollow(syncing'[r], commits, last, T, L)
    <3>1. CASE r = s
      BY <1>3, <1>4, <2>3, <3>1 DEF FilesFollow
    <3>2. CASE r # s
      BY <2>2, <3>2 DEF FilesFollow, MovesFollow, Busy
    <3> QED
      BY <3>1, <3>2
  <2>5. \A r \in Sync, q \in Sync : Busy(syncing'[r]) /\ Busy(syncing'[q]) => r = q
    BY <2>2
  <2>6. syncing'[s].pc = "move"
    BY <1>3, <1>4
  <2> QED
    BY <1>1, <2>4, <2>5, <2>6 DEF CleanInv, L, T
<1> QED
  BY <1>7, <1>8, <1>9 DEF RegistryInv

\* Before a commit is recorded nobody is busy, and nothing is promised.
LEMMA BeforeFirstCommit ==
  RegistryTyped /\ StartsOnce /\ lastSyncedCommit = 0 => RegistryInv
<1> SUFFICES ASSUME RegistryTyped, StartsOnce, lastSyncedCommit = 0 PROVE RegistryInv
  OBVIOUS
<1>1. \A s \in Sync : ~Busy(syncing[s])
  BY DEF StartsOnce
<1>2. CleanInv
  BY <1>1 DEF CleanInv, Busy, FilesFollow, MovesFollow
<1> QED
  BY <1>2 DEF RegistryInv

LEMMA DownloadKeeps ==
  ASSUME RegistryInv, downloadAndExtractTarball
  PROVE  RegistryInv'
<1> DEFINE x == [pc |-> "extracted", files |-> head]
<1>1. /\ ~(lastSyncedCommit # 0 /\ isCloned)
      /\ localFiles' = NoFiles /\ isCloned' = FALSE
      /\ syncing' = [syncing EXCEPT !["init"] = x]
      /\ UNCHANGED <<commits, tempFiles, lastSyncedCommit>>
  BY DEF downloadAndExtractTarball
<1>2. lastSyncedCommit = 0 /\ "init" \in Sync
  BY <1>1 DEF RegistryInv, StartsOnce, Sync
<1>3. head \in Files
  BY DEF RegistryInv, RegistryTyped, head
<1>4. x.pc = "extracted" /\ x.files = head
  OBVIOUS
<1> HIDE DEF x
<1>5. /\ syncing' = [r \in Sync |-> syncing'[r]]
      /\ syncing'["init"] = x
      /\ \A r \in Sync : r # "init" => syncing'[r] = syncing[r]
  BY <1>1, <1>2, SyncSet DEF RegistryInv
<1>6. RegistryTyped'
  <2>1. \A r \in Sync : SyncTyped(syncing'[r], Len(commits))
    BY <1>4, <1>5 DEF RegistryInv, RegistryTyped, SyncTyped
  <2> QED
    BY <1>1, <1>5, <2>1, NoFilesTyped DEF RegistryInv, RegistryTyped
<1>7. StartsOnce'
  BY <1>1, <1>2, <1>3, <1>4, <1>5 DEF RegistryInv, StartsOnce, Busy
<1>8. (lastSyncedCommit = 0)'
  BY <1>1, <1>2
<1> QED
  BY <1>6, <1>7, <1>8, BeforeFirstCommit, PTL

LEMMA RenameKeeps ==
  ASSUME RegistryInv, renameExtracted
  PROVE  RegistryInv'
<1>1. /\ syncing["init"].pc = "extracted" /\ "init" \in Sync
      /\ lastSyncedCommit = 0 /\ syncing["init"].files \in Files
      /\ UNCHANGED <<commits, tempFiles, lastSyncedCommit>>
  BY DEF RegistryInv, StartsOnce, Sync, renameExtracted
<1>2. \E x : /\ syncing' = [syncing EXCEPT !["init"] = x] /\ x.pc \in {"idle", "hash"}
             /\ x.pc = "hash" => isCloned' = TRUE
  <2>1. CASE isCloned
    BY <2>1 DEF renameExtracted, NotSyncing
  <2>2. CASE ~isCloned
    BY <2>2 DEF renameExtracted
  <2> QED
    BY <2>1, <2>2
<1>3. PICK x : /\ syncing' = [syncing EXCEPT !["init"] = x] /\ x.pc \in {"idle", "hash"}
               /\ x.pc = "hash" => isCloned' = TRUE
  BY <1>2
<1>4. localFiles' \in Files
  BY <1>1 DEF renameExtracted, RegistryInv, RegistryTyped
<1>5. /\ syncing' = [r \in Sync |-> syncing'[r]]
      /\ syncing'["init"] = x
      /\ \A r \in Sync : r # "init" => syncing'[r] = syncing[r]
  BY <1>1, <1>3, SyncSet DEF RegistryInv
<1>6. RegistryTyped'
  <2>1. \A r \in Sync : SyncTyped(syncing'[r], Len(commits))
    BY <1>3, <1>5 DEF RegistryInv, RegistryTyped, SyncTyped
  <2> QED
    BY <1>1, <1>4, <1>5, <2>1 DEF RegistryInv, RegistryTyped
<1>7. StartsOnce'
  BY <1>1, <1>3, <1>5 DEF RegistryInv, StartsOnce, Busy
<1>8. (lastSyncedCommit = 0)'
  BY <1>1
<1> QED
  BY <1>6, <1>7, <1>8, BeforeFirstCommit, PTL

LEMMA SetLatestKeeps ==
  ASSUME RegistryInv, setLatestCommitHash
  PROVE  RegistryInv'
<1> DEFINE x == [pc |-> "indexAll"]
<1>1. /\ syncing["init"].pc = "hash" /\ lastSyncedCommit' = Len(commits)
      /\ accidents' = accidents \cup (IF localFiles # head THEN {"skipped"} ELSE {})
      /\ syncing' = [syncing EXCEPT !["init"] = x]
      /\ UNCHANGED <<commits, localFiles, isCloned, tempFiles>>
  BY DEF setLatestCommitHash
<1>2. "init" \in Sync /\ isCloned /\ \A s \in Sync : ~Busy(syncing[s])
  BY <1>1 DEF RegistryInv, StartsOnce, Sync
<1>3. commits \in Seq(Files) /\ Len(commits) \in Nat /\ Len(commits) >= 1
  BY DEF RegistryInv, RegistryTyped
<1>4. x.pc = "indexAll"
  OBVIOUS
<1> HIDE DEF x
<1>5. /\ syncing' = [r \in Sync |-> syncing'[r]]
      /\ syncing'["init"] = x
      /\ \A r \in Sync : r # "init" => syncing'[r] = syncing[r]
  BY <1>1, <1>2, SyncSet DEF RegistryInv
<1>6. \A s \in Sync : ~Busy(syncing'[s])
  BY <1>2, <1>4, <1>5 DEF Busy
<1>7. RegistryTyped'
  <2>1. \A r \in Sync : SyncTyped(syncing'[r], Len(commits))
    BY <1>6 DEF SyncTyped, Busy
  <2>2. Len(commits) \in 0..Len(commits)
    BY <1>3
  <2> QED
    BY <1>1, <1>5, <2>1, <2>2 DEF RegistryInv, RegistryTyped
<1>8. StartsOnce'
  BY <1>1, <1>2, <1>4, <1>5, <1>6 DEF StartsOnce
<1>9. ASSUME Clean' PROVE CleanInv'
  <2>1. localFiles = head
    BY <1>1, <1>9 DEF Clean
  <2>2. AllFollow(commits, Len(commits), localFiles)
    <3>1. Len(commits) \in 1..Len(commits)
      BY <1>3
    <3> QED
      BY <1>3, <2>1, <3>1, StemsFacts DEF AllFollow, head
  <2>3. \A r \in Sync : /\ FilesFollow(syncing'[r], commits, Len(commits), tempFiles)
                        /\ MovesFollow(syncing'[r], commits, Len(commits), tempFiles, localFiles)
    BY <1>6 DEF FilesFollow, MovesFollow, Busy
  <2> QED
    BY <1>1, <1>6, <2>2, <2>3 DEF CleanInv
<1> QED
  BY <1>7, <1>8, <1>9 DEF RegistryInv

LEMMA RestartKeeps ==
  ASSUME RegistryInv, RestartRegistry
  PROVE  RegistryInv'
<1>1. /\ syncing' = [s \in Sync |-> IF s = "init" THEN [pc |-> "start"] ELSE NotSyncing]
      /\ accidents' = (accidents \ {"start failed"}) \cup (IF IsMoving THEN {"torn"} ELSE {})
      /\ UNCHANGED <<commits, localFiles, isCloned, tempFiles, lastSyncedCommit>>
  BY DEF RestartRegistry
<1>2. /\ syncing' = [s \in Sync |-> syncing'[s]]
      /\ \A s \in Sync : syncing'[s].pc \in {"start", "idle"}
  BY <1>1 DEF NotSyncing
<1>3. RegistryTyped'
  <2>1. \A s \in Sync : SyncTyped(syncing'[s], Len(commits))
    BY <1>2 DEF SyncTyped
  <2> QED
    BY <1>1, <1>2, <2>1 DEF RegistryInv, RegistryTyped
<1>4. StartsOnce'
  <2>1. "init" \in Sync
    BY DEF Sync
  <2> QED
    BY <1>1, <1>2, <2>1 DEF RegistryInv, StartsOnce, Busy
<1>5. ASSUME Clean' PROVE CleanInv'
  <2>1. CleanInv /\ ~IsMoving
    BY <1>1, <1>5 DEF RegistryInv, Clean
  <2>2. ASSUME lastSyncedCommit # 0 PROVE AllFollow(commits, lastSyncedCommit, localFiles)
    <3>1. CASE \E s \in Sync : syncing[s].pc = "move"
      <4>1. PICK s \in Sync : syncing[s].pc = "move"
        BY <3>1
      <4>2. \A a, f : ~IsDone(syncing[s], a, f)
        BY <2>1, <4>1 DEF IsMoving, IsDone
      <4> QED
        BY <2>1, <4>1, <4>2 DEF CleanInv, MovesFollow, AllFollow
    <3>2. CASE \A s \in Sync : syncing[s].pc # "move"
      BY <2>1, <2>2, <3>2 DEF CleanInv
    <3> QED
      BY <3>1, <3>2
  <2>3. \A s \in Sync : /\ ~Busy(syncing'[s])
                        /\ FilesFollow(syncing'[s], commits, lastSyncedCommit, tempFiles)
                        /\ MovesFollow(syncing'[s], commits, lastSyncedCommit, tempFiles, localFiles)
    BY <1>2 DEF Busy, FilesFollow, MovesFollow
  <2> QED
    BY <1>1, <2>2, <2>3 DEF CleanInv
<1> QED
  BY <1>3, <1>4, <1>5 DEF RegistryInv

LEMMA InitRegistryInv == RegistryInit => RegistryInv
<1> SUFFICES ASSUME RegistryInit PROVE RegistryInv
  OBVIOUS
<1> DEFINE first == [a \in App |-> [f \in MetaFiles |->
                       IF a # CHOOSE b \in App : TRUE THEN << >>
                       ELSE IF f = APP_JSON THEN <<<<a, CHOOSE n \in ChainName : TRUE>>>>
                       ELSE <<CHOOSE t \in TokenSets : TRUE>>]]
<1>1. /\ commits = <<first>> /\ lastSyncedCommit = 0
      /\ localFiles = NoFiles /\ tempFiles = NoFiles
      /\ syncing = [s \in Sync |-> IF s = "init" THEN [pc |-> "start"] ELSE NotSyncing]
  BY DEF RegistryInit
<1>2. (CHOOSE n \in ChainName : TRUE) \in ChainName
  BY RegistryAssumption
<1>3. (CHOOSE t \in TokenSets : TRUE) \in TokenSets
  BY RegistryAssumption
<1>4. first \in Files
  BY <1>2, <1>3 DEF Files
<1> HIDE DEF first
<1>5. \A s \in Sync : syncing[s].pc \in {"start", "idle"}
  BY <1>1 DEF NotSyncing
<1>6. RegistryTyped
  BY <1>1, <1>4, <1>5, NoFilesTyped DEF RegistryTyped, SyncTyped
<1>7. StartsOnce
  <2>1. "init" \in Sync
    BY DEF Sync
  <2> QED
    BY <1>1, <1>5, <2>1 DEF StartsOnce, Busy
<1> QED
  BY <1>1, <1>6, <1>7, BeforeFirstCommit

LEMMA NextKeepsRegistryInv ==
  ASSUME RegistryInv, RegistryNext
  PROVE  RegistryInv'
<1>1. CASE \E a \in App, f \in MetaFiles : \E c \in Contents(a, f) : Push(a, f, c)
  BY <1>1, PushKeeps
<1>2. CASE metadataJob
  <2>1. "job" \in Sync /\ startSync("job") /\ syncing["job"].pc # "move"
    BY <1>2 DEF metadataJob, Sync, NotSyncing
  <2> QED
    BY <2>1, StartSyncKeeps
<1>3. ASSUME NEW s \in Sync, SyncStep(s) PROVE RegistryInv'
  <2>1. CASE \E d \in [dir : App, filename : MetaFiles,
                        status : {"added", "renamed"} \cup fileUpdatedStatuses] : moveFile(s, d)
    BY <2>1, MoveFileKeeps DEF DoneFile, FileStatus
  <2>2. CASE \E a \in App : processFile(s, a)
    BY <2>2, ProcessFileKeeps
  <2> QED
    BY <1>3, <2>1, <2>2, SkipSyncKeeps, GetCommitInfoKeeps, CommitSyncKeeps, EndSyncKeeps,
       FailSyncKeeps, FailStartKeeps DEF SyncStep
<1>4. CASE InitStep
  <2>1. CASE initSyncs
    <3>1. "init" \in Sync /\ startSync("init") /\ syncing["init"].pc # "move"
      BY <2>1 DEF initSyncs, Sync
    <3> QED
      BY <3>1, StartSyncKeeps
  <2> QED
    BY <1>4, <2>1, DownloadKeeps, RenameKeeps, SetLatestKeeps, IndexAllKeeps DEF InitStep
<1>5. CASE RestartRegistry
  BY <1>5, RestartKeeps
<1>6. CASE \E a, b \in App : PushMove(b, a)
  BY <1>6, PushMoveKeeps
<1> QED
  BY <1>1, <1>2, <1>3, <1>4, <1>5, <1>6 DEF RegistryNext

LEMMA RegistryInvUnchanged ==
  ASSUME RegistryInv, UNCHANGED registryVars
  PROVE  RegistryInv'
  BY DEF registryVars, RegistryInv, RegistryTyped, StartsOnce, Clean, CleanInv

LEMMA RegistryInvIsEnough == RegistryInv => SyncedCommitIsCloned
<1> SUFFICES ASSUME RegistryInv, RegistryAtRest, lastSyncedCommit = Len(commits), Clean,
                    NEW a \in App, NEW f \in MetaFiles
             PROVE  ClonedOrUndone(a, f) \/ (head[a][f] = << >> /\ LeftBehind(a, f))
  BY DEF SyncedCommitIsCloned, CloneHoldsHead, Clean
<1>1. RegistryTyped /\ lastSyncedCommit # 0
  BY DEF RegistryInv, RegistryTyped
<1>2. \A s \in Sync : syncing[s].pc # "move"
  BY DEF RegistryAtRest, NotSyncing
<1>3. Stems(commits, localFiles[a][f], Len(commits), a, f)
  BY <1>1, <1>2 DEF RegistryInv, CleanInv, AllFollow
<1> QED
  BY <1>1, <1>3, LatestStems

\* App Registry: the part of RegistryConsistent about the clone.  Whatever is pushed
\* while files are downloaded, whatever fails and whenever the service is restarted, the
\* commit that is recorded as synchronised is in the clone at rest, but for files that the
\* repository has changed back, and what the clone has in addition are files that a
\* comparison of commits showed as renamed (syncWithRemoteRepo, downloadRepositoryToFS).
THEOREM RecordedCommitAlwaysCloned == Spec => []SyncedCommitIsCloned
<1>1. Init => RegistryInv
  BY InitRegistryInv DEF Init
<1>2. RegistryInv /\ [Next]_vars => RegistryInv'
  BY NextKeepsRegistryInv, RegistryInvUnchanged
     DEF Next, vars, MarketStep, StatisticsStep, ExportStep, RegistryStep
<1> QED
  BY <1>1, <1>2, RegistryInvIsEnough, PTL DEF Spec
=============================================================================
