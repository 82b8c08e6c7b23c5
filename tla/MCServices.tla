----------------------------- MODULE MCServices -----------------------------
(***************************************************************************)
(* The services that run next to the indexer and the connector and share   *)
(* no state with one another: Market, Transaction Statistics, Export and   *)
(* App Registry.  Each behaviour is one of one service; the others are at  *)
(* their start, where they do not disturb it.                              *)
(***************************************************************************)
EXTENDS Market, Statistics, Export, AppRegistry

CONSTANT Services   \* to check
VARIABLE focus      \* the service

MCSources == <<"exchangeratesapi", "kraken">>
MCTargetPairs == {<<"LSK", "EUR">>, <<"LSK", "CHF">>}
MCTTL == [s \in {"exchangeratesapi", "kraken"} |-> IF s = "kraken" THEN 2 ELSE 3]

MCGroup == {[type |-> "token:transfer", range |-> r] : r \in 0..1}

MCKinds == <<"self", "reclaim", "self">>
MCInterval == {<<0, 1>>, <<0, Open>>}

MCTokenSets == {{"t"}, {"t", "u"}}

vars == <<focus, marketVars, statsVars, exportVars, registryVars>>

Init ==
  /\ focus \in Services
  /\ MarketInit
  /\ StatisticsInit
  /\ ExportInit /\ (focus # "export" => driver = "filesystem")
  /\ RegistryInit

MarketStep(A) ==
  focus = "market" /\ A /\ UNCHANGED <<focus, statsVars, exportVars, registryVars>>
StatisticsStep(A) ==
  focus = "statistics" /\ A /\ UNCHANGED <<focus, marketVars, exportVars, registryVars>>
ExportStep(A) ==
  focus = "export" /\ A /\ UNCHANGED <<focus, marketVars, statsVars, registryVars>>
RegistryStep(A) ==
  focus = "registry" /\ A /\ UNCHANGED <<focus, marketVars, statsVars, exportVars>>

Next ==
  \/ MarketStep(MarketNext)
  \/ StatisticsStep(StatisticsNext)
  \/ ExportStep(ExportNext)
  \/ RegistryStep(RegistryNext)

Spec == Init /\ [][Next]_vars
-----------------------------------------------------------------------------
(* Jobs run again and again and get on as long as nothing fails, and time   *)
(* passes: the fairness that each of the following properties names.        *)

MarketFairness ==
  /\ \A s \in SourceSet : WF_vars(MarketStep(reload(s)))
  /\ WF_vars(MarketStep(\E u \in Updater : UpdatePrices(u)))
  /\ WF_vars(MarketStep(Minute))

StatisticsFairness ==
  /\ WF_vars(StatisticsStep(JobStep))
  /\ WF_vars(StatisticsStep(updateTodayStats))
  /\ WF_vars(StatisticsStep(TimePasses))

ExportFairness == \A w \in Worker : WF_vars(ExportStep(ExportJobStep(w)))

RegistryFairness ==
  /\ WF_vars(RegistryStep(metadataJob \/ SyncStep("job")))
  /\ WF_vars(RegistryStep(InitStep \/ SyncStep("init")))

RegistrySpec == Spec /\ RegistryFairness

\* Market: what an exchange that answers lists is offered again and again.
MarketPricesReturn == focus = "market" /\ MarketFairness => PricesReturn

\* Statistics: once nothing changes, today is counted right.
StatisticsCountToday == focus = "statistics" /\ StatisticsFairness => TodayIsCounted

\* Export: scheduled jobs end.
ExportJobsEnd == focus = "export" /\ ExportFairness => ExportsEnd

\* App Registry: at rest the tables hold what the clone of the repository holds,
\* and a commit that is recorded as synchronised is in the clone.
RegistryConsistent == focus = "registry" => TablesMirrorClone /\ SyncedCommitIsCloned

\* App Registry: the clone becomes that of the latest commit.
RegistryCatchesUp == focus = "registry" /\ RegistryFairness => CloneCatchesUp
=============================================================================
