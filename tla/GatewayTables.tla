--------------------------- MODULE GatewayTables ---------------------------
(***************************************************************************)
(* The routes of the gateway: of each method the parameters it accepts,    *)
(* and of its source the action that is called, the parameters that are    *)
(* forwarded to it and the parts of the answer that are returned.  Values  *)
(* are checked by patterns, which are left out here.                       *)
(***************************************************************************)
EXTENDS ServiceTables

\* "nested" are the parameters that the source specifies by an object instead
\* of a string; "renamed" are those forwarded under another name.
Source(action, params, answers) ==
  [action |-> action, params |-> params, renamed |-> {}, nested |-> {},
   answers |-> answers]

\* By default limit and offset are numbers, and they and the order have
\* defaults; no parameter is needed.
Method(params, source) ==
  [params |-> params,
   numbers |-> params \cap {"limit", "offset"},
   defaults |-> params \cap {"limit", "offset", "sort", "order"},
   needed |-> {}, pairings |-> {}, source |-> source,
   module |-> "common", rpc |-> TRUE, post |-> FALSE]
-----------------------------------------------------------------------------
exportSource == Source(exportTransactionsCsvAction, {"filename"}, {})
scheduleExportSource ==
  Source(exportTransactionsScheduleAction, {"address", "publicKey",
    "interval"}, {"data", "meta", "links"})
audiosSource ==
  [Source(indexerAudiosAction, {"name", "audioID", "creatorAddress",
    "releaseYear", "collectionID", "search", "limit", "offset", "sort",
    "order"}, {"data", "meta", "links"}) EXCEPT !.nested = {"collection",
    "owners", "feat"}]
blockAssetsSource ==
  Source(indexerBlocksAssetsAction, {"blockID", "height", "module",
    "timestamp", "offset", "limit", "sort"}, {"data", "meta", "links"})
blockchainAppsSource ==
  Source(indexerBlockchainAppsAction, {"chainID", "name", "search", "status",
    "offset", "limit"}, {"data", "meta", "links"})
blockchainAppsMetaListSource ==
  Source(appRegistryBlockchainAppsMetaListAction, {"chainName", "network",
    "search", "offset", "limit", "sort"}, {"data", "meta", "links"})
blockchainAppsMetadataSource ==
  Source(appRegistryBlockchainAppsMetaAction, {"chainName", "chainID",
    "isDefault", "network", "search", "offset", "limit", "sort"}, {"data",
    "meta", "links"})
blockchainAppsStatsSource ==
  Source(indexerBlockchainAppsStatisticsAction, {}, {"data", "meta", "links"})
blockchainAppsTokenMetadataSource ==
  Source(appRegistryBlockchainAppsMetaTokensAction, {"chainName", "chainID",
    "tokenName", "tokenID", "network", "search", "offset", "limit", "sort"},
    {"data", "meta", "links"})
blockchainAppsTokenSupportedMetadataSource ==
  Source(appRegistryBlockchainAppsMetaTokensSupportedAction, {"chainID",
    "offset", "limit", "sort"}, {"data", "meta", "links"})
blocksSource ==
  Source(indexerBlocksAction, {"blockID", "height", "generatorAddress",
    "timestamp", "offset", "limit", "sort"}, {"data", "meta", "links"})
collectionsSource ==
  Source(indexerCollectionsAction, {"name", "collectionID", "creatorAddress",
    "releaseYear", "collectionType", "search", "limit", "offset", "sort",
    "order"}, {"data", "meta", "links"})
eventsSource ==
  Source(indexerEventsAction, {"transactionID", "senderAddress", "blockID",
    "height", "timestamp", "limit", "offset", "sort", "order"}, {"data",
    "meta", "links"})
feesSource == Source(feesEstimatesAction, {}, {"data", "meta", "links"})
generatorsSource ==
  Source(indexerGeneratorsAction, {"limit", "offset"}, {"data", "meta",
    "links"})
indexStatusSource ==
  Source(indexerIndexStatusAction, {}, {"data", "meta", "links"})
invokeSource ==
  Source(connectorInvokeEndpointAction, {"endpoint", "params"}, {"data",
    "meta"})
marketPricesSource == Source(marketPricesAction, {}, {"data", "meta", "links"})
authSource == Source(indexerAuthAction, {"address"}, {"data", "meta", "links"})
rewardAnnualInflationSource ==
  Source(indexerRewardAnnualInflationAction, {"height"}, {"data", "meta"})
rewardConstantsSource ==
  Source(indexerRewardConstantsAction, {}, {"data", "meta"})
rewardDefaultSource ==
  Source(indexerRewardDefaultAction, {"height"}, {"data", "meta"})
legacyAccountsSource ==
  Source(indexerLegacyAction, {"publicKey"}, {"data", "meta", "links"})
posClaimableRewardsSource ==
  Source(indexerPosRewardsClaimableAction, {"address", "publicKey", "name",
    "limit", "offset"}, {"data", "meta"})
posConstantsSource ==
  Source(indexerPosConstantsAction, {}, {"data", "meta", "links"})
posRewardsLockedSource ==
  Source(indexerPosRewardsLockedAction, {"address", "publicKey", "name",
    "limit", "offset"}, {"data", "meta"})
posStakersSource ==
  Source(indexerPosStakersAction, {"address", "publicKey", "name", "search",
    "limit", "offset"}, {"data", "meta"})
posStakesSource ==
  Source(indexerPosStakesAction, {"address", "publicKey", "name", "search"},
    {"data", "meta"})
posUnlocksSource ==
  Source(indexerPosUnlocksAction, {"address", "name", "publicKey", "isLocked",
    "limit", "offset"}, {"data", "meta", "links"})
posValidatorsSource ==
  Source(indexerPosValidatorsAction, {"address", "publicKey", "name", "status",
    "search", "offset", "limit", "sort"}, {"data", "meta"})
tokenAccountExistsSource ==
  Source(indexerTokenAccountExistsAction, {"address", "publicKey", "name",
    "tokenID"}, {"data", "meta"})
tokenBalancesSource ==
  Source(indexerTokenBalancesAction, {"address", "tokenID", "offset", "limit"},
    {"data", "meta", "links"})
tokenConstantsSource ==
  Source(indexerTokenConstantsAction, {}, {"data", "meta", "links"})
tokenSummarySource ==
  Source(indexerTokenSummaryAction, {"offset", "limit"}, {"data", "meta",
    "links"})
validatorSource ==
  Source(indexerValidatorAction, {"address"}, {"data", "meta", "links"})
validatorValidateBLSKeySource ==
  Source(indexerValidateBLSKeyAction, {"blsKey", "proofOfPossession"}, {"data",
    "meta", "links"})
networkPeersSource ==
  Source(indexerNetworkPeersAction, {"ip", "networkVersion", "state", "height",
    "limit", "offset", "sort"}, {"data", "meta", "links"})
networkStatisticsSource ==
  Source(indexerNetworkStatisticsAction, {}, {"data", "meta", "links"})
networkStatusSource ==
  Source(indexerNetworkStatusAction, {}, {"data", "meta", "links"})
postTransactionsSource ==
  Source(indexerTransactionsPostAction, {"transaction"}, {"message",
    "transactionID"})
profilesSource ==
  [Source(indexerProfilesAction, {"profileID", "name", "nickName",
    "description", "avatarHash", "avatarSignature", "bannerHash",
    "bannerSignature", "creatorAddress", "search"}, {"data", "meta",
    "links"}) EXCEPT !.nested = {"socialAccounts"}]
schemasSource == Source(indexerSchemasAction, {}, {"data", "meta", "links"})
subscriptionsSource ==
  [Source(indexerSubscriptionsAction, {"subscriptionID", "creatorAddress",
    "price", "consumed", "streams", "maxMembers", "limit", "offset", "sort",
    "order"}, {"data", "meta", "links"}) EXCEPT !.nested = {"members"}]
transactionsSource ==
  [Source(indexerTransactionsAction, {"moduleCommand", "senderAddress",
    "recipientAddress", "address", "blockID", "height", "timestamp",
    "executionStatus", "nonce", "limit", "offset", "sort", "order"}, {"data",
    "meta", "links"}) EXCEPT !.renamed = {<<"transactionID", "id">>}]
transactionsDryRunSource ==
  Source(indexerTransactionsDryrunAction, {"transaction", "skipVerify",
    "skipDecode"}, {"data", "meta"})
transactionsStatisticsSource ==
  Source(statisticsTransactionsStatisticsAction, {"interval", "offset",
    "limit"}, {"data", "meta", "links"})
-----------------------------------------------------------------------------
exportMethod ==
  [Method({"filename"}, exportSource) EXCEPT !.rpc = FALSE,
    !.needed = {"filename"}]
scheduleExportMethod ==
  [Method({"address", "publicKey", "interval"},
    scheduleExportSource) EXCEPT !.pairings = {{"address"}, {"publicKey"},
    {"address", "interval"}, {"publicKey", "interval"}}]
audiosMethod ==
  Method({"creatorAddress", "audioID", "collectionID", "ownerAddress",
    "search", "limit", "offset"}, audiosSource)
blockAssetsMethod ==
  Method({"blockID", "height", "timestamp", "module", "limit", "offset",
    "sort"}, blockAssetsSource)
blockchainAppsMethod ==
  Method({"chainID", "name", "status", "search", "limit", "offset"},
    blockchainAppsSource)
blockchainAppsMetaListMethod ==
  Method({"chainName", "network", "search", "limit", "offset", "sort"},
    blockchainAppsMetaListSource)
blockchainAppsMetadataMethod ==
  Method({"chainName", "chainID", "isDefault", "network", "search", "limit",
    "offset", "sort"}, blockchainAppsMetadataSource)
blockchainAppsStatisticsMethod == Method({}, blockchainAppsStatsSource)
blockchainAppsTokenMetadataMethod ==
  Method({"chainName", "chainID", "tokenName", "tokenID", "network", "search",
    "limit", "offset", "sort"}, blockchainAppsTokenMetadataSource)
blockchainAppsTokenSupportedMetadataMethod ==
  [Method({"chainID", "limit", "offset", "sort"},
    blockchainAppsTokenSupportedMetadataSource) EXCEPT !.needed = {"chainID"}]
blocksMethod ==
  Method({"blockID", "height", "timestamp", "generatorAddress", "limit",
    "offset", "sort"}, blocksSource)
collectionsMethod ==
  Method({"creatorAddress", "collectionID", "search"}, collectionsSource)
eventsMethod ==
  Method({"transactionID", "senderAddress", "topic", "blockID", "height",
    "timestamp", "limit", "offset", "sort", "order"}, eventsSource)
feesMethod == Method({}, feesSource)
generatorsMethod == Method({"limit", "offset"}, generatorsSource)
indexStatusMethod == Method({}, indexStatusSource)
invokeMethod ==
  [Method({"endpoint", "params"}, invokeSource) EXCEPT !.post = TRUE,
    !.needed = {"endpoint"}]
marketMethod == Method({}, marketPricesSource)
authMethod ==
  [Method({"address"}, authSource) EXCEPT !.module = "auth",
    !.needed = {"address"}]
rewardAnnualInflationMethod ==
  [Method({"height"},
    rewardAnnualInflationSource) EXCEPT !.module = "dynamicReward",
    !.numbers = {"height"}, !.needed = {"height"}]
rewardConstantsMethod ==
  [Method({}, rewardConstantsSource) EXCEPT !.module = "dynamicReward"]
rewardDefaultMethod ==
  [Method({"height"}, rewardDefaultSource) EXCEPT !.module = "dynamicReward",
    !.numbers = {"height"}, !.needed = {"height"}]
legacyAccountsMethod ==
  [Method({"publicKey"}, legacyAccountsSource) EXCEPT !.module = "legacy",
    !.needed = {"publicKey"}]
posClaimableRewardsMethod ==
  [Method({"address", "publicKey", "name", "limit", "offset"},
    posClaimableRewardsSource) EXCEPT !.module = "pos",
    !.pairings = {{"address"}, {"name"}, {"publicKey"}}]
posConstantsMethod == [Method({}, posConstantsSource) EXCEPT !.module = "pos"]
posRewardsLockedMethod ==
  [Method({"address", "publicKey", "name", "limit", "offset"},
    posRewardsLockedSource) EXCEPT !.module = "pos", !.pairings = {{"address"},
    {"name"}, {"publicKey"}}]
posStakersMethod ==
  [Method({"address", "publicKey", "name", "search", "limit", "offset"},
    posStakersSource) EXCEPT !.module = "pos", !.pairings = {{"address"},
    {"publicKey"}, {"name"}}]
posStakesMethod ==
  [Method({"address", "publicKey", "name", "search"},
    posStakesSource) EXCEPT !.module = "pos", !.pairings = {{"address"},
    {"publicKey"}, {"name"}}]
posUnlocksMethod ==
  [Method({"address", "publicKey", "name", "isLocked", "limit", "offset"},
    posUnlocksSource) EXCEPT !.module = "pos", !.pairings = {{"address"},
    {"name"}, {"publicKey"}, {"address", "isLocked"}, {"name", "isLocked"},
    {"publicKey", "isLocked"}}]
posValidatorsMethod ==
  [Method({"address", "publicKey", "name", "status", "search", "limit",
    "offset", "sort"}, posValidatorsSource) EXCEPT !.module = "pos"]
tokenAccountExistsMethod ==
  [Method({"address", "publicKey", "name", "tokenID"},
    tokenAccountExistsSource) EXCEPT !.module = "token",
    !.needed = {"tokenID"}, !.pairings = {{"address", "tokenID"}, {"publicKey",
    "tokenID"}, {"name", "tokenID"}}]
tokenBalancesMethod ==
  [Method({"address", "tokenID", "limit", "offset"},
    tokenBalancesSource) EXCEPT !.module = "token", !.needed = {"address"}]
tokenConstantsMethod ==
  [Method({}, tokenConstantsSource) EXCEPT !.module = "token"]
tokenSummaryMethod ==
  [Method({}, tokenSummarySource) EXCEPT !.module = "token"]
validatorMethod ==
  [Method({"address"}, validatorSource) EXCEPT !.module = "validators",
    !.needed = {"address"}]
validatorValidateBLSKeyMethod ==
  [Method({"blsKey", "proofOfPossession"},
    validatorValidateBLSKeySource) EXCEPT !.module = "validators",
    !.post = TRUE, !.needed = {"blsKey", "proofOfPossession"}]
networkPeersMethod ==
  [Method({"ip", "networkVersion", "state", "height", "limit", "offset",
    "sort"}, networkPeersSource) EXCEPT !.numbers = {"height", "limit",
    "offset"}, !.defaults = {"state", "limit", "offset", "sort"}]
networkStatisticsMethod == Method({}, networkStatisticsSource)
networkStatusMethod == Method({}, networkStatusSource)
postTransactionsMethod ==
  [Method({"transaction"}, postTransactionsSource) EXCEPT !.post = TRUE,
    !.needed = {"transaction"}]
profilesMethod ==
  Method({"creatorAddress", "profileID", "search"}, profilesSource)
schemasMethod == Method({}, schemasSource)
subscriptionsMethod ==
  Method({"creatorAddress", "subscriptionID", "memberAddress"},
    subscriptionsSource)
transactionsMethod ==
  Method({"transactionID", "moduleCommand", "senderAddress", "address",
    "recipientAddress", "blockID", "height", "timestamp", "executionStatus",
    "nonce", "limit", "offset", "sort", "order"}, transactionsSource)
transactionsDryRunMethod ==
  [Method({"transaction", "skipVerify", "skipDecode"},
    transactionsDryRunSource) EXCEPT !.post = TRUE, !.defaults = {"skipVerify",
    "skipDecode"}, !.needed = {"transaction"}]
transactionsStatisticsMethod ==
  [Method({"interval", "limit", "offset"},
    transactionsStatisticsSource) EXCEPT !.needed = {"interval"}]
-----------------------------------------------------------------------------
\* The registered methods, by the name of their file.
methodPaths ==
  [export |-> exportMethod,
   scheduleExport |-> scheduleExportMethod,
   audios |-> audiosMethod,
   blockAssets |-> blockAssetsMethod,
   blockchainApps |-> blockchainAppsMethod,
   blockchainAppsMetaList |-> blockchainAppsMetaListMethod,
   blockchainAppsMetadata |-> blockchainAppsMetadataMethod,
   blockchainAppsStatistics |-> blockchainAppsStatisticsMethod,
   blockchainAppsTokenMetadata |-> blockchainAppsTokenMetadataMethod,
   blockchainAppsTokenSupportedMetadata |-> blockchainAppsTokenSupportedMetadataMethod,
   blocks |-> blocksMethod,
   collections |-> collectionsMethod,
   events |-> eventsMethod,
   fees |-> feesMethod,
   generators |-> generatorsMethod,
   indexStatus |-> indexStatusMethod,
   invoke |-> invokeMethod,
   market |-> marketMethod,
   auth |-> authMethod,
   rewardAnnualInflation |-> rewardAnnualInflationMethod,
   rewardConstants |-> rewardConstantsMethod,
   rewardDefault |-> rewardDefaultMethod,
   legacyAccounts |-> legacyAccountsMethod,
   posClaimableRewards |-> posClaimableRewardsMethod,
   posConstants |-> posConstantsMethod,
   posRewardsLocked |-> posRewardsLockedMethod,
   posStakers |-> posStakersMethod,
   posStakes |-> posStakesMethod,
   posUnlocks |-> posUnlocksMethod,
   posValidators |-> posValidatorsMethod,
   tokenAccountExists |-> tokenAccountExistsMethod,
   tokenBalances |-> tokenBalancesMethod,
   tokenConstants |-> tokenConstantsMethod,
   tokenSummary |-> tokenSummaryMethod,
   validator |-> validatorMethod,
   validatorValidateBLSKey |-> validatorValidateBLSKeyMethod,
   networkPeers |-> networkPeersMethod,
   networkStatistics |-> networkStatisticsMethod,
   networkStatus |-> networkStatusMethod,
   postTransactions |-> postTransactionsMethod,
   profiles |-> profilesMethod,
   schemas |-> schemasMethod,
   subscriptions |-> subscriptionsMethod,
   transactions |-> transactionsMethod,
   transactionsDryRun |-> transactionsDryRunMethod,
   transactionsStatistics |-> transactionsStatisticsMethod]
=============================================================================
