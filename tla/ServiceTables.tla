--------------------------- MODULE ServiceTables ---------------------------
(***************************************************************************)
(* The actions that the services register with the broker and that the     *)
(* gateway calls: the parameters that Moleculer validates, and what the    *)
(* controller makes of the exceptions of the function it calls.            *)
(***************************************************************************)

\* A controller returns what its function returns, puts the exceptions that it
\* translates into a status of a regular answer, and lets others through.
Controller(translates) == [translates |-> translates]

\* Parameters that are not declared are passed on, too: "reads" names the ones
\* that the function looks at nevertheless.
Action(params, controller) ==
  [params |-> params, needed |-> {}, reads |-> {}, controller |-> controller]
-----------------------------------------------------------------------------
getBlockchainAppsMetadataController == Controller({})
getBlockchainAppsMetaListController == Controller({})
getBlockchainAppsTokenMetadataController ==
  Controller({<<"InvalidParams", "BAD_REQUEST">>})
getBlockchainAppsTokensSupportedMetadataController == Controller({})
invokeEndpointProxyController == Controller({})
downloadTransactionHistoryController ==
  Controller({<<"ServiceUnavailable", "SERVICE_UNAVAILABLE">>, <<"NotFound",
    "NOT_FOUND">>})
scheduleTransactionHistoryExportController ==
  Controller({<<"ServiceUnavailable", "SERVICE_UNAVAILABLE">>, <<"NotFound",
    "NOT_FOUND">>})
getEstimateFeePerByteController == Controller({})
getAudiosController ==
  Controller({<<"InvalidParams", "INVALID_PARAMS">>, <<"Validation",
    "BAD_REQUEST">>})
getAuthAccountInfoController == Controller({})
getBlockchainAppsController == Controller({})
getBlockchainAppsStatisticsController == Controller({})
getBlocksController == Controller({<<"Validation", "BAD_REQUEST">>})
getBlocksAssetsController == Controller({<<"Validation", "BAD_REQUEST">>})
getCollectionsController ==
  Controller({<<"InvalidParams", "INVALID_PARAMS">>, <<"Validation",
    "BAD_REQUEST">>})
getEventsController == Controller({<<"NotFound", "NOT_FOUND">>})
getGeneratorsController == Controller({})
getIndexStatusController == Controller({})
getLegacyAccountInfoController == Controller({})
getNetworkPeersController == Controller({})
getNetworkStatisticsController == Controller({})
getNetworkStatusController == Controller({})
getPosConstantsController == Controller({})
getPosClaimableRewardsController == Controller({})
getPosLockedRewardsController ==
  Controller({<<"InvalidParams", "INVALID_PARAMS">>})
getStakersController == Controller({})
getStakesController == Controller({})
getPosUnlocksController == Controller({})
getPosValidatorsController ==
  Controller({<<"InvalidParams", "INVALID_PARAMS">>, <<"Validation",
    "BAD_REQUEST">>})
getProfilesController ==
  Controller({<<"InvalidParams", "INVALID_PARAMS">>, <<"Validation",
    "BAD_REQUEST">>})
getAnnualInflationController == Controller({})
getRewardConstantsController == Controller({})
getDefaultRewardAtHeightController == Controller({})
getSchemasController == Controller({})
getSubscriptionsController ==
  Controller({<<"InvalidParams", "INVALID_PARAMS">>, <<"Validation",
    "BAD_REQUEST">>})
tokenHasUserAccountController == Controller({})
getTokenBalancesController ==
  Controller({<<"InvalidParams", "INVALID_PARAMS">>})
getTokenConstantsController == Controller({})
getTokenSummaryController == Controller({})
getTransactionsController ==
  Controller({<<"InvalidParams", "INVALID_PARAMS">>, <<"Validation",
    "BAD_REQUEST">>, <<"UnknownAddress", "NOT_FOUND">>})
dryRunTransactionsController == Controller({})
\* The function itself turns its exceptions into a status.
postTransactions ==
  Controller({<<"Unreachable", "INTERNAL_SERVER_ERROR">>, <<"Rejected", "BAD_REQUEST">>})
validateBLSKeyController == Controller({})
getValidatorController == Controller({})
getMarketPricesController ==
  Controller({<<"ServiceUnavailable", "SERVICE_UNAVAILABLE">>})
getTransactionsStatisticsController == Controller({})
-----------------------------------------------------------------------------
appRegistryBlockchainAppsMetaAction ==
  Action({"chainID", "chainName", "isDefault", "network", "search", "limit",
    "offset", "sort"}, getBlockchainAppsMetadataController)
appRegistryBlockchainAppsMetaListAction ==
  Action({"chainName", "network", "search", "limit", "offset", "sort"},
    getBlockchainAppsMetaListController)
appRegistryBlockchainAppsMetaTokensAction ==
  Action({"chainName", "chainID", "tokenName", "tokenID", "network", "search",
    "limit", "offset", "sort"}, getBlockchainAppsTokenMetadataController)
appRegistryBlockchainAppsMetaTokensSupportedAction ==
  [Action({"chainID", "limit", "offset", "sort"},
    getBlockchainAppsTokensSupportedMetadataController) EXCEPT !.needed = {"chainID"}]
connectorInvokeEndpointAction ==
  [Action({"endpoint", "params"},
    invokeEndpointProxyController) EXCEPT !.needed = {"endpoint"}]
exportTransactionsCsvAction ==
  [Action({"filename"},
    downloadTransactionHistoryController) EXCEPT !.needed = {"filename"}]
exportTransactionsScheduleAction ==
  Action({"address", "publicKey", "interval"},
    scheduleTransactionHistoryExportController)
feesEstimatesAction == Action({}, getEstimateFeePerByteController)
indexerAudiosAction ==
  [Action({"creatorAddress", "audioID", "limit", "offset"},
    getAudiosController) EXCEPT !.reads = {"collectionID", "ownerAddress",
    "search"}]
indexerAuthAction ==
  [Action({"address"},
    getAuthAccountInfoController) EXCEPT !.needed = {"address"}]
indexerBlockchainAppsAction ==
  Action({"chainID", "name", "status", "search", "limit", "offset"},
    getBlockchainAppsController)
indexerBlockchainAppsStatisticsAction ==
  Action({}, getBlockchainAppsStatisticsController)
indexerBlocksAction ==
  Action({"blockID", "height", "generatorAddress", "timestamp", "limit",
    "offset", "sort"}, getBlocksController)
indexerBlocksAssetsAction ==
  [Action({"blockID", "height", "moduleID", "timestamp", "limit", "offset",
    "sort"}, getBlocksAssetsController) EXCEPT !.reads = {"module"}]
indexerCollectionsAction ==
  [Action({"creatorAddress", "collectionID", "limit", "offset"},
    getCollectionsController) EXCEPT !.reads = {"search"}]
indexerEventsAction ==
  Action({"transactionID", "senderAddress", "blockID", "timestamp", "height",
    "limit", "offset", "sort", "order"}, getEventsController)
indexerGeneratorsAction == Action({"limit", "offset"}, getGeneratorsController)
indexerIndexStatusAction == Action({}, getIndexStatusController)
indexerLegacyAction ==
  [Action({"publicKey"},
    getLegacyAccountInfoController) EXCEPT !.needed = {"publicKey"}]
indexerNetworkPeersAction ==
  Action({"ip", "networkVersion", "state", "height", "limit", "offset",
    "sort"}, getNetworkPeersController)
indexerNetworkStatisticsAction == Action({}, getNetworkStatisticsController)
indexerNetworkStatusAction == Action({}, getNetworkStatusController)
indexerPosConstantsAction == Action({}, getPosConstantsController)
indexerPosRewardsClaimableAction ==
  Action({"address", "publicKey", "name", "limit", "offset"},
    getPosClaimableRewardsController)
indexerPosRewardsLockedAction ==
  Action({"address", "publicKey", "name", "limit", "offset"},
    getPosLockedRewardsController)
indexerPosStakersAction ==
  Action({"address", "publicKey", "name", "search", "limit", "offset"},
    getStakersController)
indexerPosStakesAction ==
  Action({"address", "publicKey", "name", "search"}, getStakesController)
indexerPosUnlocksAction ==
  Action({"address", "name", "publicKey", "isLocked", "limit", "offset"},
    getPosUnlocksController)
indexerPosValidatorsAction ==
  Action({"address", "publicKey", "name", "status", "search", "limit",
    "offset", "sort"}, getPosValidatorsController)
indexerProfilesAction ==
  [Action({"creatorAddress", "profileID", "limit", "offset"},
    getProfilesController) EXCEPT !.reads = {"search"}]
indexerRewardAnnualInflationAction ==
  [Action({"height"},
    getAnnualInflationController) EXCEPT !.needed = {"height"}]
indexerRewardConstantsAction == Action({}, getRewardConstantsController)
indexerRewardDefaultAction ==
  [Action({"height"},
    getDefaultRewardAtHeightController) EXCEPT !.needed = {"height"}]
indexerSchemasAction == Action({}, getSchemasController)
indexerSubscriptionsAction ==
  Action({"creatorAddress", "subscriptionID", "limit", "offset",
    "memberAddress"}, getSubscriptionsController)
indexerTokenAccountExistsAction ==
  [Action({"address", "publicKey", "name", "tokenID"},
    tokenHasUserAccountController) EXCEPT !.needed = {"tokenID"}]
indexerTokenBalancesAction ==
  [Action({"address", "tokenID", "limit", "offset"},
    getTokenBalancesController) EXCEPT !.needed = {"address"}]
indexerTokenConstantsAction == Action({}, getTokenConstantsController)
indexerTokenSummaryAction ==
  Action({"limit", "offset"}, getTokenSummaryController)
indexerTransactionsAction ==
  [Action({"transactionID", "moduleCommand", "address", "senderAddress",
    "recipientAddress", "timestamp", "nonce", "blockID", "height", "search",
    "limit", "offset", "executionStatus", "sort", "order"},
    getTransactionsController) EXCEPT !.reads = {"id"}]
indexerTransactionsDryrunAction ==
  [Action({"transaction", "skipVerify", "skipDecode"},
    dryRunTransactionsController) EXCEPT !.needed = {"transaction"}]
indexerTransactionsPostAction ==
  [Action({"transaction"},
    postTransactions) EXCEPT !.needed = {"transaction"}]
indexerValidateBLSKeyAction ==
  [Action({"blsKey", "proofOfPossession"},
    validateBLSKeyController) EXCEPT !.needed = {"blsKey",
    "proofOfPossession"}]
indexerValidatorAction ==
  [Action({"address"}, getValidatorController) EXCEPT !.needed = {"address"}]
marketPricesAction == Action({}, getMarketPricesController)
statisticsTransactionsStatisticsAction ==
  [Action({"interval", "limit", "offset"},
    getTransactionsStatisticsController) EXCEPT !.needed = {"interval"}]
=============================================================================
