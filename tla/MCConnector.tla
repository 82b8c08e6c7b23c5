---------------------------- MODULE MCConnector ----------------------------
(***************************************************************************)
(* The connector's client, endpoints, lists of blocks and peers and        *)
(* genesis file, and the fee estimator, which share no state.  Each        *)
(* behaviour is one of one part; the others are at their start.            *)
(***************************************************************************)
EXTENDS ApiClient, NodeEndpoints, GenesisFile, FeeEstimator

CONSTANT Parts      \* to check
VARIABLE focus      \* the part

\* Calls that share a variable may overlap.
Overlapping == {getNodeInfo, getMainchainID}

vars == <<focus, clientVars, nodeVars, genesisVars, feeVars>>

Init ==
  /\ focus \in Parts
  /\ ClientInit
  /\ NodeInit
  /\ GenesisInit
  /\ focus # "genesis" => hosted = "none" /\ isMetadataSet
  /\ FeeInit

ClientStep(A) == focus = "client" /\ A /\ UNCHANGED <<focus, nodeVars, genesisVars, feeVars>>
NodeStep(part, A) ==
  focus = part /\ A /\ UNCHANGED <<focus, clientVars, genesisVars, feeVars>>
GenesisStep(A) == focus = "genesis" /\ A /\ UNCHANGED <<focus, clientVars, nodeVars, feeVars>>
FeeStep(A) == focus = "fees" /\ A /\ UNCHANGED <<focus, clientVars, nodeVars, genesisVars>>

Next ==
  \/ ClientStep(ClientNext)
  \/ NodeStep("endpoints", CallsNext(nodeEndpoints))
  \/ NodeStep("events", CallsNext(Overlapping) \/ EventsNext)
  \/ NodeStep("blocks", AskBlocks)
  \/ NodeStep("peers", PeersNext)
  \/ GenesisStep(GenesisNext)
  \/ FeeStep(FeeNext)

Spec == Init /\ [][Next]_vars
-----------------------------------------------------------------------------
\* The event loop gets on with the callers, the intervals and the attempts to
\* connect, not necessarily with each of them, and time passes.
CallersFairness ==
  /\ WF_vars(ClientStep(\E c \in Caller : Call(c)))
  /\ WF_vars(ClientStep(\E w \in Wait : Poll(w)))
  /\ WF_vars(ClientStep(\E a \in Attempt : Connection(a)))
  /\ WF_vars(ClientStep(TimePasses))

\* Every awaited request settles.
FeeFairness == \A r \in RunId : WF_vars(FeeStep(RunStep(r)))

\* Downloads, files and the node's answers arrive.
GenesisFairness ==
  /\ \A l \in Loader : WF_vars(GenesisStep(LoaderStep(l)))
  /\ WF_vars(GenesisStep(EndOfFile))

\* The client: whoever asks for it gets it, over failed attempts and starting over,
\* unless the first call finds somebody connecting (client.js, waitForIt.js).
CallersServed == CallersFairness => ServedUnlessTurnedAway

\* The client: while any interval runs, a lost connection is made again
\* (client.js, waitForIt.js).
ClientReconnects == CallersFairness => ReconnectsWhilePolled

\* Blocks are those asked for, in their order, and a call for the genesis block is
\* answered as long as no two overlap, the metadata is there in time and the
\* service was not interrupted (endpoints.js, genesisBlock.js).
BlocksServed == []BlocksAsAsked /\ (GenesisFairness => LoneLoadersAnswered)

\* Fee estimator: each block is reflected, at some time after it arrived, in the
\* estimate of each mode, unless a request fails.
FeesFollow == FeeFairness => BlocksGetEstimated

\* Caches of the connector: checked answers are no errors, the lists of peers
\* belong together, and the genesis block was verified (endpoints_1.js,
\* peerCache.js, genesisBlock.js).
CachesSound == CheckedCachesSound /\ PeerCacheConsistent /\ GenesisVerified
=============================================================================
