----------------------------- MODULE MCPlatform -----------------------------
(***************************************************************************)
(* The gateway and the data service, whose requests share no state.  Each  *)
(* behaviour is one of one part; the others are at their start.            *)
(***************************************************************************)
EXTENDS Gateway, Queries

CONSTANT Parts      \* to check
VARIABLE focus      \* the part

MCModules == {"auth", "dynamicReward", "legacy", "pos", "token", "validators"}

\* One request: a method by any channel, with what it needs or one of its
\* combinations, and one further parameter, which may be unknown.
Basis(m) == {m.needed} \cup m.pairings
Valuations(m, basis) ==
  {[k \in basis |-> "valid"]}
  \cup {([k \in {extra} |-> v] @@ [k \in basis |-> "valid"]) :
         extra \in m.params \cup {"unknown"}, v \in {"valid", "invalid", ""}}
  \cup {([k \in {extra} |-> "inverted"] @@ [k \in basis |-> "valid"]) :
         extra \in m.params \cap {"height", "timestamp"}}
RouteRequests ==
  UNION {UNION {{Request(channel, name, given) :
                   channel \in {"http", "rpc"}, given \in Valuations(methodPaths[name], basis)} :
                 basis \in Basis(methodPaths[name])} :
         name \in DOMAIN methodPaths}
RouteBatches == {<<r>> : r \in RouteRequests}

\* Batches of RPC requests that may share entries of the cache.
RpcRequests ==
  {Request("rpc", "blocks", [height |-> "valid"]),
   Request("rpc", "invoke", [endpoint |-> "valid"]),
   Request("rpc", "postTransactions", [transaction |-> "valid"])}
RpcBatches == {b \in UNION {[1..n -> RpcRequests] : n \in 1..3} : TRUE}

Batches ==
  IF focus = "rpc" THEN RpcBatches ELSE IF sent = 0 THEN RouteBatches ELSE {}

-----------------------------------------------------------------------------
\* Three rows; the second fork gives the second one to the other account.  The first
\* and the last one are of an account with itself.
MCOwner == [kv \in (1..3) \X (1..2) |-> IF kv[1] = 3 \/ kv = <<2, 2>> THEN "b" ELSE "a"]
MCCounterpart == [kv \in (1..3) \X (1..2) |-> IF kv[1] = 1 \/ kv = <<2, 2>> THEN "a" ELSE "b"]
MCPoolOrder == <<3, 2, 1>>

Filters == {NoRequest, [NoRequest EXCEPT !.owner = "a"], [NoRequest EXCEPT !.to = 2]}
Paged(requests) ==
  {[r EXCEPT !.offset = p[1], !.limit = p[2]] :
     r \in requests, p \in {<<0, 1>>, <<0, 2>>, <<1, 2>>}}
Of(endpoint, requests) == {[r EXCEPT !.endpoint = endpoint] : r \in requests}
Identities ==
  [address : {None, "a", "b"}, name : {None, "a", "unknown"}, publicKey : {None, "b"}]
    \ {NoIdentity}
MCQueryRequests ==
  UNION {Of(e, Paged(Filters)) :
           e \in {"collections", "profiles", "subscriptions", "blockchainApps", "audios",
                  "transactions", "pendingAndOther", "blockAssets", "events", "metaList",
                  "metadata", "blocks"}}
  \cup UNION {Of(e, Paged({NoRequest, [NoRequest EXCEPT !.owner = "a"]})) :
                e \in {"audiosOfOwner", "subscriptionsOfMember", "balances", "generators",
                       "tokens", "supportedTokens"}}
  \cup Of("blocks", Paged({[NoRequest EXCEPT !.desc = TRUE], [NoRequest EXCEPT !.id = <<2, 1>>],
                           [NoRequest EXCEPT !.height = 2],
                           [NoRequest EXCEPT !.id = <<2, 1>>, !.height = 2]}))
  \cup UNION {Of(e, Paged({[NoRequest EXCEPT !.id = <<2, 1>>, !.owner = o] : o \in {None, "a", "b"}})) :
                e \in {"transactions", "pendingAndOther"}}
  \cup UNION {Of(e, Paged({[NoRequest EXCEPT !.party = "b", !.owner = o] : o \in {None, "a"}})) :
                e \in {"transactions", "pendingAndOther", "events"}}
  \cup Of("events", Paged({[NoRequest EXCEPT !.id = <<2, 1>>, !.height = h, !.owner = o] :
                              h \in {0, 2}, o \in {None, "b"}}))
  \cup UNION {Of(e, {[NoRequest EXCEPT !.owner = "a", !.party = "b", !.height = 1, !.id = <<1, 1>>]}) :
                e \in {"audiosOfOwner", "subscriptionsOfMember"}}
  \cup Of("peers", Paged({NoRequest, [NoRequest EXCEPT !.flagged = TRUE]}))
  \cup UNION {{[NoRequest EXCEPT !.endpoint = e, !.limit = 2, !.identity = id] : id \in Identities} :
              e \in Identified}
  \cup Of("supportedTokens", {[NoRequest EXCEPT !.flagged = TRUE]})
  \cup {[NoRequest EXCEPT !.endpoint = "unlocks", !.flagged = TRUE, !.identity.address = "a"]}
-----------------------------------------------------------------------------
vars == <<focus, gatewayVars, queryVars>>

Init ==
  /\ focus \in Parts
  /\ GatewayInit
  /\ QueryInit
  /\ focus # "queries" => rows[2] = 0 /\ pool = {}
  /\ pool \in {{}, {k \in Key : rows[k] = 0}}

GatewayStep(A) == focus \in {"routes", "rpc"} /\ A /\ UNCHANGED <<focus, queryVars>>
QueriesStep(A) == focus = "queries" /\ A /\ UNCHANGED <<focus, gatewayVars>>

Next ==
  \/ GatewayStep(GatewayNext(Batches))
  \/ QueriesStep(QueryNext)

Spec == Init /\ [][Next]_vars
-----------------------------------------------------------------------------
GatewayFairness == \A i \in 1..3 : WF_vars(GatewayStep(i \in DOMAIN items /\ Serve(i)))

\* Gateway: every message is answered, as every call returns or times out.
GatewayAnswers == GatewayFairness => EveryBatchAnswered
=============================================================================
