------------------------------ MODULE Gateway ------------------------------
(***************************************************************************)
(* The gateway: a client sends one HTTP request, or a batch of JSON-RPC    *)
(* requests.  Each is looked up, validated and transformed, answered from  *)
(* the RPC cache or by a service, and transformed back.                    *)
(*                                                                         *)
(* The value of a parameter is "valid", "invalid" (no match of the         *)
(* pattern), "inverted" (a range that ends before it starts, which the     *)
(* patterns let pass) or "" (given, but empty); "default" is the           *)
(* gateway's own.  An answer is known by the request that was made of the  *)
(* service, its code, the parts it has and its age in ticks.               *)
(***************************************************************************)
EXTENDS Integers, Sequences, FiniteSets, SequencesExt, Functions, GatewayTables

CONSTANTS
  registeredModuleNames,       \* modules of the node's application
  MULTI_REQUEST_CONCURRENCY,   \* requests of a batch that are in progress
  CacheTTL,                    \* ticks that an answer stays in the RPC cache
  MaxCallTicks,                \* bound: ticks that a call of a service takes
  MaxBatches                   \* bound: batches that are sent

ASSUME GatewayAssumption ==
  /\ CacheTTL \in Nat \ {0}
  /\ MaxCallTicks \in Nat

VARIABLES
  items,        \* the requests of the batch in progress
  rpcCache,     \* answers, with the request and the ticks left
  sent          \* batches sent so far

gatewayVars == <<items, rpcCache, sent>>

NoAnswer == [code |-> 0]
Request(channel, name, given) ==
  [channel |-> channel, name |-> name, given |-> given]
-----------------------------------------------------------------------------
(* Registration and validation                                              *)

\* The methods that are registered with each channel: the common ones and those
\* of the modules that the node has.
configureHttpApi ==
  {m \in DOMAIN methodPaths : methodPaths[m].module \in registeredModuleNames \cup {"common"}}
configureRpcApi ==
  {m \in DOMAIN methodPaths :
     methodPaths[m].module \in registeredModuleNames \cup {"common"} /\ methodPaths[m].rpc}

dropEmptyProps(p) == Restrict(p, {k \in DOMAIN p : p[k] # ""})

\* Defaults, overridden by what is given; an empty number counts as not given.
parseAllParams(m, p) ==
  LET isGiven == {k \in DOMAIN p \cap m.params : ~(k \in m.numbers /\ p[k] = "")}
  IN  [k \in isGiven \cup m.defaults |-> IF k \in isGiven THEN p[k] ELSE "default"]

unknownParams(m, p) == DOMAIN p \ m.params

\* An empty parameter counts as given.
validateFromParamPairings(m, p) ==
  LET relevant == {q \in m.pairings : q \cap DOMAIN p # {}}
  IN  IF \E q \in relevant : q \subseteq DOMAIN p THEN {} ELSE m.pairings

\* fastest-validator: patterns, and parameters that are not optional.
invalidParams(m, p) ==
  {k \in DOMAIN p \cap m.params : p[k] = "invalid"} \cup (m.needed \ DOMAIN p)

validate(m, p) ==
  /\ unknownParams(m, p) = {}
  /\ validateFromParamPairings(m, p) = {}
  /\ invalidParams(m, dropEmptyProps(p)) = {}

\* Mutant of transformRequest: parameters are not renamed.
transformRequestByName(m, p) ==
  IF m.source.nested # {} THEN p ELSE Restrict(p, m.source.params \cap DOMAIN p)

\* An object in the source's parameters makes the transformation fail, and the
\* parameters are forwarded as they are.
transformRequest(m, p) ==
  LET s == m.source
      origin == [k \in s.params |-> k] @@ [k \in {r[2] : r \in s.renamed} |->
                  (CHOOSE r \in s.renamed : r[2] = k)[1]]
      arrives == {k \in DOMAIN origin : origin[k] \in DOMAIN p}
  IN  IF s.nested # {} THEN p ELSE [k \in arrives |-> p[origin[k]]]

\* Only HTTP drops empty parameters.
httpOnBeforeCall(m, p) == transformRequest(m, dropEmptyProps(parseAllParams(m, p)))
rpcOnBeforeCall(m, p) == transformRequest(m, parseAllParams(m, p))
-----------------------------------------------------------------------------
(* The service                                                              *)

Truthy(p, k) == k \in DOMAIN p /\ p[k] # ""

\* Input that the data service rejects whenever it sees it ...
normalizeRangeParam(name, p) ==
  {"Validation" : k \in {k \in DOMAIN p \cap {"height", "timestamp"} :
     name \in {"blocks", "blockAssets", "events", "transactions"} /\ p[k] = "inverted"}}

certainErrors(name, p) ==
  normalizeRangeParam(name, p)
  \cup (IF name = "transactions" /\ Truthy(p, "nonce") /\ ~Truthy(p, "senderAddress")
        THEN {"InvalidParams"} ELSE {})
  \cup (IF name = "posRewardsLocked" /\ ~\E k \in {"address", "name", "publicKey"} : Truthy(p, k)
        THEN {"InvalidParams"} ELSE {})

\* ... or may reject, or cannot serve.
possibleErrors(name, p) ==
  {"Failure"}
  \cup (IF name = "events" /\ {"blockID", "height"} \subseteq DOMAIN p THEN {"NotFound"} ELSE {})
  \cup (IF name = "transactions" /\ \E k \in {"senderAddress", "recipientAddress", "address"} :
             Truthy(p, k) THEN {"UnknownAddress"} ELSE {})
  \cup (IF name \in {"market", "scheduleExport"} THEN {"ServiceUnavailable"} ELSE {})
  \cup (IF name = "export" THEN {"NotFound"} ELSE {})
  \cup (IF name = "postTransactions" THEN {"Unreachable", "Rejected"} ELSE {})

\* What a service returns: regular data, or a status, or "throws".
Returns(name, p) ==
  LET m == methodPaths[name]
      action == m.source.action
      status(e) == LET t == {x \in action.controller.translates : x[1] = e}
                   IN  IF t = {} THEN "throws" ELSE (CHOOSE x \in t : TRUE)[2]
      errors == certainErrors(name, p)
  IN  IF ~(action.needed \subseteq DOMAIN p) THEN {"throws"}
      ELSE {status(e) : e \in errors \cup possibleErrors(name, p)}
           \cup (IF errors = {} THEN {"data"} ELSE {})
-----------------------------------------------------------------------------
(* Answers                                                                  *)

Answer(item, code, parts) ==
  [asked |-> <<item.name, item.forwarded>>, code |-> code, parts |-> parts, age |-> 0]

\* The codes of http-status-codes that the services' statuses name.
StatusCodes == [BAD_REQUEST |-> 400, NOT_FOUND |-> 404, INTERNAL_SERVER_ERROR |-> 500,
                SERVICE_UNAVAILABLE |-> 503]

\* HTTP: every status becomes an error but that of an accepted job.
httpOnAfterCall(item, returned) ==
  LET status == IF returned = "INVALID_PARAMS" THEN "BAD_REQUEST" ELSE returned
  IN  CASE returned = "data" -> Answer(item, 200, methodPaths[item.name].source.answers)
        [] returned = "throws" -> Answer(item, 500, {})
        [] OTHER -> Answer(item, StatusCodes[status], {})

\* RPC: two statuses become errors.  The others are mapped like data, of which
\* nothing is left then.
rpcOnAfterCall(item, returned) ==
  CASE returned = "data" -> Answer(item, 200, methodPaths[item.name].source.answers)
    [] returned = "throws" -> Answer(item, 500, {})
    [] returned = "INVALID_PARAMS" -> Answer(item, 400, {})
    [] returned = "SERVICE_UNAVAILABLE" -> Answer(item, 503, {})
    [] OTHER -> Answer(item, 200, {})

\* Mutant of isValidNonEmptyResponse: whatever is a success.
isSuccess(answer) == answer.code = 200

\* An answer without data is not cached, neither is an error.
isValidNonEmptyResponse(answer) == answer.code = 200 /\ "data" \in answer.parts

rpcRequestCacheKey(item) == <<item.name, item.forwarded>>
-----------------------------------------------------------------------------
(* Actions.  An item is queued, then "looking" (in the cache), "calling"    *)
(* the service, "returned", and answered.                                   *)

\* Mutant of inProgress: a request that is answered keeps its place.
everStarted(i) == items[i].phase # "queued"

inProgress(i) == items[i].phase \notin {"queued", "answered"}

\* A client's message arrives and is answered when all its requests are.
Receive(batch) ==
  /\ sent < MaxBatches
  /\ \A i \in DOMAIN items : items[i].phase = "answered"
  /\ sent' = sent + 1
  /\ items' = [i \in DOMAIN batch |->
       [channel |-> batch[i].channel, name |-> batch[i].name, given |-> batch[i].given,
        phase |-> "queued", forwarded |-> << >>, executed |-> FALSE, answer |-> NoAnswer]]
  /\ UNCHANGED rpcCache

Reject(i, code) ==
  items' = [items EXCEPT ![i].phase = "answered",
                         ![i].answer = [code |-> code, asked |-> << >>, parts |-> {}, age |-> 0]]

\* Looks up the alias, validates and transforms the request.  No more than
\* MULTI_REQUEST_CONCURRENCY requests of a batch are in progress.
onBeforeCall(i) ==
  LET m == methodPaths[items[i].name]
      p == items[i].given
      rpc == items[i].channel = "rpc"
  IN  /\ items[i].phase = "queued"
      /\ Cardinality({j \in DOMAIN items : inProgress(j)}) < MULTI_REQUEST_CONCURRENCY
      /\ IF items[i].name \notin (IF rpc THEN configureRpcApi ELSE configureHttpApi)
         THEN Reject(i, 404)
         ELSE IF ~validate(m, p) THEN Reject(i, 400)
         ELSE items' = [items EXCEPT
                ![i].forwarded = IF rpc THEN rpcOnBeforeCall(m, p) ELSE httpOnBeforeCall(m, p),
                ![i].phase = IF rpc THEN "looking" ELSE "calling"]
      /\ UNCHANGED <<rpcCache, sent>>

rpcCacheGet(i) ==
  LET hits == {e \in rpcCache : e.key = rpcRequestCacheKey(items[i])}
  IN  /\ items[i].phase = "looking"
      /\ items' = [items EXCEPT
           ![i] = IF hits = {} THEN [@ EXCEPT !.phase = "calling"]
                  ELSE [@ EXCEPT !.phase = "answered", !.answer = (CHOOSE e \in hits : TRUE).answer]]
      /\ UNCHANGED <<rpcCache, sent>>

\* ctx.call and onAfterCall, with any outcome the service may have.
call(i) ==
  /\ items[i].phase = "calling"
  /\ \E returned \in Returns(items[i].name, items[i].forwarded) :
       items' = [items EXCEPT
         ![i].executed = TRUE,
         ![i].phase = IF items[i].channel = "rpc" THEN "returned" ELSE "answered",
         ![i].answer = IF items[i].channel = "rpc" THEN rpcOnAfterCall(items[i], returned)
                       ELSE httpOnAfterCall(items[i], returned)]
  /\ UNCHANGED <<rpcCache, sent>>

rpcCacheSet(i) ==
  LET key == rpcRequestCacheKey(items[i])
  IN  /\ items[i].phase = "returned"
      /\ items' = [items EXCEPT ![i].phase = "answered"]
      /\ rpcCache' = IF isValidNonEmptyResponse(items[i].answer)
                     THEN {e \in rpcCache : e.key # key}
                          \cup {[key |-> key, answer |-> items[i].answer, left |-> CacheTTL]}
                     ELSE rpcCache
      /\ UNCHANGED sent

\* Time passes; Redis drops what has expired.
Tick ==
  /\ \A i \in DOMAIN items : items[i].phase = "returned" => items[i].answer.age < MaxCallTicks
  /\ items' = [i \in DOMAIN items |->
       IF items[i].phase = "returned" THEN [items[i] EXCEPT !.answer.age = @ + 1] ELSE items[i]]
  /\ rpcCache' = {[e EXCEPT !.left = @ - 1, !.answer.age = @ + 1] : e \in {e \in rpcCache : e.left > 1}}
  /\ UNCHANGED sent
-----------------------------------------------------------------------------
GatewayInit == items = << >> /\ rpcCache = {} /\ sent = 0

Serve(i) == onBeforeCall(i) \/ rpcCacheGet(i) \/ call(i) \/ rpcCacheSet(i)

\* Batch is the set of the sequences of requests that a client may send.
GatewayNext(Batch) ==
  \/ \E batch \in Batch : Receive(batch)
  \/ \E i \in DOMAIN items : Serve(i)
  \/ Tick
-----------------------------------------------------------------------------
Forwarded(i) == items[i].phase \in {"looking", "calling", "returned"} \/ items[i].executed

\* A value that the gateway accepts reaches the function that is called, under
\* a name that it looks at.  The validator's and the source's lists of
\* parameters are kept by hand, in files of their own.
ParamArrives(i, k) ==
  LET m == methodPaths[items[i].name]
      names == m.source.action.params \cup m.source.action.reads
      aliases == {k} \cup {r[2] : r \in {r \in m.source.renamed : r[1] = k}}
  IN  items[i].given[k] # "" =>
        \E a \in aliases \cap names :
          a \in DOMAIN items[i].forwarded /\ items[i].forwarded[a] = items[i].given[k]

\* All parameters but the topic of events arrive.
AcceptedParamsArrive ==
  \A i \in DOMAIN items : Forwarded(i) =>
    \A k \in DOMAIN items[i].given :
      <<items[i].name, k>> # <<"events", "topic">> => ParamArrives(i, k)

\* No value that fails its pattern gets past the gateway, what a service declares
\* as needed is sent, and so is one of the required combinations, unless it
\* consists of empty values.
OnlyValidatedArrives ==
  \A i \in DOMAIN items : Forwarded(i) =>
    LET m == methodPaths[items[i].name]
        f == items[i].forwarded
    IN  /\ \A k \in DOMAIN f : f[k] # "invalid"
        /\ items[i].channel = "http" => \A k \in DOMAIN f : f[k] # ""
        /\ m.source.action.needed \subseteq DOMAIN f
        /\ \/ \E k \in DOMAIN items[i].given : items[i].given[k] = ""
           \/ m.pairings = {}
           \/ \E q \in m.pairings : q \subseteq DOMAIN f

\* Input that the data service rejects is not answered with data, and over HTTP
\* it is an error.  Over RPC a rejected range is a success without data, and a
\* range of events is a failure of the server.
RejectionsShow ==
  \A i \in DOMAIN items :
    LET errors == certainErrors(items[i].name, items[i].forwarded)
    IN  items[i].executed /\ items[i].phase = "answered" /\ errors # {} =>
          /\ items[i].answer.parts = {}
          /\ items[i].channel = "http" => items[i].answer.code >= 400

\* An answer is not older than the cache's expiry and the time of a call.
RpcAnswersFresh ==
  \A i \in DOMAIN items :
    items[i].phase = "answered" => items[i].answer.age < CacheTTL + MaxCallTicks

\* Requests that do more than read: one posts a transaction, one invokes any endpoint
\* of the node, that for posting a transaction included, and one starts an export.
WithEffect == {"postTransactions", "invoke", "scheduleExport"}

\* The gateway did not look the request up, or found it invalid.
Refused(i) == items[i].answer.asked = << >>

\* A request that has an effect is handed to the service, although the cache does not
\* tell effects from queries, with one exception: over RPC, a repeated invocation or
\* export is answered with the data that an equal request was answered with, and that
\* one was handed over within the cache's expiry and the time of a call.  The answer
\* to a transaction that is posted has no data, so there it makes no exception.
EffectsExecuted ==
  \A i \in DOMAIN items :
    items[i].name \in WithEffect /\ items[i].phase = "answered" /\ ~Refused(i) =>
      \/ items[i].executed
      \/ /\ items[i].name # "postTransactions" /\ items[i].channel = "rpc"
         /\ items[i].answer.asked = <<items[i].name, items[i].forwarded>>
         /\ items[i].answer.age < CacheTTL + MaxCallTicks
         /\ items[i].answer.code = 200 /\ "data" \in items[i].answer.parts

\* Every message is answered.
EveryBatchAnswered ==
  [](items # << >> => <>(\A i \in DOMAIN items : items[i].phase = "answered"))

\* Routes: what a service gets is what the client was allowed to say, and what it
\* rejects is not passed off as data (paramValidator.js, apiUtils.js and
\* registerHttpApi.js, over all routes).
RoutesFaithful == AcceptedParamsArrive /\ OnlyValidatedArrives /\ RejectionsShow

\* RPC: an answer is recent, and the cache takes the place of a request that has an
\* effect only as long, and never that of a posted transaction (moleculer-io/index.js).
RpcFaithful == RpcAnswersFresh /\ EffectsExecuted
=============================================================================
