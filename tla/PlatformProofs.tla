--------------------------- MODULE PlatformProofs ---------------------------
(***************************************************************************)
(* The requests of the platform's clients. The gateway's answers over RPC, *)
(* for every expiry of the cache, length of a call, number of batches and  *)
(* choice of the registered modules; and the data service's answers from   *)
(* the index and the node, for every length of the chain, number of lists, *)
(* limit of a page and set of requests.                                    *)
(***************************************************************************)
EXTENDS MCPlatform, OperatorProofs, TLAPS

-----------------------------------------------------------------------------
(* The gateway                                                              *)
AnswerFields == {"asked", "code", "parts", "age"}
ItemFields == {"channel", "name", "given", "phase", "forwarded", "executed", "answer"}

\* What a service has returned for an item: to its very request, and no data when a
\* transaction is posted.
ReturnedSound(item) ==
  /\ DOMAIN item.answer = AnswerFields
  /\ item.answer.asked = rpcRequestCacheKey(item)
  /\ item.answer.age \in 0..MaxCallTicks
  /\ item.executed
  /\ item.name = "postTransactions" => "data" \notin item.answer.parts

\* The request is one that the cache may answer, with what it keeps.
FromCache(item) ==
  /\ item.channel = "rpc" /\ item.name # "postTransactions"
  /\ isValidNonEmptyResponse(item.answer)

\* What a request was answered with.
AnsweredSound(item) ==
  /\ item.answer.asked # << >> => item.answer.asked = rpcRequestCacheKey(item)
  /\ item.answer.age \in Nat
  /\ item.answer.age < CacheTTL + MaxCallTicks
  /\ item.executed \/ item.answer.asked = << >> \/ FromCache(item)

ItemSound(item) ==
  /\ DOMAIN item = ItemFields
  /\ item.phase = "looking" => item.channel = "rpc"
  /\ item.phase = "returned" => ReturnedSound(item)
  /\ item.phase = "answered" => AnsweredSound(item)

\* What is cached is kept under the request it answers, is no posted transaction's
\* answer, and expires in time.
EntrySound(e) ==
  /\ DOMAIN e = {"key", "answer", "left"}
  /\ DOMAIN e.answer = AnswerFields
  /\ e.answer.asked = e.key
  /\ e.key[1] # "postTransactions"
  /\ isValidNonEmptyResponse(e.answer)
  /\ e.left \in 1..CacheTTL
  /\ e.answer.age \in Nat
  /\ e.answer.age + e.left <= CacheTTL + MaxCallTicks

\* The inductive invariant.  What is answered from the cache was put there by some
\* other request, so the cache's entries have to be sound as well.
RpcInv ==
  /\ \A i \in DOMAIN items : ItemSound(items[i])
  /\ \A e \in rpcCache : EntrySound(e)
-----------------------------------------------------------------------------
\* A step that changes one request keeps the others sound.
LEMMA OneItemChanges ==
  ASSUME RpcInv, NEW i \in DOMAIN items, NEW item, ItemSound(item),
         items' = [items EXCEPT ![i] = item],
         \A e \in rpcCache' : EntrySound(e)
  PROVE  RpcInv'
<1>1. \A j \in DOMAIN items' : j \in DOMAIN items /\ items'[j] \in {items[j], item}
  OBVIOUS
<1>2. \A j \in DOMAIN items' : ItemSound(items'[j])
  BY <1>1 DEF RpcInv
<1> QED
  BY <1>2 DEF RpcInv, ItemSound, ReturnedSound, AnsweredSound, EntrySound, rpcRequestCacheKey,
     FromCache, isValidNonEmptyResponse

\* Posting a transaction returns a message, and no "data".
LEMMA PostReturnsNoData == "data" \notin methodPaths["postTransactions"].source.answers
<1>1. methodPaths["postTransactions"] = postTransactionsMethod
  BY DEF methodPaths
<1>2. postTransactionsMethod.source.answers = {"message", "transactionID"}
  BY DEF postTransactionsMethod, postTransactionsSource, Method, Source
<1> QED
  BY <1>1, <1>2

\* Whatever a service returns becomes an answer to the item's own request.
LEMMA AnswersOwnRequest ==
  ASSUME NEW item, NEW returned,
         NEW answer \in {httpOnAfterCall(item, returned), rpcOnAfterCall(item, returned)}
  PROVE  /\ DOMAIN answer = AnswerFields
         /\ answer.asked = rpcRequestCacheKey(item)
         /\ answer.age = 0
         /\ item.name = "postTransactions" => "data" \notin answer.parts
<1>1. ASSUME NEW code, NEW parts
      PROVE  /\ DOMAIN Answer(item, code, parts) = AnswerFields
             /\ Answer(item, code, parts).asked = rpcRequestCacheKey(item)
             /\ Answer(item, code, parts).age = 0
             /\ Answer(item, code, parts).parts = parts
  BY DEF Answer, AnswerFields, rpcRequestCacheKey
<1>2. \E code, parts : /\ answer = Answer(item, code, parts)
                       /\ parts = {} \/ parts = methodPaths[item.name].source.answers
  <2> DEFINE answers == methodPaths[item.name].source.answers
             status == IF returned = "INVALID_PARAMS" THEN "BAD_REQUEST" ELSE returned
             known == StatusCodes[status]
  <2>1. CASE answer = rpcOnAfterCall(item, returned)
    <3> HIDE DEF answers
    <3>1. answer \in {Answer(item, 200, answers), Answer(item, 500, {}), Answer(item, 400, {}),
                     Answer(item, 503, {}), Answer(item, 200, {})}
      BY <2>1 DEF rpcOnAfterCall, answers
    <3> QED
      BY <3>1, ZenonT(60) DEF answers
  <2>2. CASE answer = httpOnAfterCall(item, returned)
    <3> HIDE DEF answers, known
    <3>1. answer \in {Answer(item, 200, answers), Answer(item, 500, {}), Answer(item, known, {})}
      BY <2>2 DEF httpOnAfterCall, answers, known
    <3> QED
      BY <3>1, ZenonT(60) DEF answers
  <2> QED
    BY <2>1, <2>2
<1> QED
  BY <1>1, <1>2, PostReturnsNoData
-----------------------------------------------------------------------------
LEMMA ReceiveKeepsInv ==
  ASSUME RpcInv, NEW batch, Receive(batch)
  PROVE  RpcInv'
<1>1. ASSUME NEW i \in DOMAIN items'
      PROVE  ItemSound(items'[i])
  BY DEF Receive, ItemSound, ItemFields
<1>2. \A e \in rpcCache' : EntrySound(e)
  BY DEF Receive, RpcInv
<1> QED
  BY <1>1, <1>2 DEF RpcInv, ItemSound, ReturnedSound, AnsweredSound, EntrySound, rpcRequestCacheKey,
     FromCache, isValidNonEmptyResponse

LEMMA BeforeCallKeepsInv ==
  ASSUME RpcInv, NEW i \in DOMAIN items, onBeforeCall(i)
  PROVE  RpcInv'
<1>1. DOMAIN items[i] = ItemFields /\ \A e \in rpcCache' : EntrySound(e)
  BY DEF RpcInv, ItemSound, onBeforeCall
<1>2. ASSUME NEW code \in {400, 404}, Reject(i, code)
      PROVE  RpcInv'
  <2> DEFINE answer == [code |-> code, asked |-> << >>, parts |-> {}, age |-> 0]
             item == [items[i] EXCEPT !.phase = "answered", !.answer = answer]
  <2>1. items' = [items EXCEPT ![i] = item]
    BY <1>2 DEF Reject
  <2>2. DOMAIN item = ItemFields /\ item.phase = "answered" /\ item.answer = answer
    BY <1>1 DEF ItemFields
  <2> HIDE DEF item
  <2>3. ItemSound(item)
    BY <2>2, GatewayAssumption DEF ItemSound, AnsweredSound
  <2> QED
    BY <1>1, <2>1, <2>3, OneItemChanges
<1>3. ASSUME NEW forwarded, NEW phase \in {"looking", "calling"},
             phase = "looking" => items[i].channel = "rpc",
             items' = [items EXCEPT ![i].forwarded = forwarded, ![i].phase = phase]
      PROVE  RpcInv'
  <2> DEFINE item == [items[i] EXCEPT !.forwarded = forwarded, !.phase = phase]
  <2>1. items' = [items EXCEPT ![i] = item]
    BY <1>3
  <2>2. DOMAIN item = ItemFields /\ item.phase = phase /\ item.channel = items[i].channel
    BY <1>1 DEF ItemFields
  <2> HIDE DEF item
  <2>3. ItemSound(item)
    BY <1>3, <2>2 DEF ItemSound
  <2> QED
    BY <1>1, <2>1, <2>3, OneItemChanges
<1> QED
  BY <1>2, <1>3, Zenon DEF onBeforeCall

LEMMA CacheGetKeepsInv ==
  ASSUME RpcInv, NEW i \in DOMAIN items, rpcCacheGet(i)
  PROVE  RpcInv'
<1> DEFINE hits == {e \in rpcCache : e.key = rpcRequestCacheKey(items[i])}
<1>1. DOMAIN items[i] = ItemFields /\ \A e \in rpcCache' : EntrySound(e)
  BY DEF RpcInv, ItemSound, rpcCacheGet
<1>2. CASE hits = {}
  <2> DEFINE item == [items[i] EXCEPT !.phase = "calling"]
  <2>1. items' = [items EXCEPT ![i] = item]
    BY <1>2 DEF rpcCacheGet
  <2>2. DOMAIN item = ItemFields /\ item.phase = "calling"
    BY <1>1 DEF ItemFields
  <2> HIDE DEF item
  <2>3. ItemSound(item)
    BY <2>2 DEF ItemSound
  <2> QED
    BY <1>1, <2>1, <2>3, OneItemChanges
<1>3. CASE hits # {}
  <2> DEFINE hit == CHOOSE e \in hits : TRUE
             item == [items[i] EXCEPT !.phase = "answered", !.answer = hit.answer]
  <2>1. items' = [items EXCEPT ![i] = item]
    BY <1>3 DEF rpcCacheGet
  <2>2. hit \in hits
    BY <1>3
  <2> HIDE DEF hit
  <2>3. EntrySound(hit) /\ hit.key = rpcRequestCacheKey(items[i])
    BY <2>2 DEF RpcInv
  <2>4. /\ DOMAIN item = ItemFields
        /\ item.phase = "answered"
        /\ item.answer = hit.answer
        /\ item.name = items[i].name
        /\ item.forwarded = items[i].forwarded
        /\ item.channel = items[i].channel
    BY <1>1 DEF ItemFields
  <2> HIDE DEF item
  <2>5. hit.answer.asked = rpcRequestCacheKey(item) /\ item.name # "postTransactions"
    BY <2>3, <2>4 DEF EntrySound, rpcRequestCacheKey
  <2>6. hit.answer.age \in Nat /\ hit.answer.age < CacheTTL + MaxCallTicks
    BY <2>3, GatewayAssumption DEF EntrySound
  <2>7. FromCache(item)
    <3>1. item.channel = "rpc"
      BY <2>4 DEF rpcCacheGet, RpcInv, ItemSound
    <3> QED
      BY <2>3, <2>4, <2>5, <3>1 DEF EntrySound, FromCache
  <2>8. ItemSound(item)
    BY <2>4, <2>5, <2>6, <2>7 DEF ItemSound, AnsweredSound
  <2> QED
    BY <1>1, <2>1, <2>8, OneItemChanges
<1> QED
  BY <1>2, <1>3

LEMMA CallKeepsInv ==
  ASSUME RpcInv, NEW i \in DOMAIN items, call(i)
  PROVE  RpcInv'
<1>1. DOMAIN items[i] = ItemFields /\ \A e \in rpcCache' : EntrySound(e)
  BY DEF RpcInv, ItemSound, call
<1>2. PICK returned :
        items' = [items EXCEPT
          ![i].executed = TRUE,
          ![i].phase = IF items[i].channel = "rpc" THEN "returned" ELSE "answered",
          ![i].answer = IF items[i].channel = "rpc" THEN rpcOnAfterCall(items[i], returned)
                        ELSE httpOnAfterCall(items[i], returned)]
  BY DEF call
<1> DEFINE answer == IF items[i].channel = "rpc" THEN rpcOnAfterCall(items[i], returned)
                     ELSE httpOnAfterCall(items[i], returned)
           phase == IF items[i].channel = "rpc" THEN "returned" ELSE "answered"
           item == [items[i] EXCEPT !.executed = TRUE, !.phase = phase, !.answer = answer]
<1>3. /\ DOMAIN answer = AnswerFields
      /\ answer.asked = rpcRequestCacheKey(items[i])
      /\ answer.age = 0
      /\ items[i].name = "postTransactions" => "data" \notin answer.parts
  <2>1. answer \in {httpOnAfterCall(items[i], returned), rpcOnAfterCall(items[i], returned)}
    OBVIOUS
  <2> HIDE DEF answer
  <2> QED
    BY <2>1, AnswersOwnRequest
<1>4. items' = [items EXCEPT ![i] = item]
  BY <1>2
<1>5. phase \in {"returned", "answered"}
  OBVIOUS
<1> HIDE DEF answer, phase
<1>6. /\ DOMAIN item = ItemFields
      /\ item.phase = phase
      /\ item.answer = answer
      /\ item.executed = TRUE
      /\ item.name = items[i].name
      /\ item.forwarded = items[i].forwarded
  BY <1>1 DEF ItemFields
<1> HIDE DEF item
<1>7. answer.asked = rpcRequestCacheKey(item)
  BY <1>3, <1>6 DEF rpcRequestCacheKey
<1>8. ReturnedSound(item)
  <2>1. item.executed
    BY <1>6
  <2> QED
    BY <1>3, <1>6, <1>7, <2>1, GatewayAssumption DEF ReturnedSound
<1>9. AnsweredSound(item)
  <2>1. item.executed
    BY <1>6
  <2>2. item.answer.age \in Nat /\ item.answer.age < CacheTTL + MaxCallTicks
    BY <1>3, <1>6, GatewayAssumption
  <2> QED
    BY <1>6, <1>7, <2>1, <2>2, Zenon DEF AnsweredSound
<1>10. ItemSound(item)
  BY <1>5, <1>6, <1>8, <1>9 DEF ItemSound
<1> QED
  BY <1>1, <1>4, <1>10, OneItemChanges

\* What is put into the cache has just come from the service.
LEMMA CacheSetKeepsInv ==
  ASSUME RpcInv, NEW i \in DOMAIN items, rpcCacheSet(i)
  PROVE  RpcInv'
<1> DEFINE key == rpcRequestCacheKey(items[i])
           entry == [key |-> key, answer |-> items[i].answer, left |-> CacheTTL]
           item == [items[i] EXCEPT !.phase = "answered"]
<1>1. DOMAIN items[i] = ItemFields /\ ReturnedSound(items[i])
  BY DEF RpcInv, ItemSound, rpcCacheSet
<1>2. items[i].answer.age \in 0..MaxCallTicks /\ DOMAIN items[i].answer = AnswerFields
      /\ items[i].answer.asked = key
  BY <1>1 DEF ReturnedSound
<1>3. items' = [items EXCEPT ![i] = item]
  BY DEF rpcCacheSet
<1>4. ASSUME isValidNonEmptyResponse(items[i].answer)
      PROVE  EntrySound(entry)
  <2>1. items[i].name # "postTransactions"
    BY <1>1, <1>4 DEF ReturnedSound, isValidNonEmptyResponse
  <2>2. key[1] # "postTransactions"
    BY <2>1 DEF rpcRequestCacheKey
  <2> HIDE DEF key
  <2> QED
    BY <1>2, <1>4, <2>2, GatewayAssumption DEF EntrySound
<1>5. \A e \in rpcCache' : EntrySound(e)
  <2>1. \A e \in rpcCache' : e \in rpcCache \/ (e = entry /\ isValidNonEmptyResponse(items[i].answer))
    BY DEF rpcCacheSet
  <2> QED
    BY <1>4, <2>1 DEF RpcInv
<1>6. /\ DOMAIN item = ItemFields
      /\ item.phase = "answered"
      /\ item.answer = items[i].answer
      /\ item.executed = items[i].executed
      /\ item.name = items[i].name
      /\ item.forwarded = items[i].forwarded
  BY <1>1 DEF ItemFields
<1> HIDE DEF item
<1>7. AnsweredSound(item)
  <2>1. item.executed
    BY <1>1, <1>6, Zenon DEF ReturnedSound
  <2>2. item.answer.age \in Nat /\ item.answer.age < CacheTTL + MaxCallTicks
    BY <1>2, <1>6, GatewayAssumption
  <2>3. item.answer.asked = rpcRequestCacheKey(item)
    BY <1>2, <1>6 DEF rpcRequestCacheKey
  <2> QED
    BY <2>1, <2>2, <2>3, Zenon DEF AnsweredSound
<1>8. ItemSound(item)
  BY <1>6, <1>7 DEF ItemSound
<1> QED
  BY <1>3, <1>5, <1>8, OneItemChanges

\* Answers age, and so do the cache's entries, whose time runs down.
LEMMA TickKeepsInv ==
  ASSUME RpcInv, Tick
  PROVE  RpcInv'
<1>1. ASSUME NEW i \in DOMAIN items'
      PROVE  ItemSound(items'[i])
  <2>1. i \in DOMAIN items /\ ItemSound(items[i])
    BY DEF Tick, RpcInv
  <2>2. CASE items[i].phase # "returned"
    <3>1. items'[i] = items[i]
      BY <2>1, <2>2 DEF Tick
    <3> QED
      BY <2>1, <3>1
  <2>3. CASE items[i].phase = "returned"
    <3> DEFINE answer == [items[i].answer EXCEPT !.age = @ + 1]
               item == [items[i] EXCEPT !.answer = answer]
    <3>1. items'[i] = item
      BY <2>1, <2>3 DEF Tick
    <3>2. items[i].answer.age < MaxCallTicks /\ ReturnedSound(items[i]) /\ DOMAIN items[i] = ItemFields
      BY <2>1, <2>3 DEF Tick, ItemSound
    <3>3. /\ DOMAIN answer = AnswerFields
          /\ answer.asked = items[i].answer.asked
          /\ answer.parts = items[i].answer.parts
          /\ answer.age = items[i].answer.age + 1
      BY <3>2 DEF ReturnedSound, AnswerFields
    <3> HIDE DEF answer
    <3>4. /\ DOMAIN item = ItemFields
          /\ item.phase = "returned"
          /\ item.answer = answer
          /\ item.executed = items[i].executed
          /\ item.name = items[i].name
          /\ item.forwarded = items[i].forwarded
      BY <2>3, <3>2 DEF ItemFields
    <3> HIDE DEF item
    <3>5. item.answer.age \in 0..MaxCallTicks
      BY <3>2, <3>3, <3>4, GatewayAssumption DEF ReturnedSound
    <3>6. item.executed
      BY <3>2, <3>4, Zenon DEF ReturnedSound
    <3>7. item.answer.asked = rpcRequestCacheKey(item)
      BY <3>2, <3>3, <3>4 DEF ReturnedSound, rpcRequestCacheKey
    <3>8. item.name = "postTransactions" => "data" \notin item.answer.parts
      BY <3>2, <3>3, <3>4 DEF ReturnedSound
    <3>9. ReturnedSound(item)
      BY <3>3, <3>4, <3>5, <3>6, <3>7, <3>8, Zenon DEF ReturnedSound
    <3> QED
      BY <3>1, <3>4, <3>9 DEF ItemSound
  <2> QED
    BY <2>2, <2>3
<1>2. ASSUME NEW e \in rpcCache'
      PROVE  EntrySound(e)
  <2>1. PICK d \in rpcCache : d.left > 1 /\ e = [d EXCEPT !.left = @ - 1, !.answer.age = @ + 1]
    BY DEF Tick
  <2>2. EntrySound(d)
    BY DEF RpcInv
  <2> DEFINE answer == [d.answer EXCEPT !.age = @ + 1]
  <2>3. e = [d EXCEPT !.left = d.left - 1, !.answer = answer]
    BY <2>1, <2>2 DEF EntrySound
  <2>4. /\ DOMAIN answer = AnswerFields
        /\ answer.asked = d.answer.asked
        /\ answer.age = d.answer.age + 1
        /\ answer.code = d.answer.code /\ answer.parts = d.answer.parts
    BY <2>2 DEF EntrySound, AnswerFields
  <2> HIDE DEF answer
  <2>5. DOMAIN e = {"key", "answer", "left"} /\ e.key = d.key /\ e.answer = answer /\ e.left = d.left - 1
    BY <2>2, <2>3 DEF EntrySound
  <2> QED
    BY <2>1, <2>2, <2>4, <2>5, GatewayAssumption DEF EntrySound, isValidNonEmptyResponse
<1> QED
  BY <1>1, <1>2 DEF RpcInv, ItemSound, ReturnedSound, AnsweredSound, EntrySound, rpcRequestCacheKey,
     FromCache, isValidNonEmptyResponse
-----------------------------------------------------------------------------
\* RpcInv is inductive.
LEMMA RpcInvariant == Spec => []RpcInv
<1>1. Init => RpcInv
  BY DEF Init, GatewayInit, RpcInv
<1>2. RpcInv /\ [Next]_vars => RpcInv'
  <2> SUFFICES ASSUME RpcInv, [Next]_vars
               PROVE  RpcInv'
    OBVIOUS
  <2>1. CASE UNCHANGED gatewayVars
    BY <2>1 DEF gatewayVars, RpcInv, ItemSound, ReturnedSound, AnsweredSound, EntrySound,
       rpcRequestCacheKey, FromCache, isValidNonEmptyResponse
  <2>2. CASE GatewayNext(Batches)
    BY <2>2, ReceiveKeepsInv, BeforeCallKeepsInv, CacheGetKeepsInv, CallKeepsInv, CacheSetKeepsInv,
       TickKeepsInv DEF GatewayNext, Serve
  <2> QED
    BY <2>1, <2>2, Zenon DEF Next, vars, GatewayStep, QueriesStep
<1> QED
  BY <1>1, <1>2, PTL DEF Spec

\* A request that has an effect is handed to the service; only over RPC, and never to
\* post a transaction, the cache may answer it, with what an equal request was answered
\* with, for no longer than the expiry and the time of a call, which is the age that no
\* answer exceeds (moleculer-io/index.js).
THEOREM RpcIsFaithful == Spec => []RpcFaithful
<1>1. RpcInv => RpcFaithful
  BY DEF RpcInv, ItemSound, AnsweredSound, FromCache, RpcFaithful, RpcAnswersFresh,
         EffectsExecuted, Refused, isValidNonEmptyResponse, rpcRequestCacheKey
<1> QED
  BY <1>1, RpcInvariant, PTL

-----------------------------------------------------------------------------
(* Sequences and ordered sets                                               *)

\* The elements of a set of numbers in order are these, each of them, in order.
LEMMA InOrder ==
  ASSUME NEW S \in SUBSET Int, IsFiniteSet(S), NEW desc \in BOOLEAN
  PROVE  /\ inOrder(S, desc) \in Seq(S)
         /\ Len(inOrder(S, desc)) = Cardinality(S)
         /\ \A k \in S : \E i \in DOMAIN inOrder(S, desc) : inOrder(S, desc)[i] = k
         /\ \A i, j \in DOMAIN inOrder(S, desc) : i < j =>
              IF desc THEN inOrder(S, desc)[j] < inOrder(S, desc)[i]
              ELSE inOrder(S, desc)[i] < inOrder(S, desc)[j]
<1> DEFINE n == Cardinality(S)
           below(k) == {j \in S : IF desc THEN j > k ELSE j < k}
           before == [k \in S |-> below(k)]
           s == inOrder(S, desc)
<1>1. n \in Nat
  BY FS_CardinalityType
<1>2. /\ before \in [S -> SUBSET S]
      /\ \A k \in S : before[k] = below(k)
  OBVIOUS
<1>3. \A k \in S : k \notin before[k]
  OBVIOUS
<1>4. \A k, l \in S : (IF desc THEN l < k ELSE k < l) => before[k] \cup {k} \subseteq before[l]
  <2> SUFFICES ASSUME NEW k \in S, NEW l \in S, IF desc THEN l < k ELSE k < l,
                      NEW j \in before[k] \cup {k}
               PROVE  j \in before[l]
    OBVIOUS
  <2>1. j \in S /\ j \in Int /\ k \in Int /\ l \in Int
    OBVIOUS
  <2>2. CASE desc = TRUE
    BY <1>2, <2>1, <2>2
  <2>3. CASE desc = FALSE
    BY <1>2, <2>1, <2>3
  <2> QED
    BY <2>2, <2>3
<1>5. \A k, l \in S : k # l => before[k] \cup {k} \subseteq before[l]
                               \/ before[l] \cup {l} \subseteq before[k]
  <2>1. \A k, l \in S : k # l => k < l \/ l < k
    OBVIOUS
  <2> QED
    BY <1>4, <2>1
<1>6. s = [i \in 1..n |-> CHOOSE k \in S : Cardinality(before[k]) = i - 1]
  <2>1. \A i : (CHOOSE k \in S : Cardinality(below(k)) = i - 1)
               = (CHOOSE k \in S : Cardinality(before[k]) = i - 1)
    BY <1>2, Zenon
  <2> HIDE DEF before
  <2>2. s = [i \in 1..n |-> CHOOSE k \in S : Cardinality(below(k)) = i - 1]
    BY Zenon DEF inOrder
  <2> QED
    BY <2>1, <2>2
<1> HIDE DEF before, below
<1>7. /\ \A i \in 1..n : \E k \in S : Cardinality(before[k]) = i - 1
      /\ \A k \in S : Cardinality(before[k]) \in 0..n - 1
      /\ \A k, l \in S : before[k] \cup {k} \subseteq before[l]
                         => Cardinality(before[k]) < Cardinality(before[l])
  BY <1>2, <1>3, <1>5, EveryRankTaken
<1> HIDE DEF s, n
<1>8. \A i \in 1..n : s[i] \in S /\ Cardinality(before[s[i]]) = i - 1
  BY <1>6, <1>7
<1>9. s \in Seq(S) /\ Len(s) = n /\ DOMAIN s = 1..n
  BY <1>1, <1>6, <1>8
<1>10. ASSUME NEW k \in S, NEW l \in S, Cardinality(before[k]) = Cardinality(before[l])
       PROVE  k = l
  BY <1>1, <1>5, <1>7, <1>10
<1>11. ASSUME NEW k \in S
       PROVE  \E i \in DOMAIN s : s[i] = k
  <2> DEFINE i == Cardinality(before[k]) + 1
  <2>1. i \in 1..n /\ i - 1 = Cardinality(before[k])
    BY <1>1, <1>7
  <2> QED
    BY <1>8, <1>9, <1>10, <2>1
<1>12. ASSUME NEW i \in DOMAIN s, NEW j \in DOMAIN s, i < j
       PROVE  IF desc THEN s[j] < s[i] ELSE s[i] < s[j]
  <2>1. s[i] \in S /\ s[j] \in S /\ Cardinality(before[s[i]]) < Cardinality(before[s[j]])
    BY <1>8, <1>9, <1>12
  <2>2. Cardinality(before[s[i]]) \in Nat /\ Cardinality(before[s[j]]) \in Nat
    <3>1. Cardinality(before[s[i]]) \in 0..n - 1 /\ Cardinality(before[s[j]]) \in 0..n - 1
      BY <1>7, <2>1, Zenon
    <3> QED
      BY <1>1, <3>1
  <2>3. s[i] \in Int /\ s[j] \in Int /\ s[i] # s[j]
    <3>1. s[i] # s[j]
      <4>1. SUFFICES ASSUME s[i] = s[j] PROVE FALSE
        OBVIOUS
      <4>2. Cardinality(before[s[i]]) = Cardinality(before[s[j]])
        BY <4>1
      <4> QED
        BY <2>1, <2>2, <4>2
    <3> QED
      BY <2>1, <3>1
  <2>4. ~(before[s[j]] \cup {s[j]} \subseteq before[s[i]])
    <3>1. ~(Cardinality(before[s[j]]) < Cardinality(before[s[i]]))
      BY <2>1, <2>2
    <3> QED
      BY <1>7, <2>1, <3>1
  <2>5. s[i] < s[j] \/ s[j] < s[i]
    BY <2>3
  <2>6. CASE desc = TRUE
    BY <1>4, <2>1, <2>4, <2>5, <2>6
  <2>7. CASE desc = FALSE
    BY <1>4, <2>1, <2>4, <2>5, <2>7
  <2> QED
    BY <2>6, <2>7
<1> QED
  BY <1>9, <1>11, <1>12 DEF s, n

LEMMA MaxOfSet ==
  ASSUME NEW S \in SUBSET Int, IsFiniteSet(S), S # {}
  PROVE  Max(S) \in S /\ \A x \in S : x <= Max(S)
<1> DEFINE s == inOrder(S, TRUE)
<1>1. /\ s \in Seq(S)
      /\ \A k \in S : \E i \in DOMAIN s : s[i] = k
      /\ \A i, j \in DOMAIN s : i < j => s[j] < s[i]
  BY InOrder
<1> HIDE DEF s
<1>0. DOMAIN s = 1..Len(s) /\ Len(s) \in Nat /\ \A i \in DOMAIN s : s[i] \in S /\ s[i] \in Int
  <2>1. DOMAIN s = 1..Len(s) /\ Len(s) \in Nat /\ \A i \in DOMAIN s : s[i] \in S
    BY <1>1
  <2> QED
    BY <2>1
<1>2. 1 \in DOMAIN s
  <2>1. PICK k \in S : TRUE
    OBVIOUS
  <2>2. PICK i \in DOMAIN s : s[i] = k
    BY <1>1
  <2> QED
    BY <1>0, <2>2
<1>3. s[1] \in S /\ \A x \in S : x <= s[1]
  <2>1. SUFFICES ASSUME NEW x \in S PROVE x <= s[1]
    BY <1>1, <1>2
  <2>2. PICK i \in DOMAIN s : s[i] = x
    BY <1>1
  <2>3. i = 1 \/ 1 < i
    BY <1>0
  <2>4. s[i] \in Int /\ s[1] \in Int
    BY <1>0, <1>2
  <2> QED
    BY <1>1, <1>2, <2>2, <2>3, <2>4
<1>4. Max(S) = CHOOSE x \in S : \A y \in S : x >= y
  BY DEF Max
<1>5. \E x \in S : \A y \in S : x >= y
  BY <1>3
<1> QED
  BY <1>4, <1>5

\* A page of a sequence.
LEMMA PageIs ==
  ASSUME NEW S, NEW s \in Seq(S), NEW offset \in Nat, NEW limit \in Nat
  PROVE  /\ Page(s, offset, limit) \in Seq(S)
         /\ Len(Page(s, offset, limit)) = IF Len(s) <= offset THEN 0
                                           ELSE IF Len(s) <= offset + limit THEN Len(s) - offset
                                           ELSE limit
         /\ \A i \in 1..Len(Page(s, offset, limit)) :
              offset + i \in 1..Len(s) /\ Page(s, offset, limit)[i] = s[offset + i]
<1>1. Len(s) \in Nat
  OBVIOUS
<1>2. Min({offset + limit, Len(s)}) = IF offset + limit <= Len(s) THEN offset + limit ELSE Len(s)
  BY <1>1, OfTwo
<1> DEFINE m == Min({offset + limit, Len(s)})
<1>3. Page(s, offset, limit) = SubSeq(s, offset + 1, m)
  BY DEF Page
<1>4. m \in Nat /\ m <= Len(s) /\ m <= offset + limit /\ (m = Len(s) \/ m = offset + limit)
  BY <1>1, <1>2
<1> HIDE DEF m
<1>5. SubSeq(s, offset + 1, m) \in Seq(S)
  BY <1>1, <1>4
<1>6. Len(SubSeq(s, offset + 1, m)) = IF offset + 1 <= m THEN m - offset ELSE 0
  BY <1>1, <1>4
<1>7. \A i \in 1..Len(SubSeq(s, offset + 1, m)) :
        offset + i \in 1..Len(s) /\ SubSeq(s, offset + 1, m)[i] = s[offset + i]
  BY <1>1, <1>4, <1>6
<1> QED
  BY <1>1, <1>3, <1>4, <1>5, <1>6, <1>7

Versions == Version \cup {0}
RowItem == [key : Key, version : Versions, info : Versions]
Tables == [Key -> Versions]

LEMMA KeyFinite == IsFiniteSet(Key) /\ Key \in SUBSET Nat
<1>1. IsFiniteSet(Key) /\ Key = 1..Cardinality(Key)
  BY QueriesAssumption
<1>2. Cardinality(Key) \in Nat
  BY <1>1, FS_CardinalityType
<1> QED
  BY <1>1, <1>2

\* Rows of a table.
LEMMA RowsAre ==
  ASSUME NEW table \in Tables, NEW keys \in Seq(Key)
  PROVE  /\ Rows(table, keys) \in Seq(RowItem)
         /\ Len(Rows(table, keys)) = Len(keys)
         /\ \A i \in 1..Len(keys) :
              /\ Rows(table, keys)[i].key = keys[i]
              /\ Rows(table, keys)[i].version = table[keys[i]]
              /\ Rows(table, keys)[i].info = table[keys[i]]
<1>1. \A i \in DOMAIN keys : Item(keys[i], table[keys[i]], table[keys[i]]) \in RowItem
  BY DEF Tables, Item, RowItem
<1>2. Rows(table, keys) = [i \in 1..Len(keys) |-> Item(keys[i], table[keys[i]], table[keys[i]])]
  BY DEF Rows
<1> QED
  BY <1>1, <1>2 DEF Item

\* Keys in order that fit a request, or some of them.
LEMMA OrderedKeys ==
  ASSUME NEW S \in SUBSET Key, NEW desc \in BOOLEAN
  PROVE  /\ IsFiniteSet(S)
         /\ inOrder(S, desc) \in Seq(S)
         /\ inOrder(S, desc) \in Seq(Key)
         /\ Len(inOrder(S, desc)) = Cardinality(S)
         /\ \A i \in 1..Len(inOrder(S, desc)) : inOrder(S, desc)[i] \in S
         /\ \A k \in S : \E i \in 1..Len(inOrder(S, desc)) : inOrder(S, desc)[i] = k
<1>1. IsFiniteSet(S) /\ S \in SUBSET Int
  <2>1. IsFiniteSet(S)
    BY KeyFinite, FS_Subset
  <2>2. \A k \in S : k \in Int
    BY KeyFinite
  <2> QED
    BY <2>1, <2>2
<1> DEFINE s == inOrder(S, desc)
<1>2. s \in Seq(S) /\ Len(s) = Cardinality(S) /\ \A k \in S : \E i \in DOMAIN s : s[i] = k
  BY <1>1, InOrder
<1> HIDE DEF s
<1>3. DOMAIN s = 1..Len(s) /\ Len(s) \in Nat /\ \A i \in 1..Len(s) : s[i] \in S
  BY <1>2
<1>4. s = [i \in 1..Len(s) |-> s[i]]
  BY <1>2
<1>6. \A i \in 1..Len(s) : s[i] \in Key
  BY <1>3
<1>5. s \in Seq(Key)
  BY <1>3, <1>4, <1>6
<1> QED
  BY <1>1, <1>2, <1>3, <1>5 DEF s
-----------------------------------------------------------------------------
(* The steps of the endpoints                                               *)

TokenEndpoints == {"tokens", "supportedTokens"}
TransactionEndpoints == {"transactions", "pendingAndOther"}

StepNames ==
  {"identify", "count", "find", "details", "findOwned", "findAudios", "countPage", "findMember",
   "findSubscription", "findBlock",
   "getBlocksByIDs", "getBlock", "setLastBlock", "getTransactionsByIDs", "getBlockByIDs",
   "getEventsByHeight", "list", "listFlagged", "listFirst", "listPeers", "listGenerators",
   "listAll", "findDefaults", "findOthers", "slice", "allOfChains", "allOfEntries",
   "getPending", "merge"}

\* What the proofs need of the order of the steps.
StepsOrdered(s, r) ==
  /\ s \in Seq(StepNames) /\ Len(s) > 0
  /\ \A i \in 1..Len(s) :
       /\ s[i] = "identify" <=> i = 1 /\ r.endpoint \in Identified
       /\ s[i] = "findBlock" <=> i = 1 /\ r.endpoint = "events"
       /\ s[i] \in {"details", "getBlocksByIDs"} => r.endpoint \notin TransactionEndpoints
       /\ s[i] \in {"getPending", "merge"} => r.endpoint = "pendingAndOther"
       /\ s[i] \in {"allOfChains", "allOfEntries"} => r.endpoint \in TokenEndpoints
       /\ s[i] = "getEventsByHeight" => r.endpoint = "events"
       /\ s[i] = "getBlock" => r.endpoint = "blocks" /\ ~isQueryFromIndex(r)
       /\ s[i] = "getTransactionsByIDs" => r.endpoint \in TransactionEndpoints

\* The steps of each endpoint.
LEMMA StepsAre ==
  ASSUME NEW r
  PROVE  /\ r.endpoint = "collections" => Steps(r) = <<"count", "find">>
         /\ r.endpoint = "profiles" => Steps(r) = <<"count", "find", "details">>
         /\ r.endpoint = "subscriptions" => Steps(r) = <<"count", "find", "details">>
         /\ r.endpoint = "subscriptionsOfMember" => Steps(r) = <<"findMember", "findSubscription">>
         /\ r.endpoint = "blockchainApps" => Steps(r) = <<"count", "find">>
         /\ r.endpoint = "audios" => Steps(r) = <<"find", "details", "countPage">>
         /\ r.endpoint = "audiosOfOwner" => Steps(r) = <<"findOwned", "findAudios", "details", "countPage">>
         /\ r.endpoint = "transactions" => Steps(r) = <<"count", "find", "getTransactionsByIDs">>
         /\ r.endpoint = "pendingAndOther" => Steps(r) = <<"getPending", "count", "find", "getTransactionsByIDs", "merge">>
         /\ r.endpoint = "blockAssets" => Steps(r) = <<"count", "find", "getBlockByIDs">>
         /\ r.endpoint = "events" => Steps(r) = <<"findBlock", "find", "getEventsByHeight", "count">>
         /\ r.endpoint = "stakers" => Steps(r) = <<"identify", "find", "details", "count">>
         /\ r.endpoint = "stakes" => Steps(r) = <<"identify", "listAll">>
         /\ r.endpoint = "unlocks" => Steps(r) = <<"identify", "listFlagged">>
         /\ r.endpoint = "claimable" => Steps(r) = <<"identify", "list">>
         /\ r.endpoint = "locked" => Steps(r) = <<"identify", "listFirst">>
         /\ r.endpoint = "hasAccount" => Steps(r) = <<"identify", "listFirst">>
         /\ r.endpoint = "balances" => Steps(r) = <<"list">>
         /\ r.endpoint = "peers" => Steps(r) = <<"listPeers">>
         /\ r.endpoint = "generators" => Steps(r) = <<"listGenerators">>
         /\ r.endpoint = "metaList" => Steps(r) = <<"findDefaults", "findOthers", "slice", "count">>
         /\ r.endpoint = "metadata" => Steps(r) = <<"findDefaults", "findOthers", "details", "count">>
         /\ r.endpoint = "tokens" => Steps(r) = <<"find", "allOfChains", "count">>
         /\ r.endpoint = "supportedTokens" =>
              Steps(r) = IF getTokenSummary(r) = {} THEN <<"countPage">>
                         ELSE <<"find", "count", "allOfEntries">>
         /\ r.endpoint = "blocks" =>
              Steps(r) = IF isQueryFromIndex(r)
                         THEN <<"count", "find", "getBlocksByIDs", "setLastBlock">>
                         ELSE <<"count", "getBlock", "setLastBlock">>
<1>1. r.endpoint = "collections" => Steps(r) = <<"count", "find">>
  BY DEF Steps, getCollections
<1>2. r.endpoint = "profiles" => Steps(r) = <<"count", "find", "details">>
  BY DEF Steps, getProfiles
<1>3. r.endpoint = "subscriptions" => Steps(r) = <<"count", "find", "details">>
  BY DEF Steps, getSubscriptionsBySubscriptionIdOrCreatorAddress
<1>4. r.endpoint = "subscriptionsOfMember" => Steps(r) = <<"findMember", "findSubscription">>
  BY DEF Steps, getActiveSubscriptionsByMemberAddress
<1>5. r.endpoint = "blockchainApps" => Steps(r) = <<"count", "find">>
  BY DEF Steps, getBlockchainApps
<1>6. r.endpoint = "audios" => Steps(r) = <<"find", "details", "countPage">>
  BY DEF Steps, getAudios
<1>7. r.endpoint = "audiosOfOwner" => Steps(r) = <<"findOwned", "findAudios", "details", "countPage">>
  BY DEF Steps, getAudiosOfOwner
<1>8. r.endpoint = "transactions" => Steps(r) = <<"count", "find", "getTransactionsByIDs">>
  BY DEF Steps, transactionsSteps, isIncludePendingTransactions, getTransactions
<1>9. r.endpoint = "pendingAndOther" => Steps(r) = <<"getPending", "count", "find", "getTransactionsByIDs", "merge">>
  BY DEF mergeTransactions, Steps, transactionsSteps, isIncludePendingTransactions
<1>10. r.endpoint = "blockAssets" => Steps(r) = <<"count", "find", "getBlockByIDs">>
  BY DEF Steps, getBlocksAssets
<1>11. r.endpoint = "events" => Steps(r) = <<"findBlock", "find", "getEventsByHeight", "count">>
  BY DEF Steps, getEvents
<1>12. r.endpoint = "stakers" => Steps(r) = <<"identify", "find", "details", "count">>
  BY DEF Steps, getStakers
<1>13. r.endpoint = "stakes" => Steps(r) = <<"identify", "listAll">>
  BY DEF Steps, getStakes
<1>14. r.endpoint = "unlocks" => Steps(r) = <<"identify", "listFlagged">>
  BY DEF Steps, getPosUnlocks
<1>15. r.endpoint = "claimable" => Steps(r) = <<"identify", "list">>
  BY DEF Steps, getPosClaimableRewards
<1>16. r.endpoint = "locked" => Steps(r) = <<"identify", "listFirst">>
  BY DEF Steps, getPosLockedRewards
<1>17. r.endpoint = "hasAccount" => Steps(r) = <<"identify", "listFirst">>
  BY DEF Steps, tokenHasUserAccount
<1>18. r.endpoint = "balances" => Steps(r) = <<"list">>
  BY DEF Steps, getTokenBalances
<1>19. r.endpoint = "peers" => Steps(r) = <<"listPeers">>
  BY DEF Steps, getNetworkPeers
<1>20. r.endpoint = "generators" => Steps(r) = <<"listGenerators">>
  BY DEF Steps, getGenerators
<1>21. r.endpoint = "metaList" => Steps(r) = <<"findDefaults", "findOthers", "slice", "count">>
  BY DEF Steps, getBlockchainAppsMetaList
<1>22. r.endpoint = "metadata" => Steps(r) = <<"findDefaults", "findOthers", "details", "count">>
  BY DEF Steps, getBlockchainAppsMetadata
<1>23. r.endpoint = "tokens" => Steps(r) = <<"find", "allOfChains", "count">>
  BY DEF Steps, getBlockchainAppsTokenMetadata
<1>24. r.endpoint = "supportedTokens" =>
         Steps(r) = IF getTokenSummary(r) = {} THEN <<"countPage">>
                    ELSE <<"find", "count", "allOfEntries">>
  BY DEF Steps, getBlockchainAppsTokensSupportedMetadata, getTokensMetaByTokenIDs
<1>25. r.endpoint = "blocks" =>
         Steps(r) = IF isQueryFromIndex(r)
                    THEN <<"count", "find", "getBlocksByIDs", "setLastBlock">>
                    ELSE <<"count", "getBlock", "setLastBlock">>
  BY DEF Steps, getBlocks
<1> QED
  BY <1>1, <1>2, <1>3, <1>4, <1>5, <1>6, <1>7, <1>8, <1>9, <1>10, <1>11, <1>12, <1>13, <1>14, <1>15, <1>16, <1>17, <1>18, <1>19, <1>20, <1>21, <1>22, <1>23, <1>24, <1>25

LEMMA EndpointSteps ==
  ASSUME NEW r, r.endpoint \in Endpoints
  PROVE  StepsOrdered(Steps(r), r)
<1> USE DEF StepsOrdered, StepNames, Identified, TokenEndpoints, TransactionEndpoints
<1>1. CASE r.endpoint = "collections"
  <2>1. Steps(r) = <<"count", "find">>
    BY <1>1, StepsAre
  <2> QED
    BY <1>1, <2>1
<1>2. CASE r.endpoint = "profiles"
  <2>1. Steps(r) = <<"count", "find", "details">>
    BY <1>2, StepsAre
  <2> QED
    BY <1>2, <2>1
<1>3. CASE r.endpoint = "subscriptions"
  <2>1. Steps(r) = <<"count", "find", "details">>
    BY <1>3, StepsAre
  <2> QED
    BY <1>3, <2>1
<1>4. CASE r.endpoint = "subscriptionsOfMember"
  <2>1. Steps(r) = <<"findMember", "findSubscription">>
    BY <1>4, StepsAre
  <2> QED
    BY <1>4, <2>1
<1>5. CASE r.endpoint = "blockchainApps"
  <2>1. Steps(r) = <<"count", "find">>
    BY <1>5, StepsAre
  <2> QED
    BY <1>5, <2>1
<1>6. CASE r.endpoint = "audios"
  <2>1. Steps(r) = <<"find", "details", "countPage">>
    BY <1>6, StepsAre
  <2> QED
    BY <1>6, <2>1
<1>7. CASE r.endpoint = "audiosOfOwner"
  <2>1. Steps(r) = <<"findOwned", "findAudios", "details", "countPage">>
    BY <1>7, StepsAre
  <2> QED
    BY <1>7, <2>1
<1>8. CASE r.endpoint = "transactions"
  <2>1. Steps(r) = <<"count", "find", "getTransactionsByIDs">>
    BY <1>8, StepsAre
  <2> QED
    BY <1>8, <2>1
<1>9. CASE r.endpoint = "pendingAndOther"
  <2>1. Steps(r) = <<"getPending", "count", "find", "getTransactionsByIDs", "merge">>
    BY <1>9, StepsAre
  <2> QED
    BY <1>9, <2>1
<1>10. CASE r.endpoint = "blockAssets"
  <2>1. Steps(r) = <<"count", "find", "getBlockByIDs">>
    BY <1>10, StepsAre
  <2> QED
    BY <1>10, <2>1
<1>11. CASE r.endpoint = "events"
  <2>1. Steps(r) = <<"findBlock", "find", "getEventsByHeight", "count">>
    BY <1>11, StepsAre
  <2> QED
    BY <1>11, <2>1
<1>12. CASE r.endpoint = "stakers"
  <2>1. Steps(r) = <<"identify", "find", "details", "count">>
    BY <1>12, StepsAre
  <2> QED
    BY <1>12, <2>1
<1>13. CASE r.endpoint = "stakes"
  <2>1. Steps(r) = <<"identify", "listAll">>
    BY <1>13, StepsAre
  <2> QED
    BY <1>13, <2>1
<1>14. CASE r.endpoint = "unlocks"
  <2>1. Steps(r) = <<"identify", "listFlagged">>
    BY <1>14, StepsAre
  <2> QED
    BY <1>14, <2>1
<1>15. CASE r.endpoint = "claimable"
  <2>1. Steps(r) = <<"identify", "list">>
    BY <1>15, StepsAre
  <2> QED
    BY <1>15, <2>1
<1>16. CASE r.endpoint = "locked"
  <2>1. Steps(r) = <<"identify", "listFirst">>
    BY <1>16, StepsAre
  <2> QED
    BY <1>16, <2>1
<1>17. CASE r.endpoint = "hasAccount"
  <2>1. Steps(r) = <<"identify", "listFirst">>
    BY <1>17, StepsAre
  <2> QED
    BY <1>17, <2>1
<1>18. CASE r.endpoint = "balances"
  <2>1. Steps(r) = <<"list">>
    BY <1>18, StepsAre
  <2> QED
    BY <1>18, <2>1
<1>19. CASE r.endpoint = "peers"
  <2>1. Steps(r) = <<"listPeers">>
    BY <1>19, StepsAre
  <2> QED
    BY <1>19, <2>1
<1>20. CASE r.endpoint = "generators"
  <2>1. Steps(r) = <<"listGenerators">>
    BY <1>20, StepsAre
  <2> QED
    BY <1>20, <2>1
<1>21. CASE r.endpoint = "metaList"
  <2>1. Steps(r) = <<"findDefaults", "findOthers", "slice", "count">>
    BY <1>21, StepsAre
  <2> QED
    BY <1>21, <2>1
<1>22. CASE r.endpoint = "metadata"
  <2>1. Steps(r) = <<"findDefaults", "findOthers", "details", "count">>
    BY <1>22, StepsAre
  <2> QED
    BY <1>22, <2>1
<1>23. CASE r.endpoint = "tokens"
  <2>1. Steps(r) = <<"find", "allOfChains", "count">>
    BY <1>23, StepsAre
  <2> QED
    BY <1>23, <2>1
<1>24. CASE r.endpoint = "supportedTokens"
  <2>1. Steps(r) = <<"countPage">> \/ Steps(r) = <<"find", "count", "allOfEntries">>
    BY <1>24, StepsAre
  <2>2. CASE Steps(r) = <<"countPage">>
    BY <1>24, <2>2
  <2>3. CASE Steps(r) = <<"find", "count", "allOfEntries">>
    BY <1>24, <2>3
  <2> QED
    BY <2>1, <2>2, <2>3
<1>25. CASE r.endpoint = "blocks"
  <2>1. \/ Steps(r) = <<"count", "find", "getBlocksByIDs", "setLastBlock">>
        \/ Steps(r) = <<"count", "getBlock", "setLastBlock">> /\ ~isQueryFromIndex(r)
    BY <1>25, StepsAre
  <2>2. CASE Steps(r) = <<"count", "find", "getBlocksByIDs", "setLastBlock">>
    BY <1>25, <2>2
  <2>3. CASE Steps(r) = <<"count", "getBlock", "setLastBlock">> /\ ~isQueryFromIndex(r)
    BY <1>25, <2>3
  <2> QED
    BY <2>1, <2>2, <2>3
<1> QED
  BY <1>1, <1>2, <1>3, <1>4, <1>5, <1>6, <1>7, <1>8, <1>9, <1>10, <1>11, <1>12, <1>13, <1>14, <1>15, <1>16, <1>17, <1>18, <1>19, <1>20, <1>21, <1>22, <1>23, <1>24, <1>25 DEF Endpoints, NodeLists
-----------------------------------------------------------------------------
(* The inductive invariant                                                  *)

RequestFields ==
  {"endpoint", "owner", "party", "to", "height", "id", "flagged", "desc", "offset", "limit", "identity"}
RequestTyped(r) ==
  /\ DOMAIN r = RequestFields
  /\ r.endpoint \in Endpoints \cup {None}
  /\ r.owner \in Account \cup {None} /\ r.party \in Account \cup {None}
  /\ r.endpoint = "blocks" => r.party = None
  /\ r.to \in Nat
  /\ r.height \in Key \cup {0}
  /\ r.id \in (Key \X Version) \cup {NoID}
  /\ r.flagged \in BOOLEAN /\ r.desc \in BOOLEAN
  /\ r.offset \in Nat /\ r.limit \in Nat \ {0}
  /\ DOMAIN r.identity = {"address", "name", "publicKey"}
  /\ r.identity.address \in Account \cup {None}
  /\ r.identity.publicKey \in Account \cup {None}

QueryFields ==
  {"given", "request", "steps", "status", "total", "offset", "limit", "data", "pending", "pendingTotal",
   "about", "seen", "quiet"}
QueryTyped(q) ==
  /\ DOMAIN q = QueryFields
  /\ RequestTyped(q.request)
  /\ q.steps \in Seq(StepNames)
  /\ q.status \in {"idle", "running", "answered", "failed"}
  /\ q.offset \in Nat /\ q.limit \in Nat \ {0}
  /\ q.data \in Seq(RowItem) /\ q.pending \in Seq(RowItem)
  /\ q.pendingTotal \in Nat
  /\ q.quiet \in BOOLEAN

TablesTyped ==
  /\ chain \in Tables /\ rows \in Tables
  /\ pool \in SUBSET Key /\ pendingTransactionsList \in SUBSET Key

\* The steps that are left are the last ones of the endpoint's.
StepsLeft(q) ==
  LET all == Steps(q.request)
  IN  \E n \in 0..Len(all) :
        Len(q.steps) = Len(all) - n /\ \A i \in 1..Len(q.steps) : q.steps[i] = all[n + i]

Left(q, step) == \E i \in 1..Len(q.steps) : q.steps[i] = step

\* A row that may be part of the answer.
Fitting(x, q) ==
  \/ <<x.key, x.version>> \in q.seen
  \/ q.request.endpoint = "pendingAndOther" /\ FitsPending(x, q.request)
  \/ q.request.endpoint \in TransactionEndpoints /\ <<x.key, x.version>> = q.request.id

\* What has been read fitted the request at the time, and what still may be read is
\* among what was seen, so that it may be taken when it is read later.
FitInv(q) ==
  /\ Seen(chain, rows, q.request) \subseteq q.seen
  /\ q.request.endpoint \notin TokenEndpoints \cup {"events"} =>
       \A i \in 1..Len(q.data) : Fitting(q.data[i], q)
  /\ q.request.endpoint = "pendingAndOther" =>
       \A i \in 1..Len(q.pending) : FitsPending(q.pending[i], q.request)

\* Whom the query is about, once this is known.
IdentityInv(q) ==
  q.request.endpoint \in Identified =>
    IF Left(q, "identify") THEN q.about = None /\ q.data = << >>
    ELSE q.about = accountOf(q.request) /\ (q.about = None => q.data = << >> /\ q.steps = << >>)

QueryInv ==
  /\ TablesTyped
  /\ QueryTyped(query)
  /\ query.status \in {"running", "answered"} =>
       /\ query.request.endpoint \in Endpoints
       /\ StepsLeft(query)
       /\ FitInv(query)
       /\ IdentityInv(query)
       /\ query.status = "answered" => query.steps = << >>
-----------------------------------------------------------------------------
\* A step takes the query on.
LEMMA AdvanceIs ==
  ASSUME NEW q, QueryTyped(q), NEW step, q.steps # << >>, Head(q.steps) = step
  PROVE  /\ QueryTyped(Advance(q))
         /\ \A f \in QueryFields \ {"steps", "status"} : Advance(q)[f] = q[f]
         /\ Advance(q).steps = Tail(q.steps)
         /\ Len(Tail(q.steps)) = Len(q.steps) - 1
         /\ \A i \in 1..Len(Tail(q.steps)) : Tail(q.steps)[i] = q.steps[i + 1]
         /\ q.steps[1] = step /\ Len(q.steps) \in Nat \ {0}
         /\ Advance(q).status = IF Len(q.steps) = 1 THEN "answered" ELSE q.status
         /\ Len(q.steps) = 1 => Tail(q.steps) = << >>
<1> DEFINE a == Advance(q)
<1>1. /\ DOMAIN a = QueryFields
      /\ \A f \in QueryFields \ {"steps", "status"} : a[f] = q[f]
      /\ a.steps = Tail(q.steps)
      /\ a.status = IF Len(q.steps) = 1 THEN "answered" ELSE q.status
  BY DEF Advance, QueryTyped, QueryFields
<1>2. /\ Len(q.steps) \in Nat \ {0} /\ q.steps[1] = step
      /\ Tail(q.steps) \in Seq(StepNames)
      /\ Len(Tail(q.steps)) = Len(q.steps) - 1
      /\ \A i \in 1..Len(Tail(q.steps)) : Tail(q.steps)[i] = q.steps[i + 1]
  BY DEF QueryTyped
<1>4. Len(q.steps) = 1 => Tail(q.steps) = << >>
  <2> DEFINE t == Tail(q.steps)
  <2>1. t \in Seq(StepNames) /\ (Len(q.steps) = 1 => Len(t) = 0)
    BY <1>2
  <2> HIDE DEF t
  <2>2. Len(q.steps) = 1 => t = << >>
    BY <2>1
  <2> QED
    BY <2>2 DEF t
<1> HIDE DEF a
<1>3. QueryTyped(a)
  BY <1>1, <1>2 DEF QueryTyped, QueryFields
<1> QED
  BY <1>1, <1>2, <1>3, <1>4 DEF a

\* What is left after a step of a query whose steps are the last ones of its endpoint.
LEMMA StepsLeftAfter ==
  ASSUME NEW q, QueryTyped(q), StepsLeft(q), q.steps # << >>, NEW p,
         p.steps = Tail(q.steps), Steps(p.request) = Steps(q.request),
         q.request.endpoint \in Endpoints
  PROVE  /\ StepsLeft(p)
         /\ ~Left(p, "identify") /\ ~Left(p, "findBlock")
         /\ \A step : Left(p, step) => Left(q, step)
<1> DEFINE all == Steps(q.request)
<1>1. PICK n \in 0..Len(all) :
        Len(q.steps) = Len(all) - n /\ \A i \in 1..Len(q.steps) : q.steps[i] = all[n + i]
  BY DEF StepsLeft
<1>2. StepsOrdered(all, q.request)
  BY EndpointSteps
<1>3. Len(all) \in Nat
  BY <1>2 DEF StepsOrdered
<1> HIDE DEF all
<1>4. /\ Len(q.steps) \in Nat \ {0}
      /\ Len(p.steps) = Len(q.steps) - 1
      /\ \A i \in 1..Len(p.steps) : p.steps[i] = q.steps[i + 1]
  BY DEF QueryTyped
<1>5. n + 1 \in 0..Len(all) /\ Len(p.steps) = Len(all) - (n + 1)
  BY <1>1, <1>3, <1>4
<1>6. ASSUME NEW i \in 1..Len(p.steps)
      PROVE  p.steps[i] = all[(n + 1) + i] /\ (n + 1) + i \in 1..Len(all) /\ (n + 1) + i > 1
                /\ i + 1 \in 1..Len(q.steps)
  <2>1. i + 1 \in 1..Len(q.steps)
    BY <1>4
  <2>2. n + (i + 1) = (n + 1) + i
    BY <1>1, <1>3
  <2> QED
    BY <1>1, <1>3, <1>4, <1>5, <2>1, <2>2
<1>7. StepsLeft(p)
  BY <1>5, <1>6 DEF StepsLeft, all
<1>8. ~Left(p, "identify") /\ ~Left(p, "findBlock")
  BY <1>2, <1>6 DEF Left, StepsOrdered
<1>9. \A step : Left(p, step) => Left(q, step)
  BY <1>4, <1>6 DEF Left
<1> QED
  BY <1>7, <1>8, <1>9

LEMMA StepKeepsInv ==
  ASSUME QueryInv, NEW step, AtStep(step), step # "identify",
         UNCHANGED <<chain, rows, pool, pendingTransactionsList>>,
         DOMAIN query' = QueryFields,
         \A f \in {"request", "about", "seen", "quiet"} : query'[f] = query[f],
         query'.steps = Tail(query.steps), query'.status \in {"running", "answered"},
         query'.status = "answered" => query'.steps = << >>,
         query'.offset \in Nat, query'.limit \in Nat \ {0},
         query'.data \in Seq(RowItem), query'.pending \in Seq(RowItem),
         query'.pendingTotal \in Nat,
         query.request.endpoint \notin TokenEndpoints \cup {"events"} =>
           \A i \in 1..Len(query'.data) : Fitting(query'.data[i], query),
         query.request.endpoint = "pendingAndOther" =>
           \A i \in 1..Len(query'.pending) : FitsPending(query'.pending[i], query.request)
  PROVE  QueryInv'
<1> DEFINE p == query'
<1>0. /\ TablesTyped /\ QueryTyped(query) /\ StepsLeft(query) /\ FitInv(query) /\ IdentityInv(query)
      /\ query.request.endpoint \in Endpoints /\ query.steps # << >> /\ Head(query.steps) = step
  BY DEF QueryInv, AtStep
<1>1. p.request = query.request /\ p.about = query.about /\ p.seen = query.seen /\ p.quiet = query.quiet
  OBVIOUS
<1> HIDE DEF p
<1>2. Tail(query.steps) \in Seq(StepNames) /\ query.steps[1] = step
  BY <1>0 DEF QueryTyped
<1>3. QueryTyped(p)
  BY <1>0, <1>1, <1>2 DEF QueryTyped, p
<1>4. StepsLeft(p) /\ ~Left(p, "identify")
  BY <1>0, <1>1, StepsLeftAfter DEF p
<1>5. Seen(chain', rows', p.request) \subseteq p.seen
  BY <1>0, <1>1 DEF FitInv
<1>6. ASSUME NEW i \in 1..Len(p.data), p.request.endpoint \notin TokenEndpoints \cup {"events"}
      PROVE  Fitting(p.data[i], p)
  BY <1>1, <1>6 DEF Fitting, p
<1>7. ASSUME query.request.endpoint \in Identified
      PROVE  /\ ~Left(query, "identify")
             /\ query.about = accountOf(query.request) /\ query.about # None
  <2>1. ~Left(query, "identify")
    <3> DEFINE all == Steps(query.request)
    <3>1. PICK n \in 0..Len(all) : /\ Len(query.steps) = Len(all) - n
                                   /\ \A i \in 1..Len(query.steps) : query.steps[i] = all[n + i]
      BY <1>0 DEF StepsLeft
    <3>2. StepsOrdered(all, query.request)
      BY <1>0, EndpointSteps
    <3>3. Len(all) \in Nat /\ Len(query.steps) \in Nat \ {0}
      BY <1>0, <3>2 DEF StepsOrdered, QueryTyped
    <3> HIDE DEF all
    <3>4. n # 0
      BY <1>2, <1>7, <3>1, <3>2, <3>3 DEF StepsOrdered
    <3>5. \A i \in 1..Len(query.steps) : n + i \in 1..Len(all) /\ n + i # 1
      BY <3>1, <3>3, <3>4
    <3> QED
      BY <3>1, <3>2, <3>5 DEF Left, StepsOrdered
  <2> QED
    BY <1>0, <1>7, <2>1 DEF IdentityInv
<1>8. IdentityInv(p)
  BY <1>1, <1>4, <1>7 DEF IdentityInv
<1>9. p.request.endpoint = "pendingAndOther" =>
        \A i \in 1..Len(p.pending) : FitsPending(p.pending[i], p.request)
  BY <1>1 DEF p
<1>10. TablesTyped'
  BY <1>0 DEF TablesTyped
<1>11. /\ (QueryTyped(query))' <=> QueryTyped(p)
       /\ (StepsLeft(query))' <=> StepsLeft(p)
       /\ (IdentityInv(query))' <=> IdentityInv(p)
  BY DEF p, QueryTyped, RequestTyped, StepsLeft, IdentityInv, Left
<1>12. (FitInv(query))'
  BY <1>5, <1>6, <1>9 DEF FitInv, Fitting, p
<1>13. (query.request.endpoint \in Endpoints)'
  BY <1>0, <1>1 DEF p
<1> QED
  BY <1>3, <1>4, <1>8, <1>10, <1>11, <1>12, <1>13 DEF QueryInv

\* Steps that change the data, the total or neither.
LEMMA ReadKeepsInv ==
  ASSUME QueryInv, NEW step, AtStep(step), step # "identify",
         UNCHANGED <<chain, rows, pool, pendingTransactionsList>>,
         NEW d \in Seq(RowItem), NEW t,
         query.request.endpoint \notin TokenEndpoints \cup {"events"} =>
           \A i \in 1..Len(d) : Fitting(d[i], query),
         \/ query' = [Advance(query) EXCEPT !.data = d, !.total = t]
         \/ query' = [Advance(query) EXCEPT !.data = d]
         \/ query' = [Advance(query) EXCEPT !.total = t]
         \/ query' = Advance(query)
  PROVE  QueryInv'
<1> DEFINE a == Advance(query)
<1>1. /\ QueryTyped(query) /\ FitInv(query) /\ query.status = "running"
      /\ query.steps # << >> /\ Head(query.steps) = step
  BY DEF QueryInv, AtStep
<1>2. /\ QueryTyped(a)
      /\ \A f \in QueryFields \ {"steps", "status"} : a[f] = query[f]
      /\ a.steps = Tail(query.steps) /\ a.status \in {"answered", "running"}
      /\ a.status = "answered" => a.steps = << >>
  BY <1>1, AdvanceIs
<1> HIDE DEF a
<1>3. \/ query' = [a EXCEPT !.data = d, !.total = t]
      \/ query' = [a EXCEPT !.data = d]
      \/ query' = [a EXCEPT !.total = t]
      \/ query' = a
  BY DEF a
<1>4. /\ DOMAIN query' = QueryFields
      /\ \A f \in QueryFields \ {"data", "total"} : query'[f] = a[f]
      /\ query'.data \in {d, a.data} /\ query'.total \in {t, a.total}
  BY <1>2, <1>3 DEF QueryTyped, QueryFields
<1>5. \A f \in {"request", "about", "seen", "quiet"} : query'[f] = query[f]
  BY <1>2, <1>4 DEF QueryFields
<1>6. /\ query'.steps = Tail(query.steps) /\ query'.status \in {"running", "answered"}
      /\ query'.status = "answered" => query'.steps = << >>
      /\ query'.offset \in Nat /\ query'.limit \in Nat \ {0}
      /\ query'.pending = query.pending /\ query'.pending \in Seq(RowItem)
      /\ query'.pendingTotal \in Nat
      /\ query'.data \in Seq(RowItem)
  BY <1>2, <1>4 DEF QueryTyped, QueryFields
<1>7. a.data = query.data
  BY <1>2 DEF QueryFields
<1>8. query.request.endpoint \notin TokenEndpoints \cup {"events"} =>
        \A i \in 1..Len(query'.data) : Fitting(query'.data[i], query)
  BY <1>1, <1>4, <1>7 DEF FitInv
<1>9. query.request.endpoint = "pendingAndOther" =>
        \A i \in 1..Len(query'.pending) : FitsPending(query'.pending[i], query.request)
  BY <1>1, <1>6 DEF FitInv
<1> QED
  BY <1>4, <1>5, <1>6, <1>8, <1>9, StepKeepsInv

\* What is read from the index or the node fits.
LEMMA ReadFits ==
  ASSUME QueryInv, query.status = "running", NEW table \in {chain, rows}, NEW keys \in Seq(Key),
         \A i \in 1..Len(keys) : keys[i] \in matching(table, query.request)
  PROVE  /\ Rows(table, keys) \in Seq(RowItem)
         /\ Len(Rows(table, keys)) = Len(keys)
         /\ \A i \in 1..Len(Rows(table, keys)) : Fitting(Rows(table, keys)[i], query)
<1>1. table \in Tables /\ Seen(chain, rows, query.request) \subseteq query.seen
  BY DEF QueryInv, TablesTyped, FitInv
<1> DEFINE all == Rows(table, keys)
<1>2. /\ all \in Seq(RowItem) /\ Len(all) = Len(keys)
      /\ \A i \in 1..Len(keys) : all[i].key = keys[i] /\ all[i].version = table[keys[i]]
  BY <1>1, RowsAre
<1> HIDE DEF all
<1>3. \A k \in matching(table, query.request) : <<k, table[k]>> \in query.seen
  BY <1>1 DEF Seen
<1> QED
  BY <1>2, <1>3 DEF Fitting, all

LEMMA MatchingKeys ==
  ASSUME NEW table, NEW r
  PROVE  matching(table, r) \in SUBSET Key
  BY DEF matching

\* A page of the keys of a set that fit.
LEMMA PageOfKeys ==
  ASSUME NEW S \in SUBSET Key, NEW desc \in BOOLEAN, NEW offset \in Nat, NEW limit \in Nat
  PROVE  /\ Page(inOrder(S, desc), offset, limit) \in Seq(Key)
         /\ \A i \in 1..Len(Page(inOrder(S, desc), offset, limit)) :
              Page(inOrder(S, desc), offset, limit)[i] \in S
<1> DEFINE s == inOrder(S, desc)
           page == Page(s, offset, limit)
<1>1. s \in Seq(Key) /\ \A i \in 1..Len(s) : s[i] \in S
  BY OrderedKeys
<1> HIDE DEF s
<1>2. page \in Seq(Key) /\ \A i \in 1..Len(page) : offset + i \in 1..Len(s) /\ page[i] = s[offset + i]
  BY <1>1, PageIs
<1> QED
  BY <1>1, <1>2 DEF s

\* A page of what fits, fits.
LEMMA PageFits ==
  ASSUME NEW d \in Seq(RowItem), NEW offset \in Nat, NEW limit \in Nat
  PROVE  /\ Page(d, offset, limit) \in Seq(RowItem)
         /\ (\A i \in 1..Len(d) : Fitting(d[i], query)) =>
              \A i \in 1..Len(Page(d, offset, limit)) : Fitting(Page(d, offset, limit)[i], query)
<1> DEFINE page == Page(d, offset, limit)
<1>1. /\ page \in Seq(RowItem)
      /\ \A i \in 1..Len(page) : offset + i \in 1..Len(d) /\ page[i] = d[offset + i]
  BY PageIs
<1> QED
  BY <1>1
-----------------------------------------------------------------------------
(* Each step keeps the invariant                                            *)

\* What holds at a step that is to be done.
LEMMA AtStepFacts ==
  ASSUME QueryInv, NEW step, AtStep(step)
  PROVE  /\ query.status = "running"
         /\ chain \in Tables /\ rows \in Tables
         /\ pool \in SUBSET Key /\ pendingTransactionsList \in SUBSET Key
         /\ QueryTyped(query) /\ RequestTyped(query.request)
         /\ query.request.endpoint \in Endpoints
         /\ query.data \in Seq(RowItem) /\ query.pending \in Seq(RowItem)
         /\ query.offset \in Nat /\ query.limit \in Nat
         /\ query.request.desc \in BOOLEAN
         /\ FitInv(query)
         /\ query.request.endpoint \notin TokenEndpoints \cup {"events"} =>
              \A i \in 1..Len(query.data) : Fitting(query.data[i], query)
  BY DEF QueryInv, AtStep, QueryTyped, RequestTyped, TablesTyped, FitInv

\* A step that is to be done is one of the endpoint's.
LEMMA AtStepOrdered ==
  ASSUME QueryInv, NEW step, AtStep(step)
  PROVE  /\ step \in {"allOfChains", "allOfEntries"} => query.request.endpoint \in TokenEndpoints
         /\ step = "getEventsByHeight" => query.request.endpoint = "events"
         /\ step = "getBlock" => query.request.endpoint = "blocks" /\ ~isQueryFromIndex(query.request)
         /\ step = "getTransactionsByIDs" => query.request.endpoint \in TransactionEndpoints
         /\ step = "identify" => query.request.endpoint \in Identified /\ Left(query, "identify")
         /\ step = "findBlock" => query.request.endpoint = "events"
         /\ step \in {"details", "getBlocksByIDs"} => query.request.endpoint # "pendingAndOther"
         /\ step \in {"getPending", "merge"} => query.request.endpoint = "pendingAndOther"
<1> DEFINE all == Steps(query.request)
<1>1. /\ QueryTyped(query) /\ StepsLeft(query) /\ query.request.endpoint \in Endpoints
      /\ query.steps # << >> /\ Head(query.steps) = step
  BY DEF QueryInv, AtStep
<1>2. PICK n \in 0..Len(all) : /\ Len(query.steps) = Len(all) - n
                              /\ \A i \in 1..Len(query.steps) : query.steps[i] = all[n + i]
  BY <1>1 DEF StepsLeft
<1>3. StepsOrdered(all, query.request)
  BY <1>1, EndpointSteps
<1> HIDE DEF all
<1>4. Len(all) \in Nat /\ Len(query.steps) \in Nat \ {0} /\ query.steps[1] = step
  BY <1>1, <1>3 DEF StepsOrdered, QueryTyped
<1>5. n + 1 \in 1..Len(all) /\ all[n + 1] = step
  BY <1>2, <1>4
<1>6. Left(query, step)
  BY <1>4 DEF Left
<1> QED
  BY <1>3, <1>5, <1>6 DEF StepsOrdered, TransactionEndpoints

LEMMA QueryBuilderFits ==
  ASSUME QueryInv, NEW step, AtStep(step), NEW offset \in Nat, NEW limit \in Nat
  PROVE  /\ queryBuilder(rows, query.request, offset, limit) \in Seq(RowItem)
         /\ \A i \in 1..Len(queryBuilder(rows, query.request, offset, limit)) :
              Fitting(queryBuilder(rows, query.request, offset, limit)[i], query)
<1>1. query.status = "running" /\ query.request.desc \in BOOLEAN
  BY AtStepFacts
<1> DEFINE S == matching(rows, query.request)
           keys == Page(inOrder(S, query.request.desc), offset, limit)
<1>2. S \in SUBSET Key
  BY MatchingKeys
<1>3. keys \in Seq(Key) /\ \A i \in 1..Len(keys) : keys[i] \in S
  BY <1>1, <1>2, PageOfKeys
<1>4. queryBuilder(rows, query.request, offset, limit) = Rows(rows, keys)
  BY DEF queryBuilder
<1> HIDE DEF keys
<1> QED
  BY <1>1, <1>3, <1>4, ReadFits

LEMMA IndexReadsKeepInv ==
  ASSUME QueryInv, countRows \/ findRows \/ findMember \/ countPage
  PROVE  QueryInv'
<1>1. CASE countRows
  <2> DEFINE t == Cardinality(matching(rows, query.request))
  <2>1. /\ AtStep("count") /\ query' = [Advance(query) EXCEPT !.total = t]
        /\ UNCHANGED <<chain, rows, pool, pendingTransactionsList>>
    BY <1>1 DEF countRows, QueryUnchanged
  <2> HIDE DEF t
  <2> QED
    BY <2>1, AtStepFacts, ReadKeepsInv
<1>2. CASE findRows
  <2> DEFINE d == queryBuilder(rows, query.request, query.offset, query.limit)
  <2>1. /\ AtStep("find") /\ query' = [Advance(query) EXCEPT !.data = d]
        /\ UNCHANGED <<chain, rows, pool, pendingTransactionsList>>
    BY <1>2 DEF findRows, QueryUnchanged
  <2>2. d \in Seq(RowItem) /\ \A i \in 1..Len(d) : Fitting(d[i], query)
    BY <2>1, AtStepFacts, QueryBuilderFits
  <2> HIDE DEF d
  <2> QED
    BY <2>1, <2>2, ReadKeepsInv
<1>3. CASE findMember
  <2> DEFINE S == matching(rows, query.request)
  <2>1. AtStep("findMember") /\ UNCHANGED <<chain, rows, pool, pendingTransactionsList>>
    BY <1>3 DEF findMember, QueryUnchanged
  <2>2. CASE query' = [Advance(query) EXCEPT !.total = 0]
    BY <2>1, <2>2, AtStepFacts, ReadKeepsInv
  <2>3. ASSUME NEW k \in S, query' = [Advance(query) EXCEPT !.data = Rows(rows, <<k>>), !.total = 1]
        PROVE  QueryInv'
    <3> DEFINE keys == <<k>>
               d == Rows(rows, keys)
    <3>1. k \in Key
      BY MatchingKeys
    <3>2. keys \in Seq(Key) /\ \A i \in 1..Len(keys) : keys[i] \in S
      BY <3>1
    <3>3. query' = [Advance(query) EXCEPT !.data = d, !.total = 1]
      BY <2>3
    <3> HIDE DEF keys
    <3>4. d \in Seq(RowItem) /\ \A i \in 1..Len(d) : Fitting(d[i], query)
      BY <2>1, <3>2, AtStepFacts, ReadFits
    <3> HIDE DEF d
    <3> QED
      BY <2>1, <3>3, <3>4, ReadKeepsInv
  <2> QED
    BY <1>3, <2>2, <2>3 DEF findMember
<1>4. CASE countPage
  <2>1. /\ AtStep("countPage") /\ query' = [Advance(query) EXCEPT !.total = Len(query.data)]
        /\ UNCHANGED <<chain, rows, pool, pendingTransactionsList>>
    BY <1>4 DEF countPage, QueryUnchanged
  <2> QED
    BY <2>1, AtStepFacts, ReadKeepsInv
<1> QED
  BY <1>1, <1>2, <1>3, <1>4

\* Details and blocks are looked up for the rows found: these stay the same.
LEMMA LookUpKeepsInv ==
  ASSUME QueryInv, NEW step \in {"details", "getBlocksByIDs"}, AtStep(step),
         UNCHANGED <<chain, rows, pool, pendingTransactionsList>>,
         NEW info \in [DOMAIN query.data -> Versions], NEW t,
         \/ query' = [Advance(query) EXCEPT
              !.data = [i \in DOMAIN @ |-> Item(@[i].key, @[i].version, info[i])]]
         \/ query' = [Advance(query) EXCEPT
              !.data = [i \in DOMAIN @ |-> Item(@[i].key, @[i].version, info[i])], !.total = t]
  PROVE  QueryInv'
<1> DEFINE d == [i \in DOMAIN query.data |-> Item(query.data[i].key, query.data[i].version, info[i])]
<1>1. QueryTyped(query) /\ query.steps # << >> /\ query.data \in Seq(RowItem)
  BY AtStepFacts DEF AtStep
<1>2. Advance(query).data = query.data
  BY <1>1, AdvanceIs DEF QueryFields
<1>3. \/ query' = [Advance(query) EXCEPT !.data = d]
      \/ query' = [Advance(query) EXCEPT !.data = d, !.total = t]
  BY <1>2
<1>4. /\ d \in Seq(RowItem) /\ Len(d) = Len(query.data)
      /\ \A i \in 1..Len(d) : d[i].key = query.data[i].key /\ d[i].version = query.data[i].version
  <2>1. DOMAIN query.data = 1..Len(query.data) /\ \A i \in 1..Len(query.data) : query.data[i] \in RowItem
    BY <1>1
  <2>2. \A i \in 1..Len(query.data) :
          Item(query.data[i].key, query.data[i].version, info[i]) \in RowItem
    BY <2>1 DEF RowItem, Item
  <2> QED
    BY <1>1, <2>1, <2>2 DEF Item
<1> HIDE DEF d
<1>5. query.request.endpoint \notin TokenEndpoints \cup {"events"} =>
        \A i \in 1..Len(d) : Fitting(d[i], query)
  BY <1>4, AtStepFacts, AtStepOrdered DEF Fitting
<1> QED
  BY <1>3, <1>4, <1>5, ReadKeepsInv

LEMMA VersionOf ==
  ASSUME NEW table \in Tables, NEW k \in Key
  PROVE  table[k] \in Versions
  BY DEF Tables

LEMMA DataTyped ==
  ASSUME NEW d \in Seq(RowItem)
  PROVE  /\ DOMAIN d = 1..Len(d) /\ Len(d) \in Nat
         /\ \A i \in DOMAIN d : /\ d[i] \in RowItem
                                /\ d[i].key \in Key /\ d[i].version \in Versions
<1>1. DOMAIN d = 1..Len(d) /\ Len(d) \in Nat /\ \A i \in DOMAIN d : d[i] \in RowItem
  OBVIOUS
<1>2. \A x \in RowItem : x.key \in Key /\ x.version \in Versions
  BY DEF RowItem
<1> QED
  BY <1>1, <1>2

LEMMA FailKeepsInv ==
  ASSUME QueryInv, NEW step, AtStep(step), query' = Fail(query),
         UNCHANGED <<chain, rows, pool, pendingTransactionsList>>
  PROVE  QueryInv'
<1>1. TablesTyped /\ QueryTyped(query)
  BY DEF QueryInv
<1>2. /\ DOMAIN query' = QueryFields /\ query'.status = "failed" /\ query'.steps = << >>
      /\ \A f \in QueryFields \ {"steps", "status"} : query'[f] = query[f]
  BY <1>1 DEF Fail, QueryTyped, QueryFields
<1>3. (QueryTyped(query))'
  BY <1>1, <1>2 DEF QueryTyped, QueryFields, RequestTyped
<1>4. TablesTyped'
  BY <1>1 DEF TablesTyped
<1> QED
  BY <1>2, <1>3, <1>4 DEF QueryInv

LEMMA DetailsKeepInv ==
  ASSUME QueryInv, findDetails
  PROVE  QueryInv'
<1>1. /\ AtStep("details")
      /\ query' = [Advance(query) EXCEPT
           !.data = [i \in DOMAIN @ |-> Item(@[i].key, @[i].version, rows[@[i].key])]]
      /\ UNCHANGED <<chain, rows, pool, pendingTransactionsList>>
  BY DEF findDetails, QueryUnchanged
<1>2. rows \in Tables /\ QueryTyped(query) /\ query.data \in Seq(RowItem) /\ query.steps # << >>
  BY <1>1, AtStepFacts DEF AtStep
<1>3. Advance(query).data = query.data
  BY <1>2, AdvanceIs DEF QueryFields
<1> DEFINE info == [i \in DOMAIN query.data |-> rows[query.data[i].key]]
<1>4. \A i \in DOMAIN query.data : query.data[i].key \in Key
  BY <1>2, DataTyped
<1>5. info \in [DOMAIN query.data -> Versions]
  BY <1>2, <1>4, VersionOf
<1>6. query' = [Advance(query) EXCEPT
         !.data = [i \in DOMAIN @ |-> Item(@[i].key, @[i].version, info[i])]]
  BY <1>1, <1>3
<1> HIDE DEF info
<1> QED
  BY <1>1, <1>5, <1>6, LookUpKeepsInv

LEMMA OwnedKeepsInv ==
  ASSUME QueryInv, findOwned
  PROVE  QueryInv'
<1> DEFINE S == matching(rows, query.request)
<1>1. AtStep("findOwned") /\ UNCHANGED <<chain, rows, pool, pendingTransactionsList>>
  BY DEF findOwned, QueryUnchanged
<1>2. PICK found \in SUBSET S :
        query' = [Advance(query) EXCEPT !.data = Rows(rows, inOrder(found \cap Flagged, FALSE))]
  BY DEF findOwned
<1> DEFINE T == found \cap Flagged
           keys == inOrder(T, FALSE)
           d == Rows(rows, keys)
<1>3. T \in SUBSET Key /\ T \subseteq S
  BY MatchingKeys
<1>4. query' = [Advance(query) EXCEPT !.data = d]
  BY <1>2
<1> HIDE DEF T
<1>5. keys \in Seq(Key) /\ \A i \in 1..Len(keys) : keys[i] \in T
  BY <1>3, OrderedKeys
<1> HIDE DEF keys
<1>6. d \in Seq(RowItem) /\ \A i \in 1..Len(d) : Fitting(d[i], query)
  BY <1>1, <1>3, <1>5, AtStepFacts, ReadFits
<1> HIDE DEF d
<1> QED
  BY <1>1, <1>4, <1>6, ReadKeepsInv

\* What is read by its ID and found again, or all of it not.
LEMMA FoundAgainKeepsInv ==
  ASSUME QueryInv, findAudios \/ findSubscription
  PROVE  QueryInv'
<1> DEFINE none == << >>
<1>1. UNCHANGED <<chain, rows, pool, pendingTransactionsList>>
  BY DEF findAudios, findSubscription, QueryUnchanged
<1>2. CASE findAudios
  <2>1. AtStep("findAudios") /\ (query' = Advance(query) \/ query' = Fail(query))
    BY <1>2 DEF findAudios
  <2>2. CASE query' = Advance(query)
    BY <1>1, <2>1, <2>2, AtStepFacts, ReadKeepsInv
  <2>3. CASE query' = Fail(query)
    BY <1>1, <2>1, <2>3, FailKeepsInv
  <2> QED
    BY <2>1, <2>2, <2>3
<1>3. CASE findSubscription
  <2>1. AtStep("findSubscription")
    BY <1>3 DEF findSubscription
  <2>2. QueryTyped(query) /\ query.steps # << >>
    BY <2>1, AtStepFacts DEF AtStep
  <2>3. Advance(query).data = query.data
    BY <2>2, AdvanceIs DEF QueryFields
  <2>4. \/ query' = [Advance(query) EXCEPT !.data = query.data]
        \/ query' = [Advance(query) EXCEPT !.data = none]
    BY <1>3, <2>3 DEF findSubscription
  <2>5. none \in Seq(RowItem) /\ \A i \in 1..Len(none) : Fitting(none[i], query)
    OBVIOUS
  <2> HIDE DEF none
  <2>6. CASE query' = [Advance(query) EXCEPT !.data = query.data]
    <3> DEFINE d == query.data
    <3>1. d \in Seq(RowItem) /\ (query.request.endpoint \notin TokenEndpoints \cup {"events"} =>
                                   \A i \in 1..Len(d) : Fitting(d[i], query))
      BY <2>1, AtStepFacts
    <3>2. query' = [Advance(query) EXCEPT !.data = d]
      BY <2>6
    <3> HIDE DEF d
    <3> QED
      BY <1>1, <2>1, <3>1, <3>2, ReadKeepsInv
  <2>7. CASE query' = [Advance(query) EXCEPT !.data = none]
    BY <1>1, <2>1, <2>5, <2>7, ReadKeepsInv
  <2> QED
    BY <2>4, <2>6, <2>7
<1> QED
  BY <1>2, <1>3

LEMMA BlocksByIDsKeepInv ==
  ASSUME QueryInv, getBlocksByIDs
  PROVE  QueryInv'
<1> DEFINE all == \A i \in DOMAIN query.data : onChain(query.data[i])
           t == IF query.data = << >> THEN NoTotal ELSE query.total
           blocks == [i \in DOMAIN query.data |-> normalizeBlock(query.data[i].key, query.data[i].version)]
           info == [i \in DOMAIN query.data |->
                      IF rows[query.data[i].key] # 0 THEN rows[query.data[i].key]
                      ELSE chain[query.data[i].key]]
<1>1. AtStep("getBlocksByIDs") /\ UNCHANGED <<chain, rows, pool, pendingTransactionsList>>
  BY DEF getBlocksByIDs, QueryUnchanged
<1>2. /\ rows \in Tables /\ chain \in Tables /\ QueryTyped(query)
      /\ query.data \in Seq(RowItem) /\ query.steps # << >>
  BY <1>1, AtStepFacts DEF AtStep
<1>3. Advance(query).data = query.data /\ Advance(query).total = query.total
  BY <1>2, AdvanceIs DEF QueryFields
<1>4. query' = [Advance(query) EXCEPT !.data = IF all THEN blocks ELSE << >>, !.total = t]
  BY <1>3 DEF getBlocksByIDs
<1> HIDE DEF all, t
<1>5. CASE ~all
  <2>1. query' = [Advance(query) EXCEPT !.data = << >>, !.total = t]
    BY <1>4, <1>5
  <2> DEFINE d == << >>
  <2>2. d \in Seq(RowItem) /\ \A i \in 1..Len(d) : Fitting(d[i], query)
    OBVIOUS
  <2>3. query' = [Advance(query) EXCEPT !.data = d, !.total = t]
    BY <2>1
  <2> HIDE DEF d
  <2> QED
    BY <1>1, <2>2, <2>3, ReadKeepsInv
<1>6. CASE all
  <2>1. \A i \in DOMAIN query.data : query.data[i].key \in Key
    BY <1>2, DataTyped
  <2>2. info \in [DOMAIN query.data -> Versions]
    BY <1>2, <2>1, VersionOf
  <2>3. blocks = [i \in DOMAIN query.data |-> Item(query.data[i].key, query.data[i].version, info[i])]
    BY DEF normalizeBlock
  <2>4. query' = [Advance(query) EXCEPT !.data = blocks, !.total = t]
    BY <1>4, <1>6
  <2> HIDE DEF info, blocks
  <2>5. query' = [Advance(query) EXCEPT
           !.data = [i \in DOMAIN @ |-> Item(@[i].key, @[i].version, info[i])], !.total = t]
    BY <1>3, <2>3, <2>4
  <2> QED
    BY <1>1, <2>2, <2>5, LookUpKeepsInv
<1> QED
  BY <1>5, <1>6

\* The highest key of a set, or 0.
LEMMA HighestKey ==
  ASSUME NEW S \in SUBSET Key
  PROVE  /\ Max(S \cup {0}) \in S \cup {0}
         /\ \A k \in S : k <= Max(S \cup {0})
<1>1. IsFiniteSet(S) /\ S \in SUBSET Nat
  <2>1. IsFiniteSet(S)
    BY KeyFinite, FS_Subset
  <2>2. \A k \in S : k \in Nat
    BY KeyFinite
  <2> QED
    BY <2>1, <2>2
<1>2. IsFiniteSet(S \cup {0})
  BY <1>1, FS_AddElement
<1>3. S \cup {0} \in SUBSET Int /\ S \cup {0} # {}
  BY <1>1
<1> QED
  BY <1>2, <1>3, MaxOfSet

LEMMA BlockKeepsInv ==
  ASSUME QueryInv, getBlock
  PROVE  QueryInv'
<1> DEFINE r == query.request
           tip == Max({k \in Key : chain[k] # 0} \cup {0})
           k == IF r.id # NoID THEN r.id[1] ELSE IF r.height # 0 THEN r.height ELSE tip
           exists == k # 0 /\ chain[k] # 0 /\ (r.id # NoID => r.id[2] = chain[k])
           block == IF exists THEN <<normalizeBlock(k, chain[k])>> ELSE << >>
           d == IF isLatestBlockFetch(r) THEN block ELSE Page(block, r.offset, r.limit)
<1>1. /\ AtStep("getBlock") /\ query' = [Advance(query) EXCEPT !.data = d]
      /\ UNCHANGED <<chain, rows, pool, pendingTransactionsList>>
  BY DEF getBlock, QueryUnchanged
<1>2. /\ rows \in Tables /\ chain \in Tables /\ RequestTyped(r)
      /\ ~isQueryFromIndex(r)
      /\ Seen(chain, rows, r) \subseteq query.seen
      /\ r.offset \in Nat /\ r.limit \in Nat
  BY <1>1, AtStepFacts, AtStepOrdered DEF FitInv, RequestTyped
<1>3. tip \in Key \cup {0}
  BY HighestKey
<1> HIDE DEF tip, d
<1>4. k \in Key \cup {0}
  BY <1>2, <1>3 DEF RequestTyped
<1>5. block \in Seq(RowItem) /\ \A i \in 1..Len(block) : Fitting(block[i], query)
  <2>1. CASE ~exists
    <3>1. block = << >>
      BY <2>1
    <3> HIDE DEF block
    <3> QED
      BY <3>1
  <2>2. CASE exists
    <3>1. k \in Key
      BY <1>4, <2>2
    <3>2. Fits(k, chain[k], r)
      <4>1. r.owner = None /\ r.to = 0 /\ r.party = None
        BY <1>1, <1>2, AtStepOrdered DEF isQueryFromIndex, isDirectQuery, isLatestBlockFetch, RequestTyped
      <4>2. r.id # NoID => r.height = 0 /\ <<k, chain[k]>> = r.id
        BY <1>2, <2>2 DEF isQueryFromIndex, isDirectQuery, isLatestBlockFetch, RequestTyped, NoID
      <4>3. r.height # 0 => k = r.height
        BY <4>2
      <4> QED
        BY <2>2, <4>1, <4>2, <4>3 DEF Fits
    <3> HIDE DEF k
    <3>3. <<k, chain[k]>> \in query.seen
      BY <1>2, <3>1, <3>2 DEF Seen, matching
    <3> DEFINE x == normalizeBlock(k, chain[k])
    <3>4. x \in RowItem /\ x.key = k /\ x.version = chain[k]
      BY <1>2, <3>1, VersionOf DEF normalizeBlock, Item, RowItem
    <3> HIDE DEF x
    <3>5. Fitting(x, query)
      BY <3>3, <3>4 DEF Fitting
    <3>6. block = <<x>>
      BY <2>2 DEF x
    <3> QED
      BY <3>4, <3>5, <3>6
  <2> QED
    BY <2>1, <2>2
<1> HIDE DEF block
<1>6. d \in Seq(RowItem) /\ \A i \in 1..Len(d) : Fitting(d[i], query)
  BY <1>2, <1>5, PageFits DEF d
<1> QED
  BY <1>1, <1>6, ReadKeepsInv

LEMMA LastBlockKeepsInv ==
  ASSUME QueryInv, setLastBlock
  PROVE  QueryInv'
<1>1. AtStep("setLastBlock") /\ UNCHANGED <<chain, rows, pool, pendingTransactionsList>>
  BY DEF setLastBlock
<1>2. \E t : query' = [Advance(query) EXCEPT !.total = t]
  BY DEF setLastBlock
<1>3. PICK t : query' = [Advance(query) EXCEPT !.total = t]
  BY <1>2
<1> QED
  BY <1>1, <1>3, AtStepFacts, ReadKeepsInv

\* A transaction that is not indexed is the one of the ID asked for.
LEMMA TransactionsKeepInv ==
  ASSUME QueryInv, getTransactionsByIDs
  PROVE  QueryInv'
<1> DEFINE r == query.request
           found == Page(<<Item(r.id[1], r.id[2], 0)>>, query.offset, query.limit)
           none == << >>
<1>1. AtStep("getTransactionsByIDs") /\ UNCHANGED <<chain, rows, pool, pendingTransactionsList>>
  BY DEF getTransactionsByIDs, QueryUnchanged
<1>2. \/ query' = Fail(query)
      \/ query' = Advance(query)
      \/ query' = [Advance(query) EXCEPT !.data = none, !.total = 0]
      \/ r.id # NoID /\ query' = [Advance(query) EXCEPT !.data = found]
  BY DEF getTransactionsByIDs
<1>3. none \in Seq(RowItem) /\ \A i \in 1..Len(none) : Fitting(none[i], query)
  OBVIOUS
<1>4. ASSUME r.id # NoID
      PROVE  found \in Seq(RowItem) /\ \A i \in 1..Len(found) : Fitting(found[i], query)
  <2> DEFINE x == Item(r.id[1], r.id[2], 0)
             d == <<x>>
  <2>1. r.id \in Key \X Version
    BY <1>1, <1>4, AtStepFacts DEF RequestTyped
  <2>2. x \in RowItem /\ x.key = r.id[1] /\ x.version = r.id[2]
    BY <2>1 DEF Item, RowItem, Versions
  <2>3. <<r.id[1], r.id[2]>> = r.id
    BY <2>1
  <2> HIDE DEF x
  <2>4. Fitting(x, query)
    BY <1>1, <2>2, <2>3, AtStepOrdered DEF Fitting
  <2>5. d \in Seq(RowItem) /\ \A i \in 1..Len(d) : Fitting(d[i], query)
    BY <2>2, <2>4
  <2>6. found = Page(d, query.offset, query.limit)
    BY DEF x
  <2> HIDE DEF d, found
  <2>7. query.offset \in Nat /\ query.limit \in Nat
    BY <1>1, AtStepFacts
  <2> QED
    BY <2>5, <2>6, <2>7, PageFits
<1> HIDE DEF found, none
<1>5. CASE query' = Fail(query)
  BY <1>1, <1>5, FailKeepsInv
<1>6. CASE query' = Advance(query)
  BY <1>1, <1>6, AtStepFacts, ReadKeepsInv
<1>7. CASE query' = [Advance(query) EXCEPT !.data = none, !.total = 0]
  BY <1>1, <1>3, <1>7, ReadKeepsInv
<1>8. CASE r.id # NoID /\ query' = [Advance(query) EXCEPT !.data = found]
  BY <1>1, <1>4, <1>8, ReadKeepsInv
<1> QED
  BY <1>2, <1>5, <1>6, <1>7, <1>8

LEMMA BlockByIDsKeepsInv ==
  ASSUME QueryInv, getBlockByIDs
  PROVE  QueryInv'
<1>1. /\ AtStep("getBlockByIDs") /\ UNCHANGED <<chain, rows, pool, pendingTransactionsList>>
      /\ query' = Advance(query) \/ query' = Fail(query)
  BY DEF getBlockByIDs, QueryUnchanged
<1>2. CASE query' = Advance(query)
  BY <1>1, <1>2, AtStepFacts, ReadKeepsInv
<1>3. CASE query' = Fail(query)
  BY <1>1, <1>3, FailKeepsInv
<1> QED
  BY <1>1, <1>2, <1>3

LEMMA EventsKeepInv ==
  ASSUME QueryInv, getEventsByHeight
  PROVE  QueryInv'
<1>1. AtStep("getEventsByHeight") /\ UNCHANGED <<chain, rows, pool, pendingTransactionsList>>
  BY DEF getEventsByHeight, QueryUnchanged
<1>2. /\ rows \in Tables /\ chain \in Tables /\ QueryTyped(query)
      /\ query.data \in Seq(RowItem) /\ query.steps # << >>
      /\ query.request.endpoint = "events"
  BY <1>1, AtStepFacts, AtStepOrdered DEF AtStep
<1>3. Advance(query).data = query.data
  BY <1>2, AdvanceIs DEF QueryFields
<1> DEFINE event(i, cached) ==
             Item(query.data[i].key,
                  IF i \in cached THEN query.data[i].version ELSE chain[query.data[i].key],
                  rows[query.data[i].key])
<1>4. PICK cached \in SUBSET DOMAIN query.data :
        query' = [Advance(query) EXCEPT !.data = [i \in DOMAIN query.data |-> event(i, cached)]]
  BY <1>3 DEF getEventsByHeight
<1> DEFINE d == [i \in DOMAIN query.data |-> event(i, cached)]
<1>5. /\ DOMAIN query.data = 1..Len(query.data) /\ Len(query.data) \in Nat
      /\ \A i \in DOMAIN query.data : query.data[i].key \in Key /\ query.data[i].version \in Versions
  BY <1>2, DataTyped
<1>6. \A i \in DOMAIN query.data : event(i, cached) \in RowItem
  BY <1>2, <1>5, VersionOf DEF Item, RowItem
<1>7. d \in Seq(RowItem)
  <2> HIDE DEF event
  <2> QED
    BY <1>5, <1>6
<1> HIDE DEF d
<1>8. query' = [Advance(query) EXCEPT !.data = d]
  BY <1>4 DEF d
<1> QED
  BY <1>1, <1>2, <1>7, <1>8, ReadKeepsInv
-----------------------------------------------------------------------------
\* The lists that the node returns as a whole fit.
LEMMA NodeListsFit ==
  ASSUME QueryInv, NEW step, AtStep(step), NEW d \in {nodeList, flaggedList, filteredList}
  PROVE  d \in Seq(RowItem) /\ \A i \in 1..Len(d) : Fitting(d[i], query)
<1> DEFINE S == matching(chain, query.request)
<1>1. query.status = "running" /\ S \in SUBSET Key
  BY AtStepFacts, MatchingKeys
<1>2. ASSUME NEW T \in SUBSET S, d = Rows(chain, inOrder(T, FALSE))
      PROVE  d \in Seq(RowItem) /\ \A i \in 1..Len(d) : Fitting(d[i], query)
  <2> DEFINE keys == inOrder(T, FALSE)
  <2>1. T \in SUBSET Key
    BY <1>1
  <2>2. keys \in Seq(Key) /\ \A i \in 1..Len(keys) : keys[i] \in T
    BY <2>1, OrderedKeys
  <2> HIDE DEF keys
  <2>3. \A i \in 1..Len(keys) : keys[i] \in S
    BY <2>2
  <2>4. d = Rows(chain, keys)
    BY <1>2 DEF keys
  <2> QED
    BY <1>1, <2>2, <2>3, <2>4, ReadFits
<1>3. d = Rows(chain, inOrder(S, FALSE)) \/ d = Rows(chain, inOrder(S \cap Flagged, FALSE))
  BY DEF nodeList, flaggedList, filteredList
<1>4. S \in SUBSET S /\ S \cap Flagged \in SUBSET S
  OBVIOUS
<1> HIDE DEF S
<1> QED
  BY <1>2, <1>3, <1>4

LEMMA AnswerListKeepsInv ==
  ASSUME QueryInv, NEW step \in StepNames \ {"identify"}, NEW t,
         NEW d \in Seq(RowItem), \A i \in 1..Len(d) : Fitting(d[i], query),
         AnswerList(step, d, t)
  PROVE  QueryInv'
<1> DEFINE page == Page(d, query.offset, query.limit)
<1>1. /\ AtStep(step) /\ step # "identify"
      /\ UNCHANGED <<chain, rows, pool, pendingTransactionsList>>
      /\ query' = [Advance(query) EXCEPT !.data = page, !.total = t]
  BY DEF AnswerList, QueryUnchanged
<1>2. query.offset \in Nat /\ query.limit \in Nat
  BY <1>1, AtStepFacts
<1>3. page \in Seq(RowItem) /\ \A i \in 1..Len(page) : Fitting(page[i], query)
  BY <1>2, PageFits
<1> HIDE DEF page
<1> QED
  BY <1>1, <1>3, ReadKeepsInv

LEMMA ListsKeepInv ==
  ASSUME QueryInv, list \/ listFlagged \/ listFirst \/ listPeers \/ listGenerators \/ listAll
  PROVE  QueryInv'
<1>1. CASE list
  <2>1. AtStep("list")
    BY <1>1 DEF list, AnswerList
  <2> QED
    BY <1>1, <2>1, NodeListsFit, AnswerListKeepsInv DEF list, StepNames
<1>2. CASE listFlagged
  <2>1. AtStep("listFlagged")
    BY <1>2 DEF listFlagged, AnswerList
  <2> QED
    BY <1>2, <2>1, NodeListsFit, AnswerListKeepsInv DEF listFlagged, StepNames
<1>3. CASE listFirst
  <2>1. AtStep("listFirst")
    BY <1>3 DEF listFirst, AnswerList
  <2> DEFINE first == Page(nodeList, 0, 1)
  <2>2. first \in Seq(RowItem) /\ \A i \in 1..Len(first) : Fitting(first[i], query)
    BY <2>1, NodeListsFit, PageFits
  <2>3. AnswerList("listFirst", first, Len(first))
    BY <1>3 DEF listFirst
  <2> HIDE DEF first
  <2> QED
    BY <2>2, <2>3, AnswerListKeepsInv DEF StepNames
<1>4. CASE listPeers
  <2>1. AtStep("listPeers")
    BY <1>4 DEF listPeers, AnswerList
  <2> QED
    BY <1>4, <2>1, NodeListsFit, AnswerListKeepsInv DEF listPeers, StepNames
<1>5. CASE listGenerators
  <2>1. AtStep("listGenerators")
    BY <1>5 DEF listGenerators, AnswerList
  <2> QED
    BY <1>5, <2>1, NodeListsFit, AnswerListKeepsInv DEF listGenerators, StepNames
<1>6. CASE listAll
  <2>1. /\ AtStep("listAll") /\ query' = [Advance(query) EXCEPT !.data = filteredList]
        /\ UNCHANGED <<chain, rows, pool, pendingTransactionsList>>
    BY <1>6 DEF listAll, QueryUnchanged
  <2> QED
    BY <2>1, NodeListsFit, ReadKeepsInv
<1> QED
  BY <1>1, <1>2, <1>3, <1>4, <1>5, <1>6
-----------------------------------------------------------------------------
LEMMA AppsFit ==
  ASSUME QueryInv, NEW step, AtStep(step), NEW default \in BOOLEAN
  PROVE  /\ findApps(default) \in Seq(RowItem)
         /\ \A i \in 1..Len(findApps(default)) : Fitting(findApps(default)[i], query)
<1> DEFINE S == {k \in matching(rows, query.request) : (k \in Flagged) = default}
           n == query.limit * numNetworks
           keys == Page(inOrder(S, query.request.desc), query.offset, n)
<1>1. /\ query.status = "running" /\ query.request.desc \in BOOLEAN
      /\ query.offset \in Nat /\ query.limit \in Nat
  BY AtStepFacts
<1>2. n \in Nat
  BY <1>1, QueriesAssumption
<1>3. S \in SUBSET Key /\ \A k \in S : k \in matching(rows, query.request)
  BY MatchingKeys
<1>4. findApps(default) = Rows(rows, keys)
  BY DEF findApps
<1> HIDE DEF S, n
<1>5. keys \in Seq(Key) /\ \A i \in 1..Len(keys) : keys[i] \in S
  BY <1>1, <1>2, <1>3, PageOfKeys
<1> HIDE DEF keys
<1> QED
  BY <1>1, <1>3, <1>4, <1>5, ReadFits

LEMMA AppsKeepInv ==
  ASSUME QueryInv, findDefaults \/ findOthers \/ slice
  PROVE  QueryInv'
<1>1. CASE findDefaults
  <2>1. /\ AtStep("findDefaults") /\ query' = [Advance(query) EXCEPT !.data = findApps(TRUE)]
        /\ UNCHANGED <<chain, rows, pool, pendingTransactionsList>>
    BY <1>1 DEF findDefaults, QueryUnchanged
  <2> QED
    BY <2>1, AppsFit, ReadKeepsInv
<1>2. CASE findOthers
  <2> DEFINE both == query.data \o findApps(FALSE)
             none == << >>
  <2>1. AtStep("findOthers") /\ UNCHANGED <<chain, rows, pool, pendingTransactionsList>>
    BY <1>2 DEF findOthers, QueryUnchanged
  <2>2. /\ QueryTyped(query) /\ query.steps # << >> /\ query.data \in Seq(RowItem)
        /\ query.request.endpoint \notin TokenEndpoints \cup {"events"} =>
             \A i \in 1..Len(query.data) : Fitting(query.data[i], query)
    BY <2>1, AtStepFacts DEF AtStep
  <2>3. Advance(query).data = query.data
    BY <2>2, AdvanceIs DEF QueryFields
  <2>4. \/ query' = [Advance(query) EXCEPT !.data = both]
        \/ query' = [Advance(query) EXCEPT !.data = none]
        \/ query' = [Advance(query) EXCEPT !.data = query.data]
    BY <1>2, <2>3 DEF findOthers
  <2> DEFINE b == findApps(FALSE)
  <2>5. b \in Seq(RowItem) /\ \A i \in 1..Len(b) : Fitting(b[i], query)
    BY <2>1, AppsFit
  <2>12. both = query.data \o b
    OBVIOUS
  <2> HIDE DEF b, both
  <2>6. /\ both \in Seq(RowItem)
        /\ \A i \in 1..Len(both) :
             \/ i \in 1..Len(query.data) /\ both[i] = query.data[i]
             \/ i - Len(query.data) \in 1..Len(b) /\ both[i] = b[i - Len(query.data)]
    BY <2>2, <2>5, <2>12, ConcatIs
  <2>7. query.request.endpoint \notin TokenEndpoints \cup {"events"} =>
          \A i \in 1..Len(both) : Fitting(both[i], query)
    BY <2>2, <2>5, <2>6
  <2>8. none \in Seq(RowItem) /\ \A i \in 1..Len(none) : Fitting(none[i], query)
    OBVIOUS
  <2> HIDE DEF none
  <2>9. CASE query' = [Advance(query) EXCEPT !.data = both]
    BY <2>1, <2>6, <2>7, <2>9, ReadKeepsInv
  <2>10. CASE query' = [Advance(query) EXCEPT !.data = none]
    BY <2>1, <2>8, <2>10, ReadKeepsInv
  <2>11. CASE query' = [Advance(query) EXCEPT !.data = query.data]
    BY <2>1, <2>2, <2>11, ReadKeepsInv
  <2> QED
    BY <2>4, <2>9, <2>10, <2>11
<1>3. CASE slice
  <2> DEFINE page == Page(query.data, query.offset, query.limit)
  <2>1. AtStep("slice") /\ UNCHANGED <<chain, rows, pool, pendingTransactionsList>>
    BY <1>3 DEF slice, QueryUnchanged
  <2>2. /\ QueryTyped(query) /\ query.steps # << >> /\ query.data \in Seq(RowItem)
        /\ query.offset \in Nat /\ query.limit \in Nat
        /\ query.request.endpoint \notin TokenEndpoints \cup {"events"} =>
             \A i \in 1..Len(query.data) : Fitting(query.data[i], query)
    BY <2>1, AtStepFacts DEF AtStep
  <2>3. Advance(query).data = query.data
    BY <2>2, AdvanceIs DEF QueryFields
  <2>4. query' = [Advance(query) EXCEPT !.data = page]
    BY <1>3, <2>3 DEF slice
  <2>5. /\ page \in Seq(RowItem)
        /\ (\A i \in 1..Len(query.data) : Fitting(query.data[i], query)) =>
             \A i \in 1..Len(page) : Fitting(page[i], query)
    BY <2>2, PageFits
  <2> HIDE DEF page
  <2> QED
    BY <2>1, <2>2, <2>4, <2>5, ReadKeepsInv
<1> QED
  BY <1>1, <1>2, <1>3

\* The tokens of a chain.
LEMMA TokensTyped ==
  ASSUME rows \in Tables, NEW x
  PROVE  tokensOf(x) \in Seq(RowItem)
<1> DEFINE S == {k \in Key : rows[k] # 0 /\ Owner[<<k, rows[k]>>] = Owner[<<x.key, x.version>>]}
<1>1. S \in SUBSET Key
  OBVIOUS
<1>2. tokensOf(x) = Rows(rows, inOrder(S, FALSE))
  BY DEF tokensOf
<1> HIDE DEF S
<1>3. inOrder(S, FALSE) \in Seq(Key)
  BY <1>1, OrderedKeys
<1> QED
  BY <1>2, <1>3, RowsAre

\* The positions of a sequence, or some of them, in order.
LEMMA OrderedPositions ==
  ASSUME NEW n \in Nat, NEW S \in SUBSET (1..n)
  PROVE  /\ inOrder(S, FALSE) \in Seq(S)
         /\ \A k \in S : \E i \in 1..Len(inOrder(S, FALSE)) : inOrder(S, FALSE)[i] = k
<1>0. 1 \in Int /\ n \in Int
  OBVIOUS
<1>1. IsFiniteSet(1..n)
  BY <1>0, FS_Interval
<1>2. IsFiniteSet(S)
  BY <1>1, FS_Subset
<1>3. S \in SUBSET Int
  OBVIOUS
<1> DEFINE s == inOrder(S, FALSE)
<1>4. s \in Seq(S) /\ \A k \in S : \E i \in DOMAIN s : s[i] = k
  BY <1>2, <1>3, InOrder
<1> HIDE DEF s
<1>5. DOMAIN s = 1..Len(s)
  BY <1>4
<1> QED
  BY <1>4, <1>5 DEF s

LEMMA TokensKeepInv ==
  ASSUME QueryInv, allOfChains \/ allOfEntries
  PROVE  QueryInv'
<1>1. CASE allOfChains
  <2> DEFINE ownerOf(x) == Owner[<<x.key, x.version>>]
             S == {i \in DOMAIN query.data : \A y \in Range(query.data) :
                     ownerOf(y) = ownerOf(query.data[i]) => y.key <= query.data[i].key}
             chains == inOrder(S, FALSE)
             ss == [i \in DOMAIN chains |-> tokensOf(query.data[chains[i]])]
             d == FlattenSeq(ss)
  <2>1. AtStep("allOfChains") /\ UNCHANGED <<chain, rows, pool, pendingTransactionsList>>
    BY <1>1 DEF allOfChains, QueryUnchanged
  <2>2. /\ QueryTyped(query) /\ query.steps # << >> /\ query.data \in Seq(RowItem)
        /\ rows \in Tables /\ query.request.endpoint \in TokenEndpoints
    BY <2>1, AtStepFacts, AtStepOrdered DEF AtStep
  <2>3. Advance(query).data = query.data
    BY <2>2, AdvanceIs DEF QueryFields
  <2>4. query' = [Advance(query) EXCEPT !.data = d]
    BY <1>1, <2>3 DEF allOfChains
  <2>5. Len(query.data) \in Nat /\ S \in SUBSET (1..Len(query.data))
    BY <2>2
  <2> HIDE DEF S
  <2>6. chains \in Seq(S)
    BY <2>5, OrderedPositions
  <2> HIDE DEF chains
  <2>7. ss \in Seq(Seq(RowItem))
    <3>1. DOMAIN chains = 1..Len(chains) /\ Len(chains) \in Nat
      BY <2>6
    <3>2. \A i \in DOMAIN chains : tokensOf(query.data[chains[i]]) \in Seq(RowItem)
      BY <2>2, TokensTyped
    <3> QED
      BY <3>1, <3>2
  <2> HIDE DEF ss
  <2>8. d \in Seq(RowItem)
    BY <2>7, FlattenIs DEF Joined
  <2> HIDE DEF d
  <2> QED
    BY <2>1, <2>2, <2>4, <2>8, ReadKeepsInv
<1>2. CASE allOfEntries
  <2> DEFINE ss == [i \in DOMAIN query.data |-> tokensOf(query.data[i])]
             d == FlattenSeq(ss)
  <2>1. AtStep("allOfEntries") /\ UNCHANGED <<chain, rows, pool, pendingTransactionsList>>
    BY <1>2 DEF allOfEntries, QueryUnchanged
  <2>2. /\ QueryTyped(query) /\ query.steps # << >> /\ query.data \in Seq(RowItem)
        /\ rows \in Tables /\ query.request.endpoint \in TokenEndpoints
    BY <2>1, AtStepFacts, AtStepOrdered DEF AtStep
  <2>3. Advance(query).data = query.data
    BY <2>2, AdvanceIs DEF QueryFields
  <2>4. query' = [Advance(query) EXCEPT !.data = d]
    BY <1>2, <2>3 DEF allOfEntries
  <2>5. ss \in Seq(Seq(RowItem))
    <3>1. DOMAIN query.data = 1..Len(query.data) /\ Len(query.data) \in Nat
      BY <2>2, DataTyped
    <3>2. \A i \in DOMAIN query.data : tokensOf(query.data[i]) \in Seq(RowItem)
      BY <2>2, TokensTyped
    <3> QED
      BY <3>1, <3>2
  <2> HIDE DEF ss
  <2>6. d \in Seq(RowItem)
    BY <2>5, FlattenIs DEF Joined
  <2> HIDE DEF d
  <2> QED
    BY <2>1, <2>2, <2>4, <2>6, ReadKeepsInv
<1> QED
  BY <1>1, <1>2
-----------------------------------------------------------------------------
\* The keys of a set in the order of the pool.
LEMMA PoolOrdered ==
  ASSUME NEW S \in SUBSET Key
  PROVE  /\ inPoolOrder(S) \in Seq(Key)
         /\ \A i \in 1..Len(inPoolOrder(S)) : inPoolOrder(S)[i] \in S
<1> DEFINE T == {i \in DOMAIN poolOrder : poolOrder[i] \in S}
           places == inOrder(T, FALSE)
<1>1. Len(poolOrder) \in Nat /\ DOMAIN poolOrder = 1..Len(poolOrder)
  BY QueriesAssumption
<1>2. T \in SUBSET Int /\ IsFiniteSet(T)
  <2>1. IsFiniteSet(1..Len(poolOrder))
    BY <1>1, FS_Interval
  <2> QED
    BY <1>1, <2>1, FS_Subset
<1>3. places \in Seq(T)
  BY <1>2, InOrder
<1>4. inPoolOrder(S) = [i \in DOMAIN places |-> poolOrder[places[i]]]
  BY DEF inPoolOrder
<1> HIDE DEF places
<1>5. \A t \in T : poolOrder[t] \in S
  OBVIOUS
<1> HIDE DEF T
<1>6. DOMAIN places = 1..Len(places) /\ Len(places) \in Nat /\ \A i \in 1..Len(places) : places[i] \in T
  BY <1>3
<1>7. \A i \in 1..Len(places) : poolOrder[places[i]] \in S /\ poolOrder[places[i]] \in Key
  BY <1>5, <1>6
<1> QED
  BY <1>4, <1>6, <1>7

LEMMA PendingKeepsInv ==
  ASSUME QueryInv, getPending \/ merge
  PROVE  QueryInv'
<1>1. CASE getPending
  <2> DEFINE r == query.request
             keys == pendingOf(pendingTransactionsList, r)
             ordered == inPoolOrder(keys)
             total == Len(ordered)
             page == Page(ordered, r.offset, r.limit)
             pending == [i \in DOMAIN page |-> Item(page[i], 1, 0)]
             limit == Max({1, r.limit - (total - Len(page))})
             offset == Max({0, r.offset - total})
             a == Advance(query)
  <2>1. AtStep("getPending") /\ UNCHANGED <<chain, rows, pool, pendingTransactionsList>>
    BY <1>1 DEF getPending, QueryUnchanged
  <2>2. query' = [a EXCEPT !.pending = pending, !.pendingTotal = total, !.limit = limit, !.offset = offset]
    BY <1>1 DEF getPending
  <2>3. /\ QueryTyped(query) /\ query.steps # << >> /\ query.status = "running"
        /\ pendingTransactionsList \in SUBSET Key
        /\ r.desc \in BOOLEAN /\ r.offset \in Nat /\ r.limit \in Nat \ {0}
        /\ query.request.endpoint \notin TokenEndpoints \cup {"events"} =>
             \A i \in 1..Len(query.data) : Fitting(query.data[i], query)
    BY <2>1, AtStepFacts DEF AtStep, RequestTyped
  <2>4. keys \in SUBSET Key /\ \A k \in keys : FitsPending(Item(k, 1, 0), r)
    BY <2>3 DEF pendingOf, FitsPending, Item
  <2> HIDE DEF keys
  <2>0. ordered \in Seq(Key) /\ \A i \in 1..Len(ordered) : ordered[i] \in keys
    BY <2>4, PoolOrdered
  <2> HIDE DEF ordered
  <2>5. /\ page \in Seq(Key)
        /\ \A i \in 1..Len(page) : page[i] \in keys
    <3>0. r.offset \in Nat /\ r.limit \in Nat /\ ordered \in Seq(Key)
      BY <2>0, <2>3
    <3> HIDE DEF r
    <3>1. /\ page \in Seq(Key)
          /\ \A i \in 1..Len(page) : r.offset + i \in 1..Len(ordered) /\ page[i] = ordered[r.offset + i]
      BY <3>0, PageIs
    <3> HIDE DEF page
    <3> QED
      BY <2>0, <3>1
  <2> HIDE DEF page
  <2>6. total \in Nat
    BY <2>0
  <2> HIDE DEF total
  <2>7. limit \in Nat \ {0} /\ offset \in Nat
    <3>1. Len(page) \in Nat
      BY <2>5
    <3>2. r.limit - (total - Len(page)) \in Int /\ r.offset - total \in Int
      BY <2>3, <2>6, <3>1
    <3>3. \A x \in Int : /\ Max({1, x}) >= 1 /\ Max({1, x}) \in Int
                         /\ Max({0, x}) >= 0 /\ Max({0, x}) \in Int
      <4> TAKE x \in Int
      <4>1. Max({1, x}) = IF 1 <= x THEN x ELSE 1
        BY OfTwo
      <4>2. Max({0, x}) = IF 0 <= x THEN x ELSE 0
        BY OfTwo
      <4> QED
        BY <4>1, <4>2
    <3>4. limit >= 1 /\ limit \in Int /\ offset >= 0 /\ offset \in Int
      BY <3>2, <3>3, Zenon
    <3> QED
      BY <3>4
  <2>8. pending \in Seq(RowItem) /\ \A i \in 1..Len(pending) : FitsPending(pending[i], r)
    <3>1. \A k \in Key : Item(k, 1, 0) \in RowItem
      BY QueriesAssumption DEF Item, RowItem, Versions
    <3>2. DOMAIN page = 1..Len(page) /\ Len(page) \in Nat /\ \A i \in 1..Len(page) : page[i] \in Key
      BY <2>5
    <3>3. pending \in Seq(RowItem) /\ Len(pending) = Len(page)
      BY <3>1, <3>2
    <3>4. \A i \in 1..Len(page) : pending[i] = Item(page[i], 1, 0)
      BY <3>2
    <3> HIDE DEF pending
    <3> QED
      BY <2>4, <2>5, <3>3, <3>4
  <2>9. /\ QueryTyped(a)
        /\ \A f \in QueryFields \ {"steps", "status"} : a[f] = query[f]
        /\ a.steps = Tail(query.steps) /\ a.status \in {"answered", "running"}
        /\ a.status = "answered" => a.steps = << >>
    BY <2>3, AdvanceIs
  <2> HIDE DEF a, pending, limit, offset
  <2>10. /\ DOMAIN query' = QueryFields
         /\ \A f \in QueryFields \ {"pending", "pendingTotal", "limit", "offset"} : query'[f] = a[f]
         /\ query'.pending = pending /\ query'.pendingTotal = total
         /\ query'.limit = limit /\ query'.offset = offset
    BY <2>2, <2>9 DEF QueryTyped, QueryFields
  <2>11. /\ \A f \in {"request", "about", "seen", "quiet"} : query'[f] = query[f]
         /\ query'.steps = Tail(query.steps) /\ query'.status \in {"running", "answered"}
         /\ query'.status = "answered" => query'.steps = << >>
         /\ query'.data = query.data /\ query'.data \in Seq(RowItem)
    BY <2>9, <2>10 DEF QueryFields, QueryTyped
  <2> QED
    BY <2>1, <2>3, <2>6, <2>7, <2>8, <2>10, <2>11, StepKeepsInv
<1>2. CASE merge
  <2> DEFINE r == query.request
             both == query.pending \o query.data
             page == Page(both, 0, r.limit)
             d == IF Len(query.pending) = r.limit THEN query.pending ELSE page
             t == query.total + query.pendingTotal
  <2>1. AtStep("merge") /\ UNCHANGED <<chain, rows, pool, pendingTransactionsList>>
    BY <1>2 DEF merge, QueryUnchanged
  <2>2. /\ QueryTyped(query) /\ query.steps # << >> /\ FitInv(query)
        /\ query.data \in Seq(RowItem) /\ query.pending \in Seq(RowItem) /\ r.limit \in Nat
        /\ query.request.endpoint \notin TokenEndpoints \cup {"events"} =>
             \A i \in 1..Len(query.data) : Fitting(query.data[i], query)
    BY <2>1, AtStepFacts DEF AtStep, RequestTyped
  <2>3. Advance(query).data = query.data /\ Advance(query).total = query.total
    BY <2>2, AdvanceIs DEF QueryFields
  <2>4. query' = [Advance(query) EXCEPT !.data = d, !.total = t]
    BY <1>2, <2>3 DEF merge
  <2>5. \A i \in 1..Len(query.pending) : Fitting(query.pending[i], query)
    BY <2>1, <2>2, AtStepOrdered DEF FitInv, Fitting
  <2>6. /\ both \in Seq(RowItem)
        /\ \A i \in 1..Len(both) :
             \/ i \in 1..Len(query.pending) /\ both[i] = query.pending[i]
             \/ i - Len(query.pending) \in 1..Len(query.data)
                /\ both[i] = query.data[i - Len(query.pending)]
    <3> DEFINE p == query.pending
               e == query.data
    <3>1. p \in Seq(RowItem) /\ e \in Seq(RowItem)
      BY <2>2
    <3> HIDE DEF p, e
    <3>2. /\ p \o e \in Seq(RowItem)
          /\ \A i \in 1..Len(p \o e) :
               \/ i \in 1..Len(p) /\ (p \o e)[i] = p[i]
               \/ i - Len(p) \in 1..Len(e) /\ (p \o e)[i] = e[i - Len(p)]
      BY <3>1, ConcatIs
    <3> QED
      BY <3>2 DEF p, e
  <2> HIDE DEF both
  <2>7. query.request.endpoint \notin TokenEndpoints \cup {"events"} =>
          \A i \in 1..Len(both) : Fitting(both[i], query)
    BY <2>2, <2>5, <2>6
  <2>8. /\ page \in Seq(RowItem)
        /\ (\A i \in 1..Len(both) : Fitting(both[i], query)) =>
             \A i \in 1..Len(page) : Fitting(page[i], query)
    BY <2>2, <2>6, PageFits
  <2> HIDE DEF page
  <2>9. /\ d \in Seq(RowItem)
        /\ query.request.endpoint \notin TokenEndpoints \cup {"events"} =>
             \A i \in 1..Len(d) : Fitting(d[i], query)
    BY <2>2, <2>5, <2>7, <2>8
  <2> HIDE DEF d, t
  <2> QED
    BY <2>1, <2>4, <2>9, ReadKeepsInv
<1> QED
  BY <1>1, <1>2

LEMMA AccountTyped ==
  ASSUME NEW r, RequestTyped(r)
  PROVE  accountOf(r) \in Account \cup {None}
<1> DEFINE id == r.identity
<1>1. /\ byName(id) \in Account \cup {None}
      /\ id.address \in Account \cup {None} /\ id.publicKey \in Account \cup {None}
  BY DEF byName, RequestTyped
<1>2. addressFirst(id) \in Account \cup {None} /\ unlocksOf(id) \in Account \cup {None}
  BY <1>1 DEF addressFirst, unlocksOf
<1>3. stakersOf(id) \in Account \cup {None}
  <2> DEFINE named == IF id.name # None THEN {byName(id)} ELSE {}
             keyed == IF id.publicKey # None THEN {id.publicKey} ELSE {}
             addressed == IF id.address # None THEN {id.address} ELSE {}
             all == named \cup keyed \cup addressed
  <2>1. all \subseteq Account \cup {None}
    BY <1>1
  <2>2. stakersOf(id) = IF Cardinality(all) = 1 THEN CHOOSE a \in all : TRUE ELSE None
    BY DEF stakersOf
  <2>3. IsFiniteSet(all)
    <3>1. IsFiniteSet(named) /\ IsFiniteSet(keyed) /\ IsFiniteSet(addressed)
      BY FS_EmptySet, FS_Singleton
    <3> HIDE DEF named, keyed, addressed
    <3> QED
      BY <3>1, FS_Union
  <2> HIDE DEF all
  <2>4. Cardinality(all) = 1 => all # {}
    BY <2>3, FS_EmptySet
  <2> QED
    BY <2>1, <2>2, <2>4
<1> QED
  BY <1>2, <1>3 DEF accountOf

\* Whom a request is about is one of those it names.
LEMMA AccountNamed ==
  ASSUME NEW r, RequestTyped(r), NEW named,
         named = {a \in {r.identity.address, r.identity.publicKey, r.identity.name} : a \in Account}
  PROVE  /\ accountOf(r) # None => accountOf(r) \in named
         /\ r.endpoint = "stakers" /\ accountOf(r) # None => named = {accountOf(r)}
         /\ r.identity.name \in Account \cup {None} /\ Cardinality(named) = 1 => accountOf(r) # None
<1> DEFINE id == r.identity
           byNames == IF id.name # None THEN {byName(id)} ELSE {}
           keyed == IF id.publicKey # None THEN {id.publicKey} ELSE {}
           addressed == IF id.address # None THEN {id.address} ELSE {}
           all == byNames \cup keyed \cup addressed
<1>1. /\ id.address \in Account \cup {None} /\ id.publicKey \in Account \cup {None}
      /\ None \notin Account
      /\ byName(id) = IF id.name \in Account THEN id.name ELSE None
  BY QueriesAssumption DEF byName, RequestTyped
<1>2. stakersOf(id) = IF Cardinality(all) = 1 THEN CHOOSE a \in all : TRUE ELSE None
  BY DEF stakersOf
<1>3. IsFiniteSet(all) /\ IsFiniteSet(named)
  <2>1. IsFiniteSet(byNames) /\ IsFiniteSet(keyed) /\ IsFiniteSet(addressed)
    BY FS_EmptySet, FS_Singleton
  <2>2. IsFiniteSet({id.address, id.publicKey, id.name})
    <3>1. {id.address, id.publicKey, id.name} = ({id.address} \cup {id.publicKey}) \cup {id.name}
      OBVIOUS
    <3>2. IsFiniteSet({id.address}) /\ IsFiniteSet({id.publicKey}) /\ IsFiniteSet({id.name})
      BY FS_Singleton
    <3>3. IsFiniteSet({id.address} \cup {id.publicKey})
      BY <3>2, FS_Union, ZenonT(40)
    <3> QED
      BY <3>1, <3>2, <3>3, FS_Union, ZenonT(40)
  <2>3. named \subseteq {id.address, id.publicKey, id.name}
    OBVIOUS
  <2> HIDE DEF byNames, keyed, addressed
  <2> QED
    BY <2>1, <2>2, <2>3, FS_Union, FS_Subset
<1>4. None \notin all => all = named
  BY <1>1
<1>5. id.name \in Account \cup {None} => all = named
  BY <1>1
<1>6. all \subseteq Account \cup {None} /\ named \subseteq Account
  BY <1>1
<1> HIDE DEF all
<1>7. Cardinality(all) = 1 => \E x : all = {x}
  BY <1>3, FS_Singleton
<1>8. stakersOf(id) # None => named = {stakersOf(id)}
  <2> SUFFICES ASSUME stakersOf(id) # None PROVE named = {stakersOf(id)}
    OBVIOUS
  <2>1. Cardinality(all) = 1 /\ stakersOf(id) = CHOOSE a \in all : TRUE
    BY <1>2
  <2>2. PICK x : all = {x}
    BY <1>7, <2>1
  <2>3. stakersOf(id) = x
    BY <2>1, <2>2
  <2> QED
    BY <1>4, <2>2, <2>3
<1>9. id.name \in Account \cup {None} /\ Cardinality(named) = 1 => stakersOf(id) # None
  <2> SUFFICES ASSUME id.name \in Account \cup {None}, Cardinality(named) = 1
               PROVE  stakersOf(id) # None
    OBVIOUS
  <2>1. Cardinality(all) = 1 /\ all = named
    BY <1>5
  <2>2. stakersOf(id) \in all
    BY <1>2, <1>7, <2>1
  <2> QED
    BY <1>1, <1>6, <2>1, <2>2
<1>10. Cardinality(named) = 1 => named # {}
  BY <1>3, FS_EmptySet
<1>11. /\ addressFirst(id) # None => addressFirst(id) \in named
       /\ unlocksOf(id) # None => unlocksOf(id) \in named
  BY <1>1 DEF addressFirst, unlocksOf
<1>12. id.name \in Account \cup {None} /\ named # {} => addressFirst(id) # None /\ unlocksOf(id) # None
  BY <1>1 DEF addressFirst, unlocksOf
<1> QED
  BY <1>8, <1>9, <1>10, <1>11, <1>12 DEF accountOf

LEMMA SameSteps ==
  ASSUME NEW r, RequestTyped(r), r.endpoint \in Identified, NEW a, NEW p, p = [r EXCEPT !.owner = a]
  PROVE  Steps(p) = Steps(r) /\ accountOf(p) = accountOf(r) /\ p.endpoint = r.endpoint
<1>1. p.endpoint = r.endpoint /\ p.identity = r.identity
  BY DEF RequestTyped, RequestFields
<1>2. \A q : /\ q.endpoint = "stakers" => Steps(q) = getStakers
             /\ q.endpoint = "stakes" => Steps(q) = getStakes
             /\ q.endpoint = "unlocks" => Steps(q) = getPosUnlocks
             /\ q.endpoint = "claimable" => Steps(q) = getPosClaimableRewards
             /\ q.endpoint = "locked" => Steps(q) = getPosLockedRewards
             /\ q.endpoint = "hasAccount" => Steps(q) = tokenHasUserAccount
  BY DEF Steps
<1> QED
  BY <1>1, <1>2 DEF accountOf, Identified

LEMMA IdentifyKeepsInv ==
  ASSUME QueryInv, identify
  PROVE  QueryInv'
<1> DEFINE r == query.request
           a == accountOf(r)
           o == [r EXCEPT !.owner = a]
           adv == Advance(query)
<1>1. AtStep("identify") /\ UNCHANGED <<chain, rows, pool, pendingTransactionsList>>
  BY DEF identify, QueryUnchanged
<1>2. /\ query.status = "running" /\ query.steps # << >> /\ Head(query.steps) = "identify"
      /\ QueryTyped(query) /\ RequestTyped(r) /\ r.endpoint \in Endpoints
      /\ StepsLeft(query) /\ FitInv(query) /\ IdentityInv(query) /\ TablesTyped
  BY <1>1, AtStepFacts DEF AtStep, QueryInv
<1>3. r.endpoint \in Identified /\ query.about = None /\ query.data = << >>
  BY <1>1, <1>2, AtStepOrdered DEF IdentityInv
<1>4. /\ QueryTyped(adv)
      /\ \A f \in QueryFields \ {"steps", "status"} : adv[f] = query[f]
      /\ adv.steps = Tail(query.steps) /\ adv.status \in {"answered", "running"}
      /\ adv.status = "answered" => adv.steps = << >>
  BY <1>2, AdvanceIs
<1>5. TablesTyped'
  BY <1>1, <1>2 DEF TablesTyped
<1>6. CASE a # None
  <2>1. query' = [adv EXCEPT !.about = a, !.request.owner = a, !.seen = Seen(chain, rows, o)]
    BY <1>6 DEF identify
  <2>2. Steps(o) = Steps(r) /\ accountOf(o) = a /\ o.endpoint = r.endpoint
    BY <1>2, <1>3, SameSteps
  <2>3. a \in Account \cup {None}
    BY <1>2, AccountTyped
  <2> HIDE DEF a, adv
  <2>4. RequestTyped(o)
    BY <1>2, <2>3 DEF RequestTyped, RequestFields
  <2>5. adv.request = r
    BY <1>4 DEF QueryFields
  <2>6. /\ DOMAIN query' = QueryFields /\ query'.request = o /\ query'.about = a
        /\ query'.seen = Seen(chain, rows, o)
        /\ \A f \in QueryFields \ {"request", "about", "seen"} : query'[f] = adv[f]
    BY <1>4, <2>1, <2>5 DEF QueryTyped, QueryFields
  <2> HIDE DEF o
  <2>7. /\ query'.steps = Tail(query.steps) /\ query'.steps = adv.steps /\ query'.status = adv.status
        /\ query'.data = << >> /\ query'.pending = query.pending
    BY <1>3, <1>4, <2>6 DEF QueryFields
  <2>8. (QueryTyped(query))'
    BY <1>4, <2>4, <2>6 DEF QueryTyped, QueryFields, RequestTyped
  <2> DEFINE p == query'
  <2>9. StepsLeft(p) /\ ~Left(p, "identify")
    <3>1. p.steps = Tail(query.steps) /\ Steps(p.request) = Steps(query.request)
      BY <2>2, <2>6, <2>7
    <3> HIDE DEF p
    <3> QED
      BY <1>2, <3>1, StepsLeftAfter
  <2>10. (StepsLeft(query))' /\ (~Left(query, "identify"))'
    BY <2>9 DEF StepsLeft, Left
  <2>11. (FitInv(query))'
    BY <1>1, <1>2, <1>3, <2>2, <2>6, <2>7 DEF FitInv, Identified
  <2>12. (accountOf(query.request))' = a
    BY <2>2, <2>6
  <2>13. (IdentityInv(query))'
    BY <1>6, <2>6, <2>10, <2>12 DEF IdentityInv
  <2>14. (query.request.endpoint \in Endpoints)'
    BY <1>2, <2>2, <2>6
  <2> QED
    BY <1>4, <1>5, <2>7, <2>8, <2>10, <2>11, <2>13, <2>14 DEF QueryInv
<1>7. CASE a = None /\ r.endpoint \in {"stakes", "unlocks"}
  <2>1. query' = Fail(query)
    BY <1>7 DEF identify
  <2> QED
    BY <1>1, <2>1, FailKeepsInv
<1>8. CASE a = None /\ r.endpoint \notin {"stakes", "unlocks"}
  <2>1. query' = [adv EXCEPT !.steps = << >>, !.status = "answered"]
    BY <1>8 DEF identify
  <2> HIDE DEF adv
  <2>2. /\ DOMAIN query' = QueryFields /\ query'.steps = << >> /\ query'.status = "answered"
        /\ \A f \in QueryFields \ {"steps", "status"} : query'[f] = query[f]
    BY <1>4, <2>1 DEF QueryTyped, QueryFields
  <2>3. /\ query'.request = r /\ query'.about = None /\ query'.data = << >>
        /\ query'.pending = query.pending /\ query'.seen = query.seen
    BY <1>3, <2>2 DEF QueryFields
  <2>4. (QueryTyped(query))'
    BY <1>2, <2>2 DEF QueryTyped, QueryFields, RequestTyped
  <2>5. (StepsLeft(query))'
    <3> DEFINE all == Steps(r)
    <3>1. Len(all) \in Nat
      BY <1>2, EndpointSteps DEF StepsOrdered
    <3>2. Steps(query.request)' = all
      BY <2>3
    <3> HIDE DEF all
    <3> QED
      BY <2>2, <3>1, <3>2 DEF StepsLeft
  <2>6. (FitInv(query))'
    BY <1>1, <1>2, <2>3 DEF FitInv
  <2>7. (IdentityInv(query))'
    BY <1>8, <2>2, <2>3 DEF IdentityInv, Left
  <2> QED
    BY <1>2, <1>5, <2>2, <2>3, <2>4, <2>5, <2>6, <2>7 DEF QueryInv
<1> QED
  BY <1>6, <1>7, <1>8

\* The block of events: its height takes the place of its ID.
LEMMA FindBlockKeepsInv ==
  ASSUME QueryInv, findBlock
  PROVE  QueryInv'
<1> DEFINE r == query.request
           o == [r EXCEPT !.id = NoID, !.height = r.id[1]]
           adv == Advance(query)
<1>1. AtStep("findBlock") /\ UNCHANGED <<chain, rows, pool, pendingTransactionsList>>
  BY DEF findBlock, QueryUnchanged
<1>2. /\ query.status = "running" /\ query.steps # << >> /\ Head(query.steps) = "findBlock"
      /\ QueryTyped(query) /\ RequestTyped(r) /\ r.endpoint \in Endpoints
      /\ StepsLeft(query) /\ FitInv(query) /\ IdentityInv(query) /\ TablesTyped
  BY <1>1, AtStepFacts DEF AtStep, QueryInv
<1>3. r.endpoint = "events"
  BY <1>1, AtStepOrdered
<1>4. /\ QueryTyped(adv)
      /\ \A f \in QueryFields \ {"steps", "status"} : adv[f] = query[f]
      /\ adv.steps = Tail(query.steps) /\ adv.status \in {"answered", "running"}
      /\ adv.status = "answered" => adv.steps = << >>
  BY <1>2, AdvanceIs
<1>5. \/ query' = adv
      \/ query' = Fail(query)
      \/ r.id # NoID /\ query' = [adv EXCEPT !.request = o, !.seen = Seen(chain, rows, o)]
  BY DEF findBlock
<1>6. CASE query' = adv
  BY <1>1, <1>6, AtStepFacts, ReadKeepsInv
<1>7. CASE query' = Fail(query)
  BY <1>1, <1>7, FailKeepsInv
<1>8. CASE r.id # NoID /\ query' = [adv EXCEPT !.request = o, !.seen = Seen(chain, rows, o)]
  <2> HIDE DEF adv
  <2>1. r.id[1] \in Key
    BY <1>2, <1>8 DEF RequestTyped
  <2>2. RequestTyped(o) /\ o.endpoint = "events"
    BY <1>2, <1>3, <2>1 DEF RequestTyped, RequestFields
  <2>3. /\ DOMAIN query' = QueryFields /\ query'.request = o
        /\ query'.seen = Seen(chain, rows, o)
        /\ \A f \in QueryFields \ {"request", "seen"} : query'[f] = adv[f]
    BY <1>4, <1>8 DEF QueryTyped, QueryFields
  <2>4. Steps(o) = Steps(r)
    <3> HIDE DEF o
    <3> QED
      BY <1>3, <2>2, StepsAre
  <2> HIDE DEF o
  <2>5. query'.steps = Tail(query.steps) /\ query'.steps = adv.steps /\ query'.status = adv.status
    BY <1>4, <2>3 DEF QueryFields
  <2>6. (QueryTyped(query))'
    BY <1>4, <2>2, <2>3 DEF QueryTyped, QueryFields, RequestTyped
  <2> DEFINE p == query'
  <2>7. StepsLeft(p)
    <3>1. p.steps = Tail(query.steps) /\ Steps(p.request) = Steps(query.request)
      BY <2>3, <2>4, <2>5
    <3> HIDE DEF p
    <3> QED
      BY <1>2, <3>1, StepsLeftAfter
  <2>8. (StepsLeft(query))'
    BY <2>7 DEF StepsLeft
  <2>9. (FitInv(query))'
    BY <1>1, <2>2, <2>3 DEF FitInv
  <2>10. (IdentityInv(query))'
    BY <2>2, <2>3 DEF IdentityInv, Identified
  <2>11. TablesTyped'
    BY <1>1, <1>2 DEF TablesTyped
  <2>12. (query.request.endpoint \in Endpoints)'
    BY <1>2, <1>3, <2>2, <2>3
  <2> QED
    BY <1>4, <2>5, <2>6, <2>8, <2>9, <2>10, <2>11, <2>12 DEF QueryInv
<1> QED
  BY <1>5, <1>6, <1>7, <1>8

LEMMA RequestsTyped ==
  ASSUME NEW r \in QueryRequests
  PROVE  /\ RequestTyped(r) /\ r.endpoint \in Endpoints
         /\ r.endpoint \in Identified => r.owner = None
         /\ r.endpoint \in NodeLists => ~r.desc
<1>1. r \in Requests
  BY QueriesAssumption
<1> QED
  BY <1>1 DEF Requests, RequestTyped, RequestFields

LEMMA ParamsTyped ==
  ASSUME NEW given \in QueryRequests, NEW r, r = params(given)
  PROVE  /\ RequestTyped(r) /\ r.endpoint \in Endpoints
         /\ r.endpoint \in Identified => r.owner = None
         /\ r.endpoint \in NodeLists => ~r.desc
<1>1. /\ RequestTyped(given) /\ given.endpoint \in Endpoints
      /\ given.endpoint \in Identified => given.owner = None
      /\ given.endpoint \in NodeLists => ~given.desc
  BY RequestsTyped
<1>2. CASE given.endpoint \in {"audiosOfOwner", "subscriptionsOfMember"}
  <2>1. r = [NoRequest EXCEPT !.endpoint = given.endpoint, !.owner = given.owner, !.limit = given.limit]
    BY <1>2 DEF params
  <2> QED
    BY <1>1, <1>2, <2>1 DEF RequestTyped, RequestFields, NoRequest, NoIdentity, Identified, NodeLists
<1>3. CASE given.endpoint = "events" /\ given.owner # None
  <2>1. r = [given EXCEPT !.party = None]
    BY <1>3 DEF params
  <2> QED
    BY <1>1, <1>3, <2>1 DEF RequestTyped, RequestFields, Identified, NodeLists
<1>4. CASE given.endpoint \notin {"audiosOfOwner", "subscriptionsOfMember"}
           /\ ~(given.endpoint = "events" /\ given.owner # None)
  BY <1>1, <1>4 DEF params
<1> QED
  BY <1>2, <1>3, <1>4

LEMMA AskKeepsInv ==
  ASSUME QueryInv, NEW given \in QueryRequests, Ask(given)
  PROVE  QueryInv'
<1> DEFINE r == params(given)
           all == Steps(r)
<1>1. /\ RequestTyped(r) /\ r.endpoint \in Endpoints
      /\ r.endpoint \in Identified => r.owner = None
  BY ParamsTyped
<1>2. UNCHANGED <<chain, rows, pool, pendingTransactionsList>>
  BY DEF Ask
<1>3. TablesTyped'
  BY <1>2 DEF QueryInv, TablesTyped
<1>4. StepsOrdered(all, r)
  BY <1>1, EndpointSteps
<1>5. /\ DOMAIN query' = QueryFields
      /\ query'.request = r /\ query'.steps = all /\ query'.status = "running"
      /\ query'.offset = r.offset /\ query'.limit = r.limit
      /\ query'.data = << >> /\ query'.pending = << >> /\ query'.pendingTotal = 0
      /\ query'.about = r.owner /\ query'.seen = Seen(chain, rows, r) /\ query'.quiet \in BOOLEAN
  BY DEF Ask, NewQuery, QueryFields
<1> HIDE DEF r
<1>6. (QueryTyped(query))'
  BY <1>1, <1>4, <1>5 DEF QueryTyped, RequestTyped, StepsOrdered
<1>7. Steps(query.request)' = all
  BY <1>5
<1>8. all \in Seq(StepNames) /\ Len(all) > 0 /\ Len(all) \in Nat
  BY <1>4 DEF StepsOrdered
<1> HIDE DEF all
<1>9. (StepsLeft(query))'
  <2>1. \A i \in 1..Len(all) : 0 + i = i
    BY <1>8
  <2>2. Len(all) = Len(all) - 0 /\ 0 \in 0..Len(all)
    BY <1>8
  <2> QED
    BY <1>5, <1>7, <1>8, <2>1, <2>2 DEF StepsLeft
<1>10. (FitInv(query))'
  BY <1>2, <1>5 DEF FitInv
<1>11. r.endpoint \in Identified => all[1] = "identify"
  BY <1>4, <1>8 DEF StepsOrdered
<1>12. (IdentityInv(query))'
  BY <1>1, <1>5, <1>8, <1>11 DEF IdentityInv, Left
<1> QED
  BY <1>1, <1>3, <1>5, <1>6, <1>9, <1>10, <1>12 DEF QueryInv

LEMMA DisturbKeepsInv ==
  ASSUME QueryInv, Disturb, TablesTyped'
  PROVE  QueryInv'
<1>1. QueryTyped(query) /\ query' = [query EXCEPT !.quiet = FALSE,
                                       !.seen = @ \cup Seen(chain', rows', query.request)]
  BY DEF QueryInv, Disturb
<1>2. /\ DOMAIN query' = QueryFields /\ query'.quiet = FALSE
      /\ query'.seen = query.seen \cup Seen(chain', rows', query.request)
      /\ \A f \in QueryFields \ {"quiet", "seen"} : query'[f] = query[f]
  BY <1>1 DEF QueryTyped, QueryFields
<1>3. (QueryTyped(query))'
  BY <1>1, <1>2 DEF QueryTyped, QueryFields, RequestTyped
<1>4. /\ query'.request = query.request /\ query'.steps = query.steps /\ query'.status = query.status
      /\ query'.data = query.data /\ query'.pending = query.pending /\ query'.about = query.about
  BY <1>2 DEF QueryFields
<1>5. ASSUME query.status \in {"running", "answered"}
      PROVE  (StepsLeft(query))' /\ (FitInv(query))' /\ (IdentityInv(query))'
  <2>1. StepsLeft(query) /\ FitInv(query) /\ IdentityInv(query)
    BY <1>5 DEF QueryInv
  <2>2. (StepsLeft(query))'
    BY <1>4, <2>1 DEF StepsLeft
  <2>3. (FitInv(query))'
    BY <1>2, <1>4, <2>1 DEF FitInv, Fitting
  <2>4. (IdentityInv(query))'
    BY <1>4, <2>1 DEF IdentityInv, Left
  <2> QED
    BY <2>2, <2>3, <2>4
<1> QED
  BY <1>3, <1>4, <1>5 DEF QueryInv

LEMMA ChangesKeepInv ==
  ASSUME QueryInv,
         \/ \E v \in Version : NodeAdds(v)
         \/ NodeRemoves
         \/ \E k \in Key : NodeReceives(k) \/ newBlockProcessor(k) \/ deleteBlockProcessor(k)
         \/ loadAllPendingTransactions
  PROVE  QueryInv'
<1>1. Disturb
  BY DEF NodeAdds, NodeRemoves, NodeReceives, newBlockProcessor, deleteBlockProcessor,
         loadAllPendingTransactions
<1>2. /\ chain \in [Key -> Versions] /\ rows \in [Key -> Versions]
      /\ pool \in SUBSET Key /\ pendingTransactionsList \in SUBSET Key
      /\ 0 \in Versions /\ Version \subseteq Versions
  BY DEF QueryInv, TablesTyped, Tables, Versions
<1>3. TablesTyped'
  <2>1. ASSUME NEW v \in Version, NodeAdds(v) PROVE TablesTyped'
    BY <1>2, <2>1 DEF NodeAdds, TablesTyped, Tables
  <2>2. CASE NodeRemoves
    <3> DEFINE h == heightOf(chain)
    <3>1. chain' = [chain EXCEPT ![h] = 0] /\ UNCHANGED <<rows, pool, pendingTransactionsList>>
      BY <2>2 DEF NodeRemoves
    <3> HIDE DEF h
    <3> QED
      BY <1>2, <3>1 DEF TablesTyped, Tables
  <2>3. ASSUME NEW k \in Key, NodeReceives(k) PROVE TablesTyped'
    BY <1>2, <2>3 DEF NodeReceives, TablesTyped, Tables
  <2>4. ASSUME NEW k \in Key, newBlockProcessor(k) PROVE TablesTyped'
    BY <1>2, <2>4 DEF newBlockProcessor, TablesTyped, Tables
  <2>5. ASSUME NEW k \in Key, deleteBlockProcessor(k) PROVE TablesTyped'
    BY <1>2, <2>5 DEF deleteBlockProcessor, TablesTyped, Tables
  <2>6. CASE loadAllPendingTransactions
    BY <1>2, <2>6 DEF loadAllPendingTransactions, TablesTyped, Tables
  <2> QED
    BY <2>1, <2>2, <2>3, <2>4, <2>5, <2>6
<1> QED
  BY <1>1, <1>3, DisturbKeepsInv

LEMMA InitQueryInv == QueryInit => QueryInv
<1> SUFFICES ASSUME QueryInit PROVE QueryInv
  OBVIOUS
<1>1. PICK n \in 1..Cardinality(Key) : /\ chain = [k \in Key |-> IF k <= n THEN 1 ELSE 0]
                                      /\ pool \in SUBSET {k \in Key : k > n}
  BY DEF QueryInit
<1>2. rows = chain /\ pendingTransactionsList = pool /\ query = NewQuery(NoRequest, NoRequest)
  BY DEF QueryInit
<1>3. chain \in [Key -> Versions]
  BY <1>1, QueriesAssumption DEF Versions
<1>4. TablesTyped
  BY <1>1, <1>2, <1>3 DEF TablesTyped, Tables
<1>5. RequestTyped(NoRequest)
  BY DEF RequestTyped, RequestFields, NoRequest, NoIdentity
<1>6. QueryTyped(query) /\ query.status = "idle"
  <2>1. NoRequest.offset \in Nat /\ NoRequest.limit \in Nat \ {0}
    BY <1>5 DEF RequestTyped
  <2> QED
    BY <1>2, <1>5, <2>1 DEF QueryTyped, QueryFields, NewQuery
<1> QED
  BY <1>4, <1>6 DEF QueryInv

LEMMA QueryInvUnchanged == QueryInv /\ UNCHANGED queryVars => QueryInv'
<1> SUFFICES ASSUME QueryInv, UNCHANGED queryVars PROVE QueryInv'
  OBVIOUS
<1>1. /\ query' = query /\ chain' = chain /\ rows' = rows
      /\ pool' = pool /\ pendingTransactionsList' = pendingTransactionsList
  BY DEF queryVars
<1>2. TablesTyped' <=> TablesTyped
  BY <1>1 DEF TablesTyped
<1>3. /\ (QueryTyped(query))' <=> QueryTyped(query)
      /\ (StepsLeft(query))' <=> StepsLeft(query)
      /\ (IdentityInv(query))' <=> IdentityInv(query)
  BY <1>1 DEF QueryTyped, RequestTyped, StepsLeft, IdentityInv, Left
<1>4. (FitInv(query))' <=> FitInv(query)
  BY <1>1 DEF FitInv, Fitting
<1> QED
  BY <1>1, <1>2, <1>3, <1>4 DEF QueryInv

LEMMA NextKeepsQueryInv == QueryInv /\ QueryNext => QueryInv'
<1> SUFFICES ASSUME QueryInv, QueryNext PROVE QueryInv'
  OBVIOUS
<1>1. CASE \E r \in QueryRequests : Ask(r)
  BY <1>1, AskKeepsInv
<1>2. CASE QueryStep
  <2>1. CASE identify
    BY <2>1, IdentifyKeepsInv
  <2>2. CASE countRows \/ findRows \/ findMember \/ countPage
    BY <2>2, IndexReadsKeepInv
  <2>3. CASE findDetails
    BY <2>3, DetailsKeepInv
  <2>4. CASE findOwned
    BY <2>4, OwnedKeepsInv
  <2>5. CASE getBlocksByIDs
    BY <2>5, BlocksByIDsKeepInv
  <2>6. CASE getBlock
    BY <2>6, BlockKeepsInv
  <2>7. CASE setLastBlock
    BY <2>7, LastBlockKeepsInv
  <2>8. CASE getTransactionsByIDs
    BY <2>8, TransactionsKeepInv
  <2>9. CASE getBlockByIDs
    BY <2>9, BlockByIDsKeepsInv
  <2>10. CASE getEventsByHeight
    BY <2>10, EventsKeepInv
  <2>11. CASE list \/ listFlagged \/ listFirst \/ listPeers \/ listGenerators \/ listAll
    BY <2>11, ListsKeepInv
  <2>12. CASE findDefaults \/ findOthers \/ slice
    BY <2>12, AppsKeepInv
  <2>13. CASE allOfChains \/ allOfEntries
    BY <2>13, TokensKeepInv
  <2>14. CASE getPending \/ merge
    BY <2>14, PendingKeepsInv
  <2>15. CASE findAudios \/ findSubscription
    BY <2>15, FoundAgainKeepsInv
  <2>16. CASE findBlock
    BY <2>16, FindBlockKeepsInv
  <2> QED
    BY <1>2, <2>1, <2>2, <2>3, <2>4, <2>5, <2>6, <2>7, <2>8, <2>9, <2>10, <2>11, <2>12, <2>13,
       <2>14, <2>15, <2>16 DEF QueryStep
<1> QED
  BY <1>1, <1>2, ChangesKeepInv DEF QueryNext

LEMMA InvFits == QueryInv => AnswersFit
<1> SUFFICES ASSUME QueryInv PROVE AnswersFit
  OBVIOUS
<1>1. QueryTyped(query) /\ RequestTyped(query.request)
  BY DEF QueryInv, QueryTyped
<1>2. query.data \in Seq(RowItem)
  BY <1>1 DEF QueryTyped
<1>3. NothingForeign
  <2> SUFFICES ASSUME query.status = "answered",
                      query.request.endpoint \notin {"events", "tokens", "supportedTokens"},
                      NEW x \in Range(query.data)
               PROVE  Fitting(x, query)
    BY DEF NothingForeign, Fitting, TransactionEndpoints
  <2>1. PICK i \in 1..Len(query.data) : x = query.data[i]
    BY <1>2 DEF Range
  <2> QED
    BY <2>1 DEF QueryInv, FitInv, TokenEndpoints
<1>4. IdentityRespected
  <2> DEFINE id == query.request.identity
             named == {a \in {id.address, id.publicKey, id.name} : a \in Account}
  <2> SUFFICES ASSUME query.status = "answered", query.request.endpoint \in Identified
               PROVE  /\ query.about # None => query.about \in named
                      /\ query.about = None => query.data = << >>
                      /\ query.request.endpoint = "stakers" /\ query.about # None => named = {query.about}
                      /\ id.name \in Account \cup {None} /\ Cardinality(named) = 1 => query.about # None
    BY DEF IdentityRespected, Answered
  <2>1. IdentityInv(query) /\ query.steps = << >>
    BY DEF QueryInv
  <2>2. query.about = accountOf(query.request) /\ (query.about = None => query.data = << >>)
    BY <2>1 DEF IdentityInv, Left
  <2> HIDE DEF named
  <2>3. /\ accountOf(query.request) # None => accountOf(query.request) \in named
        /\ query.request.endpoint = "stakers" /\ accountOf(query.request) # None =>
             named = {accountOf(query.request)}
        /\ id.name \in Account \cup {None} /\ Cardinality(named) = 1 => accountOf(query.request) # None
    BY <1>1, AccountNamed DEF named
  <2> QED
    BY <2>2, <2>3
<1> QED
  BY <1>3, <1>4 DEF AnswersFit

\* Whatever changes while the data service puts an answer together, nothing is
\* returned that the request did not ask for, for any chain, any requests and any
\* number of them.
THEOREM AnswersAlwaysFit == Spec => []AnswersFit
<1>1. Init => QueryInv
  BY InitQueryInv DEF Init
<1>2. QueryInv /\ [Next]_vars => QueryInv'
  BY NextKeepsQueryInv, QueryInvUnchanged DEF Next, vars, GatewayStep, QueriesStep
<1> QED
  BY <1>1, <1>2, InvFits, PTL DEF Spec
-----------------------------------------------------------------------------
(* While nothing changes: the answers are exact                             *)

Pages ==
  {"collections", "profiles", "subscriptions", "blockchainApps", "audios", "transactions",
   "blockAssets", "events", "stakers", "claimable", "balances", "blocks"}
Counting ==
  {"collections", "profiles", "subscriptions", "blockchainApps", "transactions",
   "pendingAndOther", "blockAssets", "events", "stakers", "metaList", "metadata", "tokens",
   "supportedTokens"}
Listed == {"claimable", "balances"}
MetaEndpoints == {"metaList", "metadata"}

\* The properties' expressions, of any request and table.
WantedIn(ch, r) == inOrder(matching(ch, r), r.desc)
UnfitIn(ch, r) == r.id # NoID /\ ch[r.id[1]] = r.id[2] /\ WantedIn(ch, r) = << >>
DefaultsIn(ch, r) == inOrder(matching(ch, r) \cap Flagged, r.desc)
OthersIn(ch, r) == inOrder(matching(ch, r) \ Flagged, r.desc)
PendingIn(pl, r) == inPoolOrder(pendingOf(pl, r))

FoundIn(d, ch, r, offset, limit) == d = Rows(ch, Page(WantedIn(ch, r), offset, limit))
HasWanted(d, ch, r) == Range(Page(WantedIn(ch, r), r.offset, r.limit)) \subseteq Range(Keys(d))

\* The page that was read, until it is made into something else.
PageOK(q, ch) ==
  LET r == q.request
  IN  /\ r.endpoint \in Pages \cup TokenEndpoints \cup {"pendingAndOther"}
      /\ ~Left(q, "find") /\ ~Left(q, "list") /\ ~Left(q, "getBlock")
      /\ r.endpoint = "tokens" => Left(q, "allOfChains")
      /\ r.endpoint = "supportedTokens" => Left(q, "allOfEntries")
      /\ r.endpoint = "pendingAndOther" => Left(q, "merge")
      /\ r.endpoint \in TransactionEndpoints /\ ~Left(q, "getTransactionsByIDs") => ~UnfitIn(ch, r)
      => FoundIn(q.data, ch, r, q.offset, q.limit)

TotalOK(q, ch) ==
  LET r == q.request
  IN  /\ r.endpoint \in Counting \cup Listed /\ ~Left(q, "count") /\ ~Left(q, "list")
      /\ r.endpoint = "supportedTokens" => ~r.flagged
      /\ r.endpoint = "pendingAndOther" => Left(q, "merge")
      => q.total = Cardinality(matching(ch, r))

\* Pending transactions, and what is left for the others of the offset and the limit.
PendingRead(q, pl) ==
  LET r == q.request
      total == Len(PendingIn(pl, r))
      page == Page(PendingIn(pl, r), r.offset, r.limit)
  IN  /\ q.pending = [i \in DOMAIN page |-> Item(page[i], 1, 0)]
      /\ q.pendingTotal = total
      /\ q.limit = Max({1, r.limit - (total - Len(page))})
      /\ q.offset = Max({0, r.offset - total})
PendingOK(q, pl) ==
  IF q.request.endpoint = "pendingAndOther"
  THEN ~Left(q, "getPending") => PendingRead(q, pl)
  ELSE q.offset = q.request.offset /\ q.limit = q.request.limit /\ q.pending = << >>

MergedIs(d, total, ch, pl, r) ==
  LET all == PendingIn(pl, r) \o WantedIn(ch, r)
  IN  /\ total = Len(all)
      /\ r.offset = 0 => Keys(d) = Page(all, 0, r.limit)
      /\ Range(Keys(d)) \subseteq Range(Page(all, r.offset, r.limit))
MergeOK(q, ch, pl) ==
  q.request.endpoint = "pendingAndOther" /\ ~Left(q, "merge") /\ ~UnfitIn(ch, q.request) =>
    MergedIs(q.data, q.total, ch, pl, q.request)

\* The total of blocks: before and after it is made of the last block.
BlocksTotal(d, total, ch, r) ==
  \/ total = Len(WantedIn(ch, r))
  \/ total = NoTotal /\ d = << >>
  \/ (r.id # NoID \/ r.height # 0) /\ d = << >>
  \/ r.owner = None /\ r.to = 0 /\ ~isLatestBlockFetch(r)
BlocksOK(q, ch) ==
  LET r == q.request
  IN  r.endpoint = "blocks" =>
        IF Left(q, "setLastBlock")
        THEN ~Left(q, "count") =>
               \/ q.total = Cardinality(matching(ch, r))
               \/ /\ q.total = NoTotal /\ q.data = << >> /\ isQueryFromIndex(r)
                  /\ ~Left(q, "find") /\ ~Left(q, "getBlocksByIDs")
        ELSE BlocksTotal(q.data, q.total, ch, r)

\* The apps found, default ones first.
AppsOK(q, ch) ==
  LET r == q.request
      n == r.limit * numNetworks
      few == Len(DefaultsIn(ch, r)) < r.limit
      all == DefaultsIn(ch, r) \o OthersIn(ch, r)
  IN  r.endpoint \in MetaEndpoints /\ r.offset = 0 /\ ~Left(q, "findDefaults") =>
        IF Left(q, "findOthers") THEN Keys(q.data) = Page(DefaultsIn(ch, r), 0, n)
        ELSE IF r.endpoint = "metadata" THEN Range(Page(all, 0, r.limit)) \subseteq Range(Keys(q.data))
        ELSE few => Keys(q.data) = IF Left(q, "slice")
                                   THEN DefaultsIn(ch, r) \o Page(OthersIn(ch, r), 0, n)
                                   ELSE Page(all, 0, r.limit)

TokensOK(q, ch) ==
  LET r == q.request
  IN  /\ r.endpoint = "tokens" /\ ~Left(q, "allOfChains") => HasWanted(q.data, ch, r)
      /\ r.endpoint = "supportedTokens" /\ ~r.flagged /\ ~Left(q, "allOfEntries") =>
           HasWanted(q.data, ch, r)

\* Events are looked for as they were given, the height for the ID of their block, unless
\* a sender and a transaction were given.
GivenOK(q, ch) ==
  LET r == q.request
      g == q.given
  IN  r.endpoint = "events" /\ ~(g.owner # None /\ g.party # None) =>
        /\ matching(ch, r) = matching(ch, g) /\ g.desc = r.desc
        /\ Left(q, "findBlock") => g = r

QuietOK(q, ch, pl) ==
  /\ PageOK(q, ch) /\ TotalOK(q, ch) /\ MergeOK(q, ch, pl)
  /\ BlocksOK(q, ch) /\ AppsOK(q, ch) /\ TokensOK(q, ch)

\* The chain has no gaps.
ChainOK == \E n \in 1..Cardinality(Key) : \A k \in Key : chain[k] # 0 <=> k <= n

QuietInv ==
  /\ ChainOK
  /\ query.quiet => rows = chain /\ pendingTransactionsList = pool
  /\ query.quiet /\ query.status \in {"running", "answered"} =>
       /\ PendingOK(query, pool)
       /\ GivenOK(query, chain)
       /\ query.request.endpoint \in NodeLists => ~query.request.desc
       /\ (query.request.endpoint \in Identified => query.about # None) => QuietOK(query, chain, pool)
-----------------------------------------------------------------------------
(* What steps are left                                                      *)

Has(s, step) == \E i \in 1..Len(s) : s[i] = step

\* Which endpoints have which steps, and in which order.
StepsKnown(s, r) ==
  LET e == r.endpoint
  IN  /\ s \in Seq(StepNames) /\ Len(s) > 0
      /\ \A i \in 1..Len(s), j \in 1..Len(s) : s[i] = s[j] => i = j
      /\ \A i \in 1..Len(s) :
           /\ s[i] \in {"merge", "setLastBlock"} => i = Len(s)
           /\ s[i] = "getBlocksByIDs" => i = Len(s) - 1
           /\ s[i] \in {"identify", "findBlock", "getPending", "findDefaults"} => i = 1
           /\ s[i] = "findOthers" => i = 2
           /\ s[i] \in {"find", "list", "getBlock"} =>
                \A j \in 1..Len(s) : s[j] \in {"allOfChains", "allOfEntries", "getTransactionsByIDs"} => i < j
      /\ e \in (Pages \ {"claimable", "balances", "blocks"}) \cup {"tokens", "pendingAndOther"} => Has(s, "find")
      /\ e \in {"claimable", "balances"} <=> Has(s, "list")
      /\ e = "supportedTokens" /\ getTokenSummary(r) # {} => Has(s, "find")
      /\ e = "blocks" /\ isQueryFromIndex(r) <=> Has(s, "getBlocksByIDs")
      /\ e = "blocks" /\ isQueryFromIndex(r) => Has(s, "find")
      /\ e = "blocks" /\ ~isQueryFromIndex(r) <=> Has(s, "getBlock")
      /\ e = "blocks" <=> Has(s, "setLastBlock")
      /\ Has(s, "count") <=> \/ e \in (Counting \ {"supportedTokens"}) \cup {"blocks"}
                             \/ e = "supportedTokens" /\ getTokenSummary(r) # {}
      /\ e = "tokens" <=> Has(s, "allOfChains")
      /\ e = "supportedTokens" /\ getTokenSummary(r) # {} <=> Has(s, "allOfEntries")
      /\ e \in TransactionEndpoints <=> Has(s, "getTransactionsByIDs")
      /\ e = "pendingAndOther" <=> Has(s, "getPending")
      /\ e = "pendingAndOther" <=> Has(s, "merge")
      /\ e \in MetaEndpoints <=> Has(s, "findDefaults")
      /\ e \in MetaEndpoints <=> Has(s, "findOthers")
      /\ e = "metaList" <=> Has(s, "slice")
      /\ e = "events" <=> Has(s, "getEventsByHeight")
      /\ e = "events" <=> Has(s, "findBlock")
      /\ e = "blockAssets" <=> Has(s, "getBlockByIDs")
      /\ Has(s, "find") => e \notin MetaEndpoints
      /\ Has(s, "details") => e \in {"profiles", "subscriptions", "audios", "audiosOfOwner", "stakers", "metadata"}
      /\ Has(s, "countPage") => \/ e \in {"audios", "audiosOfOwner"}
                                \/ e = "supportedTokens" /\ getTokenSummary(r) = {}
      /\ \/ Has(s, "findAudios") \/ Has(s, "findSubscription")
         \/ Has(s, "findOwned") \/ Has(s, "findMember") \/ Has(s, "listFlagged") \/ Has(s, "listFirst")
         \/ Has(s, "listPeers") \/ Has(s, "listGenerators") \/ Has(s, "listAll")
         => e \notin Pages \cup Counting \cup {"blocks"}

LEMMA StepsAreKnown ==
  ASSUME NEW r, r.endpoint \in Endpoints
  PROVE  StepsKnown(Steps(r), r)
<1> USE DEF StepsKnown, Has, StepNames, Pages, Counting, MetaEndpoints, TokenEndpoints, TransactionEndpoints
<1>1. CASE r.endpoint = "collections"
  <2>1. Steps(r) = <<"count", "find">>
    BY <1>1, StepsAre
  <2> QED
    BY <1>1, <2>1
<1>2. CASE r.endpoint = "profiles"
  <2>1. Steps(r) = <<"count", "find", "details">>
    BY <1>2, StepsAre
  <2> QED
    BY <1>2, <2>1
<1>3. CASE r.endpoint = "subscriptions"
  <2>1. Steps(r) = <<"count", "find", "details">>
    BY <1>3, StepsAre
  <2> QED
    BY <1>3, <2>1
<1>4. CASE r.endpoint = "subscriptionsOfMember"
  <2>1. Steps(r) = <<"findMember", "findSubscription">>
    BY <1>4, StepsAre
  <2> QED
    BY <1>4, <2>1
<1>5. CASE r.endpoint = "blockchainApps"
  <2>1. Steps(r) = <<"count", "find">>
    BY <1>5, StepsAre
  <2> QED
    BY <1>5, <2>1
<1>6. CASE r.endpoint = "audios"
  <2>1. Steps(r) = <<"find", "details", "countPage">>
    BY <1>6, StepsAre
  <2> QED
    BY <1>6, <2>1
<1>7. CASE r.endpoint = "audiosOfOwner"
  <2>1. Steps(r) = <<"findOwned", "findAudios", "details", "countPage">>
    BY <1>7, StepsAre
  <2> QED
    BY <1>7, <2>1
<1>8. CASE r.endpoint = "transactions"
  <2>1. Steps(r) = <<"count", "find", "getTransactionsByIDs">>
    BY <1>8, StepsAre
  <2> QED
    BY <1>8, <2>1
<1>9. CASE r.endpoint = "pendingAndOther"
  <2>1. Steps(r) = <<"getPending", "count", "find", "getTransactionsByIDs", "merge">>
    BY <1>9, StepsAre
  <2> QED
    BY <1>9, <2>1
<1>10. CASE r.endpoint = "blockAssets"
  <2>1. Steps(r) = <<"count", "find", "getBlockByIDs">>
    BY <1>10, StepsAre
  <2> QED
    BY <1>10, <2>1
<1>11. CASE r.endpoint = "events"
  <2>1. Steps(r) = <<"findBlock", "find", "getEventsByHeight", "count">>
    BY <1>11, StepsAre
  <2> QED
    BY <1>11, <2>1
<1>12. CASE r.endpoint = "stakers"
  <2>1. Steps(r) = <<"identify", "find", "details", "count">>
    BY <1>12, StepsAre
  <2> QED
    BY <1>12, <2>1
<1>13. CASE r.endpoint = "stakes"
  <2>1. Steps(r) = <<"identify", "listAll">>
    BY <1>13, StepsAre
  <2> QED
    BY <1>13, <2>1
<1>14. CASE r.endpoint = "unlocks"
  <2>1. Steps(r) = <<"identify", "listFlagged">>
    BY <1>14, StepsAre
  <2> QED
    BY <1>14, <2>1
<1>15. CASE r.endpoint = "claimable"
  <2>1. Steps(r) = <<"identify", "list">>
    BY <1>15, StepsAre
  <2> QED
    BY <1>15, <2>1
<1>16. CASE r.endpoint = "locked"
  <2>1. Steps(r) = <<"identify", "listFirst">>
    BY <1>16, StepsAre
  <2> QED
    BY <1>16, <2>1
<1>17. CASE r.endpoint = "hasAccount"
  <2>1. Steps(r) = <<"identify", "listFirst">>
    BY <1>17, StepsAre
  <2> QED
    BY <1>17, <2>1
<1>18. CASE r.endpoint = "balances"
  <2>1. Steps(r) = <<"list">>
    BY <1>18, StepsAre
  <2> QED
    BY <1>18, <2>1
<1>19. CASE r.endpoint = "peers"
  <2>1. Steps(r) = <<"listPeers">>
    BY <1>19, StepsAre
  <2> QED
    BY <1>19, <2>1
<1>20. CASE r.endpoint = "generators"
  <2>1. Steps(r) = <<"listGenerators">>
    BY <1>20, StepsAre
  <2> QED
    BY <1>20, <2>1
<1>21. CASE r.endpoint = "metaList"
  <2>1. Steps(r) = <<"findDefaults", "findOthers", "slice", "count">>
    BY <1>21, StepsAre
  <2> QED
    BY <1>21, <2>1
<1>22. CASE r.endpoint = "metadata"
  <2>1. Steps(r) = <<"findDefaults", "findOthers", "details", "count">>
    BY <1>22, StepsAre
  <2> QED
    BY <1>22, <2>1
<1>23. CASE r.endpoint = "tokens"
  <2>1. Steps(r) = <<"find", "allOfChains", "count">>
    BY <1>23, StepsAre
  <2> QED
    BY <1>23, <2>1
<1>24. CASE r.endpoint = "supportedTokens"
  <2>1. \/ Steps(r) = <<"countPage">> /\ getTokenSummary(r) = {}
        \/ Steps(r) = <<"find", "count", "allOfEntries">> /\ getTokenSummary(r) # {}
    BY <1>24, StepsAre
  <2>2. CASE Steps(r) = <<"countPage">> /\ getTokenSummary(r) = {}
    BY <1>24, <2>2
  <2>3. CASE Steps(r) = <<"find", "count", "allOfEntries">> /\ getTokenSummary(r) # {}
    BY <1>24, <2>3
  <2> QED
    BY <2>1, <2>2, <2>3
<1>25. CASE r.endpoint = "blocks"
  <2>1. \/ Steps(r) = <<"count", "find", "getBlocksByIDs", "setLastBlock">> /\ isQueryFromIndex(r)
        \/ Steps(r) = <<"count", "getBlock", "setLastBlock">> /\ ~isQueryFromIndex(r)
    BY <1>25, StepsAre
  <2>2. CASE Steps(r) = <<"count", "find", "getBlocksByIDs", "setLastBlock">> /\ isQueryFromIndex(r)
    BY <1>25, <2>2
  <2>3. CASE Steps(r) = <<"count", "getBlock", "setLastBlock">> /\ ~isQueryFromIndex(r)
    BY <1>25, <2>3
  <2> QED
    BY <2>1, <2>2, <2>3
<1> QED
  BY <1>1, <1>2, <1>3, <1>4, <1>5, <1>6, <1>7, <1>8, <1>9, <1>10, <1>11, <1>12, <1>13, <1>14, <1>15, <1>16, <1>17, <1>18, <1>19, <1>20, <1>21, <1>22, <1>23, <1>24, <1>25 DEF Endpoints, NodeLists

\* What is left at a step and after it.
LEMMA StepsLeftAt ==
  ASSUME QueryInv, NEW step, AtStep(step), NEW p, p.steps = Tail(query.steps)
  PROVE  LET s == Steps(query.request)
         IN  /\ StepsKnown(s, query.request)
             /\ Has(s, step) /\ Left(query, step)
             /\ \A x : Left(p, x) <=> Left(query, x) /\ x # step
             /\ \A x : Left(query, x) => Has(s, x)
             /\ \A x \in {"merge", "setLastBlock"} : Has(s, x) => Left(query, x)
             /\ step \in {"merge", "setLastBlock"} => \A x : ~Left(p, x)
             /\ step = "getBlocksByIDs" => \A x : Left(p, x) => x = "setLastBlock"
             /\ step \in {"identify", "findBlock", "getPending", "findDefaults"} =>
                  \A x : Has(s, x) /\ x # step => Left(p, x)
             /\ step = "findOthers" => ~Left(query, "findDefaults") /\ (Has(s, "slice") => Left(p, "slice"))
             /\ step = "slice" => ~Left(query, "findDefaults") /\ ~Left(query, "findOthers")
             /\ query.request.endpoint = "metadata" /\ step = "details" =>
                  ~Left(query, "findDefaults") /\ ~Left(query, "findOthers")
             /\ step \in {"allOfChains", "allOfEntries", "getTransactionsByIDs"} =>
                  ~Left(query, "find") /\ ~Left(query, "list") /\ ~Left(query, "getBlock")
             /\ step = "find" => /\ Has(s, "allOfChains") => Left(p, "allOfChains")
                                 /\ Has(s, "allOfEntries") => Left(p, "allOfEntries")
                                 /\ Has(s, "getTransactionsByIDs") => Left(p, "getTransactionsByIDs")
<1> DEFINE s == Steps(query.request)
<1>1. /\ QueryTyped(query) /\ StepsLeft(query) /\ query.request.endpoint \in Endpoints
      /\ query.steps # << >> /\ Head(query.steps) = step
  BY DEF QueryInv, AtStep
<1>2. PICK n \in 0..Len(s) : /\ Len(query.steps) = Len(s) - n
                            /\ \A i \in 1..Len(query.steps) : query.steps[i] = s[n + i]
  BY <1>1 DEF StepsLeft
<1>3. StepsKnown(s, query.request)
  BY <1>1, StepsAreKnown
<1> HIDE DEF s
<1>4. /\ Len(s) \in Nat /\ Len(query.steps) \in Nat \ {0} /\ query.steps[1] = step
      /\ Len(p.steps) = Len(query.steps) - 1
      /\ \A i \in 1..Len(p.steps) : p.steps[i] = query.steps[i + 1]
  BY <1>1, <1>3 DEF StepsKnown, QueryTyped
<1>5. n + 1 \in 1..Len(s) /\ s[n + 1] = step
  <2>1. n \in Nat /\ n + 1 \in 1..Len(s) /\ 1 \in 1..Len(query.steps)
    BY <1>2, <1>4
  <2>2. query.steps[1] = s[n + 1]
    BY <1>2, <2>1
  <2> QED
    BY <1>4, <2>1, <2>2
<1>6. \A x : Left(query, x) <=> \E j \in 1..Len(s) : j > n /\ s[j] = x
  <2>1. ASSUME NEW x, Left(query, x) PROVE \E j \in 1..Len(s) : j > n /\ s[j] = x
    <3>1. PICK i \in 1..Len(query.steps) : query.steps[i] = x
      BY <2>1 DEF Left
    <3>2. n + i \in 1..Len(s) /\ n + i > n /\ s[n + i] = x
      BY <1>2, <1>4, <3>1
    <3> QED
      BY <3>2
  <2>2. ASSUME NEW x, NEW j \in 1..Len(s), j > n, s[j] = x PROVE Left(query, x)
    <3>1. j - n \in 1..Len(query.steps) /\ n + (j - n) = j
      BY <1>2, <1>4, <2>2
    <3>2. query.steps[j - n] = s[n + (j - n)]
      BY <1>2, <3>1
    <3> QED
      BY <2>2, <3>1, <3>2 DEF Left
  <2> QED
    BY <2>1, <2>2
<1>7. \A x : Left(p, x) <=> \E j \in 1..Len(s) : j > n + 1 /\ s[j] = x
  <2>1. ASSUME NEW x, Left(p, x) PROVE \E j \in 1..Len(s) : j > n + 1 /\ s[j] = x
    <3>1. PICK i \in 1..Len(p.steps) : p.steps[i] = x
      BY <2>1 DEF Left
    <3>2. i + 1 \in 1..Len(query.steps) /\ query.steps[i + 1] = x
      BY <1>4, <3>1
    <3>3. n + (i + 1) \in 1..Len(s) /\ n + (i + 1) > n + 1 /\ s[n + (i + 1)] = x
      BY <1>2, <1>4, <3>1, <3>2
    <3> QED
      BY <3>3
  <2>2. ASSUME NEW x, NEW j \in 1..Len(s), j > n + 1, s[j] = x PROVE Left(p, x)
    <3> DEFINE i == j - (n + 1)
    <3>0. /\ n \in Nat /\ j \in Nat /\ j <= Len(s) /\ Len(query.steps) = Len(s) - n
          /\ Len(p.steps) = Len(query.steps) - 1 /\ Len(s) \in Nat
      BY <1>2, <1>4
    <3>1. i \in 1..Len(p.steps) /\ i + 1 \in 1..Len(query.steps) /\ n + (i + 1) = j
      BY <2>2, <3>0
    <3>2. query.steps[i + 1] = s[n + (i + 1)] /\ p.steps[i] = query.steps[i + 1]
      BY <1>2, <1>4, <3>1
    <3> HIDE DEF i
    <3> QED
      BY <2>2, <3>1, <3>2 DEF Left
  <2> QED
    BY <2>1, <2>2
<1>8. Has(s, step) /\ Left(query, step)
  BY <1>5, <1>6 DEF Has
<1>9. \A i \in 1..Len(s), j \in 1..Len(s) : s[i] = s[j] => i = j
  BY <1>3 DEF StepsKnown
<1>10. \A x : Left(p, x) <=> Left(query, x) /\ x # step
  <2>1. ASSUME NEW x, Left(p, x) PROVE Left(query, x) /\ x # step
    BY <1>2, <1>5, <1>6, <1>7, <1>9, <2>1
  <2>2. ASSUME NEW x, Left(query, x), x # step PROVE Left(p, x)
    <3>1. PICK j \in 1..Len(s) : j > n /\ s[j] = x
      BY <1>6, <2>2
    <3>2. j # n + 1
      BY <1>5, <2>2, <3>1
    <3>3. j > n + 1
      BY <1>2, <1>4, <3>1, <3>2
    <3> QED
      BY <1>7, <3>1, <3>3
  <2> QED
    BY <2>1, <2>2
<1>11. \A i \in 1..Len(s) :
         /\ s[i] \in {"merge", "setLastBlock"} => i = Len(s)
         /\ s[i] = "getBlocksByIDs" => i = Len(s) - 1
         /\ s[i] \in {"identify", "findBlock", "getPending", "findDefaults"} => i = 1
         /\ s[i] = "findOthers" => i = 2
         /\ s[i] \in {"find", "list", "getBlock"} =>
              \A j \in 1..Len(s) : s[j] \in {"allOfChains", "allOfEntries", "getTransactionsByIDs"} => i < j
  BY <1>3 DEF StepsKnown
<1>12. \A x \in {"merge", "setLastBlock"} : Has(s, x) => Left(query, x)
  <2> SUFFICES ASSUME NEW x \in {"merge", "setLastBlock"}, NEW j \in 1..Len(s), s[j] = x
               PROVE  Left(query, x)
    BY DEF Has
  <2>1. j = Len(s)
    BY <1>11
  <2>2. j > n
    BY <1>4, <1>5, <2>1
  <2> QED
    BY <1>6, <2>2
<1>13. step \in {"merge", "setLastBlock"} => \A x : ~Left(p, x)
  BY <1>2, <1>4, <1>5, <1>7, <1>11
<1>14. ASSUME step = "getBlocksByIDs", NEW x, Left(p, x) PROVE x = "setLastBlock"
  <2>1. n + 1 = Len(s) - 1
    BY <1>5, <1>11, <1>14
  <2>2. PICK j \in 1..Len(s) : j > n + 1 /\ s[j] = x
    BY <1>7, <1>14
  <2>3. j = Len(s)
    BY <1>4, <2>1, <2>2
  <2>4. Has(s, "setLastBlock")
    BY <1>3, <1>8, <1>14 DEF StepsKnown
  <2> QED
    BY <1>11, <2>2, <2>3, <2>4 DEF Has
<1>15. ASSUME step \in {"identify", "findBlock", "getPending", "findDefaults"}, NEW x, Has(s, x), x # step
       PROVE  Left(p, x)
  <2>1. n + 1 = 1
    BY <1>5, <1>11, <1>15
  <2>2. PICK j \in 1..Len(s) : s[j] = x
    BY <1>15 DEF Has
  <2>3. j # n + 1
    BY <1>5, <1>15, <2>2
  <2>4. j > n + 1
    BY <1>2, <1>4, <2>1, <2>2, <2>3
  <2> QED
    BY <1>7, <2>2, <2>4
<1>16. n + 1 >= 2 => ~Left(query, "findDefaults")
  BY <1>2, <1>4, <1>6, <1>11
<1>17. n + 1 >= 3 => ~Left(query, "findOthers")
  BY <1>2, <1>4, <1>6, <1>11
<1>18. Has(s, "findOthers") /\ step \notin {"findOthers", "findDefaults"} => n + 1 >= 3
  <2> SUFFICES ASSUME Has(s, "findOthers"), step \notin {"findOthers", "findDefaults"}, n + 1 < 3
               PROVE  FALSE
    BY <1>2, <1>4
  <2>1. Has(s, "findDefaults")
    BY <1>3 DEF StepsKnown
  <2>2. s[1] = "findDefaults" /\ s[2] = "findOthers"
    BY <1>11, <2>1 DEF Has
  <2>3. n + 1 = 1 \/ n + 1 = 2
    BY <1>2, <1>4
  <2> QED
    BY <1>5, <2>2, <2>3
<1>19. step = "findOthers" => ~Left(query, "findDefaults") /\ (Has(s, "slice") => Left(p, "slice"))
  <2> SUFFICES ASSUME step = "findOthers"
               PROVE  ~Left(query, "findDefaults") /\ (Has(s, "slice") => Left(p, "slice"))
    OBVIOUS
  <2>1. n + 1 = 2
    BY <1>5, <1>11
  <2>2. ASSUME NEW j \in 1..Len(s), s[j] = "slice" PROVE j > n + 1
    <3>1. Has(s, "findDefaults")
      BY <1>3, <1>8 DEF StepsKnown
    <3>2. s[1] = "findDefaults"
      BY <1>11, <3>1 DEF Has
    <3>3. j # 1 /\ j # 2
      BY <1>5, <2>1, <2>2, <3>2
    <3> QED
      BY <1>4, <2>1, <3>3
  <2> QED
    BY <1>7, <1>16, <2>1, <2>2 DEF Has
<1>20. step = "slice" => ~Left(query, "findDefaults") /\ ~Left(query, "findOthers")
  <2>1. step = "slice" => Has(s, "findOthers")
    BY <1>3, <1>8 DEF StepsKnown, MetaEndpoints
  <2> QED
    BY <1>2, <1>4, <1>16, <1>17, <1>18, <2>1
<1>21. query.request.endpoint = "metadata" /\ step = "details" =>
         ~Left(query, "findDefaults") /\ ~Left(query, "findOthers")
  <2>1. query.request.endpoint = "metadata" => Has(s, "findOthers")
    BY <1>3 DEF StepsKnown, MetaEndpoints
  <2> QED
    BY <1>2, <1>4, <1>16, <1>17, <1>18, <2>1
<1>22. step \in {"allOfChains", "allOfEntries", "getTransactionsByIDs"} =>
         ~Left(query, "find") /\ ~Left(query, "list") /\ ~Left(query, "getBlock")
  <2> SUFFICES ASSUME step \in {"allOfChains", "allOfEntries", "getTransactionsByIDs"},
                      NEW i \in 1..Len(s), s[i] \in {"find", "list", "getBlock"}, i > n
               PROVE  FALSE
    BY <1>6
  <2>1. i < n + 1
    BY <1>5, <1>11
  <2> QED
    BY <1>2, <1>4, <2>1
<1>23. ASSUME step = "find", NEW x \in {"allOfChains", "allOfEntries", "getTransactionsByIDs"}, Has(s, x)
       PROVE  Left(p, x)
  BY <1>5, <1>7, <1>11, <1>23 DEF Has
<1>24. \A x : Left(query, x) => Has(s, x)
  BY <1>6 DEF Has
<1> QED
  BY <1>24, <1>3, <1>8, <1>10, <1>12, <1>13, <1>14, <1>15, <1>19, <1>20, <1>21, <1>22, <1>23 DEF s

\* What a step that reads changes of the query.
SameQuery(q, p) ==
  /\ p.given = q.given /\ p.request = q.request /\ p.about = q.about /\ p.quiet = q.quiet
  /\ p.steps = Tail(q.steps)
SamePending(q, p) ==
  p.offset = q.offset /\ p.limit = q.limit /\ p.pending = q.pending /\ p.pendingTotal = q.pendingTotal

LEMMA ReadChanges ==
  ASSUME QueryInv, NEW step, AtStep(step), NEW d, NEW t,
         \/ query' = [Advance(query) EXCEPT !.data = d, !.total = t]
         \/ query' = [Advance(query) EXCEPT !.data = d]
         \/ query' = [Advance(query) EXCEPT !.total = t]
         \/ query' = Advance(query)
  PROVE  /\ SameQuery(query, query') /\ SamePending(query, query')
         /\ query' = [Advance(query) EXCEPT !.data = d, !.total = t] =>
              query'.data = d /\ query'.total = t
         /\ query' = [Advance(query) EXCEPT !.data = d] =>
              query'.data = d /\ query'.total = query.total
         /\ query' = [Advance(query) EXCEPT !.total = t] =>
              query'.data = query.data /\ query'.total = t
         /\ query' = Advance(query) =>
              query'.data = query.data /\ query'.total = query.total
<1> DEFINE a == Advance(query)
<1>1. QueryTyped(query) /\ query.steps # << >> /\ Head(query.steps) = step
  BY DEF QueryInv, AtStep
<1>2. /\ DOMAIN a = QueryFields /\ a.steps = Tail(query.steps)
      /\ \A f \in QueryFields \ {"steps", "status"} : a[f] = query[f]
  BY <1>1, AdvanceIs DEF QueryTyped
<1> HIDE DEF a
<1>3. /\ a.request = query.request /\ a.about = query.about /\ a.quiet = query.quiet
      /\ a.given = query.given
      /\ a.offset = query.offset /\ a.limit = query.limit /\ a.pending = query.pending
      /\ a.pendingTotal = query.pendingTotal /\ a.data = query.data /\ a.total = query.total
  BY <1>2 DEF QueryFields
<1>4. \/ query' = [a EXCEPT !.data = d, !.total = t]
      \/ query' = [a EXCEPT !.data = d]
      \/ query' = [a EXCEPT !.total = t]
      \/ query' = a
  BY DEF a
<1>5. \A f \in QueryFields \ {"data", "total"} : query'[f] = a[f]
  BY <1>2, <1>4 DEF QueryFields
<1>6. SameQuery(query, query') /\ SamePending(query, query')
  BY <1>2, <1>3, <1>5 DEF SameQuery, SamePending, QueryFields
<1>7. /\ query' = [a EXCEPT !.data = d, !.total = t] => query'.data = d /\ query'.total = t
      /\ query' = [a EXCEPT !.data = d] => query'.data = d /\ query'.total = query.total
      /\ query' = [a EXCEPT !.total = t] => query'.data = query.data /\ query'.total = t
      /\ query' = a => query'.data = query.data /\ query'.total = query.total
  BY <1>2, <1>3 DEF QueryFields
<1> QED
  BY <1>6, <1>7 DEF a

\* Requests without an account that is known have an empty answer.
Asked(q) == q.request.endpoint \in Identified => q.about # None

\* A step leaves the parts of the invariant alone that it is not about.
LEMMA Untouched ==
  ASSUME NEW q, NEW p, NEW step, NEW ch, NEW pl, QuietOK(q, ch, pl), p.request = q.request,
         \A x : Left(p, x) <=> Left(q, x) /\ x # step
  PROVE  /\ /\ step \notin {"find", "list", "getBlock"} /\ p.data = q.data
            /\ p.offset = q.offset /\ p.limit = q.limit
            => PageOK(p, ch)
         /\ step \notin {"count", "list"} /\ p.total = q.total => TotalOK(p, ch)
         /\ (p.request.endpoint = "pendingAndOther" => Left(p, "merge")) => MergeOK(p, ch, pl)
         /\ p.request.endpoint # "blocks" => BlocksOK(p, ch)
         /\ /\ p.request.endpoint = "blocks" => Left(p, "setLastBlock")
            /\ step # "count" /\ p.total = q.total /\ p.data = q.data
            => BlocksOK(p, ch)
         /\ step \notin {"findDefaults", "findOthers", "slice"} /\ Keys(p.data) = Keys(q.data) =>
              AppsOK(p, ch)
         /\ step \notin {"allOfChains", "allOfEntries"} /\ Keys(p.data) = Keys(q.data) =>
              TokensOK(p, ch)
         /\ p.request.endpoint \notin MetaEndpoints => AppsOK(p, ch)
         /\ p.request.endpoint \notin TokenEndpoints => TokensOK(p, ch)
<1>1. ASSUME step \notin {"find", "list", "getBlock"}, p.data = q.data,
             p.offset = q.offset, p.limit = q.limit
      PROVE  PageOK(p, ch)
  <2>1. PageOK(q, ch)
    BY DEF QuietOK
  <2> QED
    BY <1>1, <2>1 DEF PageOK
<1>2. ASSUME step \notin {"count", "list"}, p.total = q.total PROVE TotalOK(p, ch)
  <2>1. TotalOK(q, ch)
    BY DEF QuietOK
  <2> QED
    BY <1>2, <2>1 DEF TotalOK
<1>3. (p.request.endpoint = "pendingAndOther" => Left(p, "merge")) => MergeOK(p, ch, pl)
  BY DEF MergeOK
<1>4. p.request.endpoint # "blocks" => BlocksOK(p, ch)
  BY DEF BlocksOK
<1>5. ASSUME p.request.endpoint = "blocks" => Left(p, "setLastBlock"),
             step # "count", p.total = q.total, p.data = q.data
      PROVE  BlocksOK(p, ch)
  <2>1. BlocksOK(q, ch)
    BY DEF QuietOK
  <2> QED
    BY <1>5, <2>1 DEF BlocksOK
<1>6. ASSUME step \notin {"findDefaults", "findOthers", "slice"}, Keys(p.data) = Keys(q.data)
      PROVE  AppsOK(p, ch)
  <2>1. AppsOK(q, ch)
    BY DEF QuietOK
  <2> QED
    BY <1>6, <2>1 DEF AppsOK
<1>7. ASSUME step \notin {"allOfChains", "allOfEntries"}, Keys(p.data) = Keys(q.data)
      PROVE  TokensOK(p, ch)
  <2>1. TokensOK(q, ch)
    BY DEF QuietOK
  <2> QED
    BY <1>7, <2>1 DEF TokensOK, HasWanted
<1>8. /\ p.request.endpoint \notin MetaEndpoints => AppsOK(p, ch)
      /\ p.request.endpoint \notin TokenEndpoints => TokensOK(p, ch)
  BY DEF AppsOK, TokensOK, TokenEndpoints
<1> QED
  BY <1>1, <1>2, <1>3, <1>4, <1>5, <1>6, <1>7, <1>8

LEMMA PendingUntouched ==
  ASSUME NEW q, NEW p, NEW step, step # "getPending", NEW pl, PendingOK(q, pl),
         p.request = q.request, SamePending(q, p),
         \A x : Left(p, x) <=> Left(q, x) /\ x # step
  PROVE  PendingOK(p, pl)
  BY DEF PendingOK, PendingRead, SamePending

\* What the invariant says at a step, and what a step has to show.
LEMMA QuietAt ==
  ASSUME QueryInv, QuietInv, query.quiet, NEW step, AtStep(step)
  PROVE  /\ rows = chain /\ pendingTransactionsList = pool
         /\ PendingOK(query, pool) /\ GivenOK(query, chain)
         /\ query.request.endpoint \in NodeLists => ~query.request.desc
         /\ Asked(query) => QuietOK(query, chain, pool)
  BY DEF QuietInv, AtStep, Asked

LEMMA QuietStepIs ==
  ASSUME QueryInv, QuietInv, NEW step, AtStep(step),
         UNCHANGED <<chain, rows, pool, pendingTransactionsList>>, SameQuery(query, query'),
         query.quiet => PendingOK(query', pool) /\ (Asked(query) => QuietOK(query', chain, pool))
  PROVE  QuietInv'
<1>1. /\ query'.quiet = query.quiet /\ query'.request = query.request /\ query'.about = query.about
      /\ query'.given = query.given /\ query'.steps = Tail(query.steps)
      /\ chain' = chain /\ rows' = rows /\ pool' = pool
      /\ pendingTransactionsList' = pendingTransactionsList
  BY DEF SameQuery
<1>2. ChainOK'
  BY <1>1 DEF QuietInv, ChainOK
<1>3. ASSUME query.quiet
      PROVE  /\ rows = chain /\ pendingTransactionsList = pool
             /\ PendingOK(query', pool) /\ GivenOK(query, chain)
             /\ query.request.endpoint \in NodeLists => ~query.request.desc
             /\ Asked(query) => QuietOK(query', chain, pool)
  BY <1>3, QuietAt
<1>4. query.quiet => (PendingOK(query, pool))'
  BY <1>1, <1>3 DEF PendingOK, PendingRead, Left
<1>6. query.quiet => (GivenOK(query, chain))'
  <2> DEFINE p == query'
  <2>1. p.request = query.request /\ p.given = query.given /\ p.steps = Tail(query.steps)
    BY <1>1
  <2> HIDE DEF p
  <2>2. Left(p, "findBlock") => Left(query, "findBlock")
    BY <2>1, StepsLeftAt
  <2>3. query.quiet => GivenOK(p, chain)
    BY <1>3, <2>1, <2>2 DEF GivenOK
  <2>4. query.quiet => GivenOK(query', chain')
    BY <1>1, <2>3 DEF p
  <2> QED
    BY <2>4
<1>5. query.quiet /\ Asked(query) => (QuietOK(query, chain, pool))'
  <2> SUFFICES ASSUME query.quiet, Asked(query) PROVE (QuietOK(query, chain, pool))'
    OBVIOUS
  <2>1. QuietOK(query', chain, pool)
    BY <1>3
  <2>2. QuietOK(query', chain', pool')
    BY <1>1, <2>1
  <2> QED
    BY <2>2
<1> QED
  BY <1>1, <1>2, <1>3, <1>4, <1>5, <1>6 DEF QuietInv, Asked

LEMMA KeysExist == ChainOK => 1 \in Key
  BY QueriesAssumption, KeyFinite, FS_CardinalityType DEF ChainOK

\* Before anything is read there is nothing to show.
LEMMA FreshOK ==
  ASSUME NEW q, NEW ch, NEW pl, 1 \in Key, q.request.endpoint \in Endpoints,
         q.request.flagged \in BOOLEAN,
         \A x \in StepNames \ {"identify", "findBlock"} : Left(q, x) <=> Has(Steps(q.request), x)
  PROVE  QuietOK(q, ch, pl)
<1> DEFINE r == q.request
           e == r.endpoint
           s == Steps(r)
<1>1. StepsKnown(s, r)
  BY StepsAreKnown
<1>2. ~r.flagged => getTokenSummary(r) # {}
  BY DEF getTokenSummary
<1> HIDE DEF s
<1>3. \A x \in {"find", "list", "getBlock", "allOfChains", "allOfEntries", "merge", "count", "setLastBlock",
               "findDefaults"} : Left(q, x) <=> Has(s, x)
  BY DEF StepNames, s
<1>4. PageOK(q, ch)
  BY <1>1, <1>3 DEF PageOK, StepsKnown, TokenEndpoints, Pages
<1>5. TotalOK(q, ch)
  BY <1>1, <1>2, <1>3 DEF TotalOK, StepsKnown, Listed
<1>6. MergeOK(q, ch, pl)
  BY <1>1, <1>3 DEF MergeOK, StepsKnown
<1>7. BlocksOK(q, ch)
  BY <1>1, <1>3 DEF BlocksOK, StepsKnown
<1>8. AppsOK(q, ch)
  BY <1>1, <1>3 DEF AppsOK, StepsKnown
<1>9. TokensOK(q, ch)
  BY <1>1, <1>2, <1>3 DEF TokensOK, StepsKnown
<1> QED
  BY <1>4, <1>5, <1>6, <1>7, <1>8, <1>9 DEF QuietOK

LEMMA AskStaysQuiet ==
  ASSUME QueryInv, QuietInv, NEW given \in QueryRequests, Ask(given)
  PROVE  QuietInv'
<1> DEFINE r == params(given)
<1>1. /\ RequestTyped(r) /\ r.endpoint \in Endpoints
      /\ r.endpoint \in NodeLists => ~r.desc
  BY ParamsTyped
<1>2. UNCHANGED <<chain, rows, pool, pendingTransactionsList>>
  BY DEF Ask
<1>3. /\ query'.request = r /\ query'.steps = Steps(r) /\ query'.status = "running"
      /\ query'.offset = r.offset /\ query'.limit = r.limit /\ query'.pending = << >>
      /\ query'.quiet => rows = chain /\ pendingTransactionsList = pool
      /\ query'.given = given
  BY DEF Ask, NewQuery
<1>0. r.endpoint = "events" /\ ~(given.owner # None /\ given.party # None) => r = given
  <2>1. given \in Requests
    BY QueriesAssumption
  <2>2. given.party = None => [given EXCEPT !.party = None] = given
    BY <2>1 DEF Requests
  <2>3. given.endpoint \in {"audiosOfOwner", "subscriptionsOfMember"} => r.endpoint = given.endpoint
    BY DEF params, NoRequest
  <2> QED
    BY <2>2, <2>3 DEF params
<1> HIDE DEF r
<1> DEFINE p == query'
<1>4. \A x : Left(p, x) <=> Has(Steps(r), x)
  BY <1>3 DEF Left, Has
<1>5. PendingOK(p, pool)
  <2>1. r.endpoint = "pendingAndOther" => Has(Steps(r), "getPending")
    BY <1>1, StepsAreKnown DEF StepsKnown
  <2> QED
    BY <1>3, <1>4, <2>1 DEF PendingOK
<1>6. QuietOK(p, chain, pool)
  <2>1. 1 \in Key
    BY KeysExist DEF QuietInv
  <2>2. p.request = r /\ r.flagged \in BOOLEAN
    BY <1>1, <1>3 DEF RequestTyped
  <2> HIDE DEF p
  <2> QED
    BY <1>1, <1>4, <2>1, <2>2, FreshOK
<1>7. ChainOK'
  BY <1>2 DEF QuietInv, ChainOK
<1>9. GivenOK(p, chain)
  BY <1>0, <1>3 DEF GivenOK
<1>8. (PendingOK(query, pool))' /\ (GivenOK(query, chain))' /\ (QuietOK(query, chain, pool))'
  <2>1. PendingOK(query', pool') /\ GivenOK(query', chain') /\ QuietOK(query', chain', pool')
    BY <1>2, <1>5, <1>6, <1>9
  <2> QED
    BY <2>1
<1> QED
  BY <1>1, <1>2, <1>3, <1>7, <1>8 DEF QuietInv

LEMMA IdentifyStaysQuiet ==
  ASSUME QueryInv, QuietInv, identify
  PROVE  QuietInv'
<1> DEFINE r == query.request
           a == accountOf(r)
           o == [r EXCEPT !.owner = a]
           adv == Advance(query)
<1>1. AtStep("identify") /\ UNCHANGED <<chain, rows, pool, pendingTransactionsList>>
  BY DEF identify, QueryUnchanged
<1>2. /\ query.status = "running" /\ query.steps # << >> /\ Head(query.steps) = "identify"
      /\ QueryTyped(query) /\ RequestTyped(r) /\ r.endpoint \in Endpoints
      /\ IdentityInv(query)
  BY <1>1, AtStepFacts DEF AtStep, QueryInv
<1>3. r.endpoint \in Identified /\ query.about = None
  BY <1>1, <1>2, AtStepOrdered DEF IdentityInv
<1>4. /\ DOMAIN adv = QueryFields
      /\ \A f \in QueryFields \ {"steps", "status"} : adv[f] = query[f]
      /\ adv.steps = Tail(query.steps)
  BY <1>2, AdvanceIs DEF QueryTyped
<1>5. ChainOK' /\ 1 \in Key
  BY <1>1, KeysExist DEF QuietInv, ChainOK
<1>6. /\ query.quiet => rows = chain /\ pendingTransactionsList = pool
      /\ query.quiet => PendingOK(query, pool) /\ (r.endpoint \in NodeLists => ~r.desc)
  BY <1>2 DEF QuietInv
<1>7. CASE a # None
  <2>1. query' = [adv EXCEPT !.about = a, !.request.owner = a, !.seen = Seen(chain, rows, o)]
    BY <1>7 DEF identify
  <2>2. Steps(o) = Steps(r) /\ o.endpoint = r.endpoint
    BY <1>2, <1>3, SameSteps
  <2> HIDE DEF a, adv
  <2>3. adv.request = r
    BY <1>4 DEF QueryFields
  <2>4. /\ query'.request = o
        /\ \A f \in QueryFields \ {"request", "about", "seen"} : query'[f] = adv[f]
    BY <1>4, <2>1, <2>3 DEF QueryFields
  <2>5. /\ query'.steps = Tail(query.steps) /\ query'.quiet = query.quiet
        /\ query'.offset = query.offset /\ query'.limit = query.limit /\ query'.pending = query.pending
    BY <1>4, <2>4 DEF QueryFields
  <2>6. /\ o.desc = r.desc /\ o.flagged = r.flagged /\ o.offset = r.offset /\ o.limit = r.limit
    BY <1>2 DEF RequestTyped, RequestFields
  <2> HIDE DEF o
  <2> DEFINE p == query'
  <2>7. p.steps = Tail(query.steps) /\ p.request = o
    BY <2>4, <2>5
  <2> HIDE DEF p
  <2>8. \A x \in StepNames \ {"identify", "findBlock"} : Left(p, x) <=> Has(Steps(o), x)
    <3>1. \A x : Has(Steps(r), x) /\ x # "identify" => Left(p, x)
      BY <1>1, <2>7, StepsLeftAt
    <3>2. \A x : Left(p, x) => Has(Steps(r), x)
      BY <1>1, <2>7, StepsLeftAt
    <3> QED
      BY <2>2, <3>1, <3>2
  <2>9. QuietOK(p, chain, pool)
    <3>1. o.endpoint \in Endpoints /\ o.flagged \in BOOLEAN
      BY <1>2, <2>2, <2>6 DEF RequestTyped
    <3> QED
      BY <1>5, <2>7, <2>8, <3>1, FreshOK
  <2>10. query.quiet => PendingOK(p, pool)
    <3>1. o.endpoint # "pendingAndOther"
      BY <1>3, <2>2 DEF Identified
    <3> QED
      BY <1>6, <2>2, <2>5, <2>6, <2>7, <3>1 DEF PendingOK, p
  <2>11. query.quiet => (PendingOK(query, pool))' /\ (QuietOK(query, chain, pool))'
    <3>1. query.quiet => PendingOK(query', pool') /\ QuietOK(query', chain', pool')
      BY <1>1, <2>9, <2>10 DEF p
    <3> QED
      BY <3>1
  <2>12. query.quiet => ((query.request.endpoint \in NodeLists => ~query.request.desc))'
    BY <1>6, <2>2, <2>4, <2>6
  <2>13. (GivenOK(query, chain))'
    BY <1>3, <2>2, <2>4 DEF GivenOK, Identified
  <2> QED
    BY <1>1, <1>5, <1>6, <2>5, <2>11, <2>12, <2>13 DEF QuietInv
<1>8. CASE a = None /\ r.endpoint \in {"stakes", "unlocks"}
  <2>1. query' = Fail(query)
    BY <1>8 DEF identify
  <2>2. query'.status = "failed" /\ query'.quiet = query.quiet
    BY <1>2, <2>1 DEF Fail, QueryTyped, QueryFields
  <2> QED
    BY <1>1, <1>5, <1>6, <2>2 DEF QuietInv
<1>9. CASE a = None /\ r.endpoint \notin {"stakes", "unlocks"}
  <2>1. query' = [adv EXCEPT !.steps = << >>, !.status = "answered"]
    BY <1>9 DEF identify
  <2> HIDE DEF adv
  <2>2. \A f \in QueryFields \ {"steps", "status"} : query'[f] = query[f]
    BY <1>4, <2>1 DEF QueryFields
  <2>3. /\ query'.request = r /\ query'.about = None /\ query'.quiet = query.quiet
        /\ query'.offset = query.offset /\ query'.limit = query.limit /\ query'.pending = query.pending
    BY <1>3, <2>2 DEF QueryFields
  <2>4. query.quiet => (PendingOK(query, pool))'
    BY <1>3, <1>6, <2>3 DEF PendingOK, Identified
  <2>5. (GivenOK(query, chain))'
    BY <1>3, <2>3 DEF GivenOK, Identified
  <2> QED
    BY <1>1, <1>3, <1>5, <1>6, <2>3, <2>4, <2>5 DEF QuietInv
<1> QED
  BY <1>7, <1>8, <1>9

LEMMA KeysPositive == \A k \in Key : k \in Nat /\ k # 0
<1>1. Key = 1..Cardinality(Key) /\ Cardinality(Key) \in Nat
  BY QueriesAssumption, KeyFinite, FS_CardinalityType
<1> QED
  BY <1>1

\* A request that fails has no answer.
LEMMA FailStaysQuiet ==
  ASSUME QueryInv, QuietInv, NEW step, AtStep(step), query' = Fail(query),
         UNCHANGED <<chain, rows, pool, pendingTransactionsList>>
  PROVE  QuietInv'
<1>1. query'.status = "failed" /\ query'.quiet = query.quiet
  BY DEF Fail, QueryInv, QueryTyped, QueryFields
<1>2. ChainOK'
  BY DEF QuietInv, ChainOK
<1> QED
  BY <1>1, <1>2 DEF QuietInv

\* The height of a block finds the same rows as its ID.
LEMMA SameByHeight ==
  ASSUME NEW r, RequestTyped(r), r.id # NoID, r.height = 0, NEW ch, ch[r.id[1]] = r.id[2],
         NEW o, o = [r EXCEPT !.id = NoID, !.height = r.id[1]]
  PROVE  matching(ch, o) = matching(ch, r)
<1>1. r.id \in Key \X Version /\ r.id = <<r.id[1], r.id[2]>>
  BY DEF RequestTyped
<1>2. /\ o.owner = r.owner /\ o.party = r.party /\ o.to = r.to
      /\ o.id = NoID /\ o.height = r.id[1]
  BY DEF RequestTyped, RequestFields
<1>3. \A k \in Key : <<k, ch[k]>> = r.id <=> k = r.id[1]
  BY <1>1
<1>4. r.id[1] # 0
  BY <1>1, KeysPositive
<1> QED
  BY <1>2, <1>3, <1>4 DEF matching, Fits

LEMMA FindBlockStaysQuiet ==
  ASSUME QueryInv, QuietInv, findBlock
  PROVE  QuietInv'
<1> DEFINE r == query.request
           o == [r EXCEPT !.id = NoID, !.height = r.id[1]]
           adv == Advance(query)
<1>1. AtStep("findBlock") /\ UNCHANGED <<chain, rows, pool, pendingTransactionsList>>
  BY DEF findBlock, QueryUnchanged
<1>2. /\ query.status = "running" /\ query.steps # << >> /\ Head(query.steps) = "findBlock"
      /\ QueryTyped(query) /\ RequestTyped(r) /\ r.endpoint \in Endpoints
  BY <1>1, AtStepFacts DEF AtStep, QueryInv
<1>3. r.endpoint = "events" /\ Left(query, "findBlock")
  <2>1. adv.steps = Tail(query.steps)
    BY <1>2, AdvanceIs DEF QueryTyped
  <2> HIDE DEF adv
  <2>2. Left(query, "findBlock")
    BY <1>1, <2>1, StepsLeftAt
  <2>3. r.endpoint = "events"
    BY <1>1, AtStepOrdered
  <2> QED
    BY <2>2, <2>3
<1>4. /\ DOMAIN adv = QueryFields
      /\ \A f \in QueryFields \ {"steps", "status"} : adv[f] = query[f]
      /\ adv.steps = Tail(query.steps)
  BY <1>2, AdvanceIs DEF QueryTyped
<1>5. ChainOK' /\ 1 \in Key
  BY <1>1, KeysExist DEF QuietInv, ChainOK
<1>6. query.quiet => /\ rows = chain /\ pendingTransactionsList = pool
                     /\ PendingOK(query, pool) /\ GivenOK(query, chain)
  BY <1>2 DEF QuietInv
<1>7. \/ query' = Fail(query)
      \/ query' = adv
      \/ /\ r.id # NoID /\ rows[r.id[1]] = r.id[2] /\ r.height = 0
         /\ query' = [adv EXCEPT !.request = o, !.seen = Seen(chain, rows, o)]
  BY DEF findBlock
<1>8. CASE query' = Fail(query)
  BY <1>1, <1>8, FailStaysQuiet
<1>9. ASSUME NEW fresh \in {r, o}, RequestTyped(fresh), fresh.endpoint = "events",
             fresh.desc = r.desc, fresh.offset = r.offset, fresh.limit = r.limit,
             query.quiet => matching(chain, fresh) = matching(chain, r),
             query'.request = fresh,
             \A f \in QueryFields \ {"request", "seen"} : query'[f] = adv[f]
      PROVE  QuietInv'
  <2> HIDE DEF adv, o
  <2>1. /\ query'.steps = Tail(query.steps) /\ query'.quiet = query.quiet /\ query'.given = query.given
        /\ query'.offset = query.offset /\ query'.limit = query.limit /\ query'.pending = query.pending
    BY <1>4, <1>9 DEF QueryFields
  <2> DEFINE p == query'
  <2>2. /\ p.steps = Tail(query.steps) /\ p.request = fresh /\ p.given = query.given
        /\ p.offset = query.offset /\ p.limit = query.limit /\ p.pending = query.pending
    BY <1>9, <2>1
  <2> HIDE DEF p
  <2>3. Steps(fresh) = Steps(r)
    BY <1>3, <1>9, StepsAre
  <2>4. /\ \A x : Has(Steps(r), x) /\ x # "findBlock" => Left(p, x)
        /\ \A x : Left(p, x) => Has(Steps(r), x) /\ x # "findBlock"
    BY <1>1, <2>2, StepsLeftAt
  <2>5. \A x \in StepNames \ {"identify", "findBlock"} : Left(p, x) <=> Has(Steps(fresh), x)
    BY <2>3, <2>4
  <2>6. QuietOK(p, chain, pool)
    <3>1. fresh.endpoint \in Endpoints /\ fresh.flagged \in BOOLEAN
      BY <1>2, <1>3, <1>9 DEF RequestTyped
    <3> QED
      BY <1>5, <2>2, <2>5, <3>1, FreshOK
  <2>7. query.quiet => PendingOK(p, pool)
    BY <1>3, <1>6, <1>9, <2>2 DEF PendingOK
  <2>8. query.quiet => GivenOK(p, chain)
    BY <1>3, <1>6, <1>9, <2>2, <2>4 DEF GivenOK
  <2>9. query.quiet => (PendingOK(query, pool))' /\ (GivenOK(query, chain))' /\ (QuietOK(query, chain, pool))'
    <3>1. query.quiet => PendingOK(query', pool') /\ GivenOK(query', chain') /\ QuietOK(query', chain', pool')
      BY <1>1, <2>6, <2>7, <2>8 DEF p
    <3> QED
      BY <3>1
  <2>10. query'.request.endpoint \notin NodeLists
    BY <1>9 DEF NodeLists
  <2> QED
    BY <1>1, <1>5, <1>6, <2>1, <2>9, <2>10 DEF QuietInv
<1>10. CASE query' = adv
  <2>1. adv.request = r
    BY <1>4 DEF QueryFields
  <2> QED
    BY <1>2, <1>3, <1>9, <1>10, <2>1
<1>11. CASE /\ r.id # NoID /\ rows[r.id[1]] = r.id[2] /\ r.height = 0
            /\ query' = [adv EXCEPT !.request = o, !.seen = Seen(chain, rows, o)]
  <2> HIDE DEF adv
  <2>1. r.id[1] \in Key
    BY <1>2, <1>11 DEF RequestTyped
  <2>2. /\ RequestTyped(o) /\ o.endpoint = "events"
        /\ o.desc = r.desc /\ o.offset = r.offset /\ o.limit = r.limit
    BY <1>2, <1>3, <2>1 DEF RequestTyped, RequestFields
  <2>3. /\ query'.request = o
        /\ \A f \in QueryFields \ {"request", "seen"} : query'[f] = adv[f]
    BY <1>4, <1>11 DEF QueryFields
  <2>4. query.quiet => matching(chain, o) = matching(chain, r)
    BY <1>2, <1>6, <1>11, SameByHeight
  <2> HIDE DEF o
  <2> QED
    BY <1>9, <2>2, <2>3, <2>4
<1> QED
  BY <1>7, <1>8, <1>10, <1>11

\* What holds after a step, whatever it has read.
LEMMA QuietAfter ==
  ASSUME QueryInv, QuietInv, NEW step, AtStep(step), query.quiet, Asked(query),
         NEW p, SameQuery(query, p)
  PROVE  /\ rows = chain /\ pendingTransactionsList = pool
         /\ QuietOK(query, chain, pool) /\ PendingOK(query, pool)
         /\ p.request = query.request
         /\ StepsKnown(Steps(query.request), query.request) /\ Has(Steps(query.request), step)
         /\ Left(query, step)
         /\ \A x : Left(p, x) <=> Left(query, x) /\ x # step
         /\ step # "merge" /\ query.request.endpoint = "pendingAndOther" => Left(p, "merge")
         /\ step # "setLastBlock" /\ query.request.endpoint = "blocks" => Left(p, "setLastBlock")
         /\ step # "merge" => MergeOK(p, chain, pool)
         /\ query.request.endpoint # "blocks" => BlocksOK(p, chain)
         /\ query.request.endpoint \notin MetaEndpoints => AppsOK(p, chain)
         /\ query.request.endpoint \notin TokenEndpoints => TokensOK(p, chain)
         /\ step \notin {"count", "list"} /\ p.total = query.total => TotalOK(p, chain)
         /\ step \notin {"findDefaults", "findOthers", "slice"} /\ Keys(p.data) = Keys(query.data) =>
              AppsOK(p, chain)
         /\ step \notin {"allOfChains", "allOfEntries"} /\ Keys(p.data) = Keys(query.data) =>
              TokensOK(p, chain)
         /\ step \notin {"count", "setLastBlock"} /\ p.total = query.total /\ p.data = query.data =>
              BlocksOK(p, chain)
         /\ step \notin {"find", "list", "getBlock"} /\ SamePending(query, p) /\ p.data = query.data =>
              PageOK(p, chain)
<1> DEFINE s == Steps(query.request)
<1>1. /\ rows = chain /\ pendingTransactionsList = pool
      /\ QuietOK(query, chain, pool) /\ PendingOK(query, pool)
  BY QuietAt
<1>2. p.request = query.request /\ p.steps = Tail(query.steps)
  BY DEF SameQuery
<1>3. /\ StepsKnown(s, query.request) /\ Has(s, step) /\ Left(query, step)
      /\ \A x : Left(p, x) <=> Left(query, x) /\ x # step
      /\ \A x \in {"merge", "setLastBlock"} : Has(s, x) => Left(query, x)
  BY <1>2, StepsLeftAt
<1>4. /\ query.request.endpoint = "pendingAndOther" => Has(s, "merge")
      /\ query.request.endpoint = "blocks" => Has(s, "setLastBlock")
  BY <1>3 DEF StepsKnown
<1> HIDE DEF s
<1>5. /\ step # "merge" /\ query.request.endpoint = "pendingAndOther" => Left(p, "merge")
      /\ step # "setLastBlock" /\ query.request.endpoint = "blocks" => Left(p, "setLastBlock")
  BY <1>3, <1>4
<1>6. /\ step \notin {"find", "list", "getBlock"} /\ SamePending(query, p) /\ p.data = query.data =>
           PageOK(p, chain)
      /\ step \notin {"count", "list"} /\ p.total = query.total => TotalOK(p, chain)
      /\ step # "merge" => MergeOK(p, chain, pool)
  <2>1. SamePending(query, p) => p.offset = query.offset /\ p.limit = query.limit
    BY DEF SamePending
  <2>2. step # "merge" /\ p.request.endpoint = "pendingAndOther" => Left(p, "merge")
    BY <1>2, <1>5
  <2>3. ASSUME step \notin {"find", "list", "getBlock"}, p.data = query.data,
               p.offset = query.offset, p.limit = query.limit
        PROVE  PageOK(p, chain)
    BY <1>1, <1>2, <1>3, <2>3, Untouched
  <2>4. ASSUME step \notin {"count", "list"}, p.total = query.total PROVE TotalOK(p, chain)
    BY <1>1, <1>2, <1>3, <2>4, Untouched
  <2>5. ASSUME step # "merge" PROVE MergeOK(p, chain, pool)
    BY <1>2, <2>2, <2>5 DEF MergeOK
  <2> QED
    BY <2>1, <2>3, <2>4, <2>5
<1>7. /\ query.request.endpoint # "blocks" => BlocksOK(p, chain)
      /\ query.request.endpoint \notin MetaEndpoints => AppsOK(p, chain)
      /\ query.request.endpoint \notin TokenEndpoints => TokensOK(p, chain)
      /\ step \notin {"count", "setLastBlock"} /\ p.total = query.total /\ p.data = query.data =>
           BlocksOK(p, chain)
  BY <1>1, <1>2, <1>3, <1>5, Untouched
<1>8. /\ step \notin {"findDefaults", "findOthers", "slice"} /\ Keys(p.data) = Keys(query.data) =>
           AppsOK(p, chain)
      /\ step \notin {"allOfChains", "allOfEntries"} /\ Keys(p.data) = Keys(query.data) =>
           TokensOK(p, chain)
  BY <1>1, <1>2, <1>3, Untouched
<1> QED
  BY <1>1, <1>2, <1>3, <1>5, <1>6, <1>7, <1>8 DEF s

\* A step that changes the data, the total or neither, and leaves an exact answer.
LEMMA ReadStaysQuiet ==
  ASSUME QueryInv, QuietInv, NEW step, AtStep(step), step # "getPending",
         UNCHANGED <<chain, rows, pool, pendingTransactionsList>>, NEW d, NEW t,
         \/ query' = [Advance(query) EXCEPT !.data = d, !.total = t]
         \/ query' = [Advance(query) EXCEPT !.data = d]
         \/ query' = [Advance(query) EXCEPT !.total = t]
         \/ query' = Advance(query),
         query.quiet /\ Asked(query) => QuietOK(query', chain, pool)
  PROVE  QuietInv'
<1>1. SameQuery(query, query') /\ SamePending(query, query')
  BY ReadChanges
<1>2. query'.steps = Tail(query.steps) /\ query'.request = query.request
  BY <1>1 DEF SameQuery
<1> DEFINE p == query'
<1>3. \A x : Left(p, x) <=> Left(query, x) /\ x # step
  BY <1>2, StepsLeftAt
<1>4. SamePending(query, p) /\ p.request = query.request
  BY <1>1, <1>2
<1> HIDE DEF p
<1>5. query.quiet => PendingOK(query, pool)
  BY QuietAt
<1>6. query.quiet => PendingOK(p, pool)
  BY <1>3, <1>4, <1>5, PendingUntouched
<1> QED
  BY <1>1, <1>6, QuietStepIs DEF p

LEMMA CountStaysQuiet ==
  ASSUME QueryInv, QuietInv, countRows
  PROVE  QuietInv'
<1> DEFINE t == Cardinality(matching(rows, query.request))
           p == query'
<1>1. /\ AtStep("count") /\ query' = [Advance(query) EXCEPT !.total = t]
      /\ UNCHANGED <<chain, rows, pool, pendingTransactionsList>>
  BY DEF countRows, QueryUnchanged
<1>2. /\ SameQuery(query, p) /\ SamePending(query, p)
      /\ p.data = query.data /\ p.total = t
  BY <1>1, ReadChanges
<1> HIDE DEF p
<1>3. ASSUME query.quiet, Asked(query)
      PROVE  QuietOK(p, chain, pool)
  <2>1. /\ p.request = query.request /\ rows = chain
        /\ PageOK(p, chain) /\ MergeOK(p, chain, pool) /\ AppsOK(p, chain) /\ TokensOK(p, chain)
        /\ query.request.endpoint = "blocks" => Left(p, "setLastBlock")
    BY <1>1, <1>2, <1>3, QuietAfter
  <2>2. p.total = Cardinality(matching(chain, p.request))
    BY <1>2, <2>1
  <2>3. TotalOK(p, chain)
    BY <2>2 DEF TotalOK
  <2>4. BlocksOK(p, chain)
    BY <2>1, <2>2 DEF BlocksOK
  <2> QED
    BY <2>1, <2>3, <2>4 DEF QuietOK
<1> HIDE DEF t
<1> QED
  BY <1>1, <1>3, ReadStaysQuiet DEF p

LEMMA FindStaysQuiet ==
  ASSUME QueryInv, QuietInv, findRows
  PROVE  QuietInv'
<1> DEFINE d == queryBuilder(rows, query.request, query.offset, query.limit)
           p == query'
           e == query.request.endpoint
<1>1. /\ AtStep("find") /\ query' = [Advance(query) EXCEPT !.data = d]
      /\ UNCHANGED <<chain, rows, pool, pendingTransactionsList>>
  BY DEF findRows, QueryUnchanged
<1>2. /\ SameQuery(query, p) /\ SamePending(query, p)
      /\ p.data = d /\ p.total = query.total /\ p.steps = Tail(query.steps)
  BY <1>1, ReadChanges DEF SameQuery
<1> HIDE DEF p
<1>3. ASSUME query.quiet, Asked(query)
      PROVE  QuietOK(p, chain, pool)
  <2> DEFINE s == Steps(query.request)
  <2>1. /\ p.request = query.request /\ rows = chain /\ StepsKnown(s, query.request)
        /\ TotalOK(p, chain) /\ MergeOK(p, chain, pool)
        /\ QuietOK(query, chain, pool)
        /\ \A x : Left(p, x) <=> Left(query, x) /\ x # "find"
        /\ e = "blocks" => Left(p, "setLastBlock")
    BY <1>1, <1>2, <1>3, QuietAfter
  <2>2. /\ Has(s, "allOfChains") => Left(p, "allOfChains")
        /\ Has(s, "allOfEntries") => Left(p, "allOfEntries")
        /\ Has(s, "find")
    BY <1>1, <1>2, StepsLeftAt
  <2> HIDE DEF s
  <2>3. FoundIn(p.data, chain, p.request, p.offset, p.limit)
    BY <1>2, <2>1 DEF FoundIn, queryBuilder, WantedIn, SamePending
  <2>4. PageOK(p, chain)
    BY <2>3 DEF PageOK
  <2>5. AppsOK(p, chain)
    BY <2>1, <2>2 DEF AppsOK, StepsKnown
  <2>6. TokensOK(p, chain)
    <3>1. e = "tokens" => Left(p, "allOfChains")
      BY <2>1, <2>2 DEF StepsKnown
    <3>2. e = "supportedTokens" => Left(p, "allOfEntries")
      <4>1. e = "supportedTokens" => getTokenSummary(query.request) # {}
        BY <1>1, <2>2, StepsAre DEF Has, s
      <4> QED
        BY <2>1, <2>2, <4>1 DEF StepsKnown
    <3> QED
      BY <2>1, <3>1, <3>2 DEF TokensOK
  <2>7. BlocksOK(p, chain)
    <3>1. BlocksOK(query, chain) /\ Left(query, "find")
      BY <1>1, <1>2, <2>1, StepsLeftAt DEF QuietOK
    <3> QED
      BY <1>2, <2>1, <3>1 DEF BlocksOK
  <2> QED
    BY <2>1, <2>4, <2>5, <2>6, <2>7 DEF QuietOK
<1> HIDE DEF d
<1> QED
  BY <1>1, <1>3, ReadStaysQuiet DEF p

\* Details are read again for the rows found: while nothing changes, they are the same.
LEMMA SameRows ==
  ASSUME NEW table \in Tables, NEW keys \in Seq(Key), NEW d, d = Rows(table, keys), NEW b
  PROVE  /\ d = [i \in DOMAIN d |-> Item(d[i].key, d[i].version, table[d[i].key])]
         /\ d = [i \in DOMAIN d |->
                   Item(d[i].key, IF i \in b THEN d[i].version ELSE table[d[i].key], table[d[i].key])]
<1>1. /\ d \in Seq(RowItem) /\ Len(d) = Len(keys)
      /\ d = [i \in DOMAIN keys |-> Item(keys[i], table[keys[i]], table[keys[i]])]
      /\ \A i \in 1..Len(keys) : d[i].key = keys[i] /\ d[i].version = table[keys[i]]
  BY RowsAre DEF Rows
<1>2. DOMAIN d = 1..Len(keys) /\ DOMAIN keys = 1..Len(keys)
  BY <1>1
<1>3. \A i \in DOMAIN d :
        /\ Item(d[i].key, d[i].version, table[d[i].key]) = Item(keys[i], table[keys[i]], table[keys[i]])
        /\ Item(d[i].key, IF i \in b THEN d[i].version ELSE table[d[i].key], table[d[i].key])
           = Item(keys[i], table[keys[i]], table[keys[i]])
  BY <1>1, <1>2
<1> QED
  BY <1>1, <1>2, <1>3

LEMMA WantedKeys ==
  ASSUME NEW ch, NEW r, r.desc \in BOOLEAN, NEW offset \in Nat, NEW limit \in Nat
  PROVE  /\ WantedIn(ch, r) \in Seq(Key) /\ Len(WantedIn(ch, r)) = Cardinality(matching(ch, r))
         /\ Page(WantedIn(ch, r), offset, limit) \in Seq(Key)
         /\ \A i \in 1..Len(Page(WantedIn(ch, r), offset, limit)) :
              Page(WantedIn(ch, r), offset, limit)[i] \in matching(ch, r)
         /\ Cardinality(matching(ch, r)) \in Nat
<1>1. matching(ch, r) \in SUBSET Key
  BY MatchingKeys
<1>2. /\ WantedIn(ch, r) \in Seq(Key) /\ Len(WantedIn(ch, r)) = Cardinality(matching(ch, r))
      /\ IsFiniteSet(matching(ch, r))
  BY <1>1, OrderedKeys DEF WantedIn
<1>3. /\ Page(WantedIn(ch, r), offset, limit) \in Seq(Key)
      /\ \A i \in 1..Len(Page(WantedIn(ch, r), offset, limit)) :
              Page(WantedIn(ch, r), offset, limit)[i] \in matching(ch, r)
  BY <1>1, PageOfKeys DEF WantedIn
<1> QED
  BY <1>2, <1>3, FS_CardinalityType

\* What was found can be looked up again, and is on the chain.
ReadAgain(d, ch, rw, b) ==
  [i \in DOMAIN d |-> Item(d[i].key, IF i \in b THEN d[i].version ELSE ch[d[i].key], rw[d[i].key])]

LEMMA FoundAgain ==
  ASSUME QueryInv, NEW step, AtStep(step), rows = chain,
         FoundIn(query.data, chain, query.request, query.offset, query.limit), NEW b
  PROVE  /\ query.data = ReadAgain(query.data, chain, rows, b)
         /\ query.data = [i \in DOMAIN query.data |->
              normalizeBlock(query.data[i].key, query.data[i].version)]
         /\ \A i \in DOMAIN query.data : onChain(query.data[i])
<1> DEFINE d == query.data
           keys == Page(WantedIn(chain, query.request), query.offset, query.limit)
<1>1. /\ chain \in Tables /\ query.request.desc \in BOOLEAN /\ query.offset \in Nat /\ query.limit \in Nat
      /\ d \in Seq(RowItem)
  BY AtStepFacts
<1>2. keys \in Seq(Key) /\ d = Rows(chain, keys) /\ \A i \in 1..Len(keys) : keys[i] \in matching(chain, query.request)
  <2>1. d = Rows(chain, keys)
    BY DEF FoundIn
  <2>2. keys \in Seq(Key) /\ \A i \in 1..Len(keys) : keys[i] \in matching(chain, query.request)
    <3> DEFINE r == query.request
               o == query.offset
               l == query.limit
    <3>1. r.desc \in BOOLEAN /\ o \in Nat /\ l \in Nat
      BY <1>1
    <3> HIDE DEF r, o, l
    <3>2. matching(chain, r) \in SUBSET Key
      BY MatchingKeys
    <3>3. /\ Page(WantedIn(chain, r), o, l) \in Seq(Key)
          /\ \A i \in 1..Len(Page(WantedIn(chain, r), o, l)) :
               Page(WantedIn(chain, r), o, l)[i] \in matching(chain, r)
      BY <3>1, <3>2, PageOfKeys DEF WantedIn
    <3> QED
      BY <3>3 DEF r, o, l
  <2> QED
    BY <2>1, <2>2
<1> HIDE DEF keys
<1>3. /\ d = [i \in DOMAIN d |-> Item(d[i].key, d[i].version, chain[d[i].key])]
      /\ d = [i \in DOMAIN d |->
                Item(d[i].key, IF i \in b THEN d[i].version ELSE chain[d[i].key], chain[d[i].key])]
  <2> HIDE DEF d
  <2> QED
    BY <1>1, <1>2, SameRows
<1>4. \A i \in DOMAIN d : chain[d[i].key] = d[i].version
  <2>1. DOMAIN d = 1..Len(keys) /\ \A i \in 1..Len(keys) : d[i].key = keys[i] /\ d[i].version = chain[keys[i]]
    BY <1>1, <1>2, RowsAre
  <2> QED
    BY <2>1
<1>5. \A i \in DOMAIN d : normalizeBlock(d[i].key, d[i].version) = Item(d[i].key, d[i].version, chain[d[i].key])
  BY DEF normalizeBlock
<1> QED
  BY <1>3, <1>4, <1>5 DEF onChain, ReadAgain

\* Looking up the details of what was found changes nothing, but perhaps those of
\* apps, whose keys stay the same.
LEMMA LookUpStaysQuiet ==
  ASSUME QueryInv, QuietInv, findDetails \/ getEventsByHeight
  PROVE  QuietInv'
<1> DEFINE r == query.request
           e == r.endpoint
           p == query'
<1>0. PICK step \in {"details", "getEventsByHeight"} : \E b :
        /\ AtStep(step) /\ UNCHANGED <<chain, rows, pool, pendingTransactionsList>>
        /\ query' = [Advance(query) EXCEPT !.data = [i \in DOMAIN @ |->
             Item(@[i].key, IF i \in b THEN @[i].version ELSE chain[@[i].key], rows[@[i].key])]]
  <2>0. ASSUME NEW step, AtStep(step) PROVE Advance(query).data = query.data
    BY <2>0, AtStepFacts, AdvanceIs DEF AtStep, QueryFields
  <2>1. CASE findDetails
    <3>1. /\ AtStep("details") /\ UNCHANGED <<chain, rows, pool, pendingTransactionsList>>
          /\ query' = [Advance(query) EXCEPT !.data = [i \in DOMAIN @ |-> Item(@[i].key, @[i].version, rows[@[i].key])]]
      BY <2>1 DEF findDetails, QueryUnchanged
    <3> DEFINE b == DOMAIN query.data
    <3>2. query' = [Advance(query) EXCEPT !.data = [i \in DOMAIN @ |->
             Item(@[i].key, IF i \in b THEN @[i].version ELSE chain[@[i].key], rows[@[i].key])]]
      BY <2>0, <3>1
    <3> QED
      BY <3>1, <3>2
  <2>2. CASE getEventsByHeight
    BY <2>2 DEF getEventsByHeight, QueryUnchanged
  <2> QED
    BY <2>1, <2>2
<1>1. PICK b :
        /\ AtStep(step) /\ UNCHANGED <<chain, rows, pool, pendingTransactionsList>>
        /\ query' = [Advance(query) EXCEPT !.data = [i \in DOMAIN @ |->
             Item(@[i].key, IF i \in b THEN @[i].version ELSE chain[@[i].key], rows[@[i].key])]]
  BY <1>0
<1> DEFINE d == ReadAgain(query.data, chain, rows, b)
<1>2. query' = [Advance(query) EXCEPT !.data = d]
  <2>1. Advance(query).data = query.data
    BY <1>1, AtStepFacts, AdvanceIs DEF AtStep, QueryFields
  <2> QED
    BY <1>1, <2>1 DEF ReadAgain
<1>3. /\ SameQuery(query, p) /\ SamePending(query, p)
      /\ p.data = d /\ p.total = query.total
  BY <1>1, <1>2, ReadChanges
<1> HIDE DEF p
<1>4. ASSUME query.quiet, Asked(query)
      PROVE  QuietOK(p, chain, pool)
  <2>1. /\ p.request = query.request /\ rows = chain /\ StepsKnown(Steps(r), r) /\ Has(Steps(r), step)
        /\ TotalOK(p, chain) /\ MergeOK(p, chain, pool)
        /\ QuietOK(query, chain, pool)
        /\ \A x : Left(p, x) <=> Left(query, x) /\ x # step
    BY <1>1, <1>3, <1>4, QuietAfter
  <2>2. e \in {"profiles", "subscriptions", "audios", "audiosOfOwner", "stakers", "metadata", "events"}
    BY <1>1, <2>1 DEF StepsKnown
  <2>3. Keys(p.data) = Keys(query.data)
    <3>1. DOMAIN d = DOMAIN query.data /\ \A i \in DOMAIN d : d[i].key = query.data[i].key
      BY DEF Item, ReadAgain
    <3> QED
      BY <1>3, <3>1 DEF Keys
  <2>4. AppsOK(p, chain) /\ TokensOK(p, chain) /\ BlocksOK(p, chain)
    <3>1. e \notin TokenEndpoints /\ e # "blocks" /\ step \notin {"findDefaults", "findOthers", "slice"}
      BY <2>2 DEF TokenEndpoints
    <3> HIDE DEF d
    <3> QED
      BY <1>1, <1>3, <1>4, <2>3, <3>1, QuietAfter
  <2>5. PageOK(p, chain)
    <3>1. SUFFICES ASSUME e \in Pages, ~Left(p, "find"), ~Left(p, "list"), ~Left(p, "getBlock")
                   PROVE  FoundIn(p.data, chain, r, query.offset, query.limit)
      <4>1. e \notin TokenEndpoints \cup {"pendingAndOther"}
        BY <2>2 DEF TokenEndpoints
      <4> QED
        BY <1>3, <2>1, <3>1, <4>1 DEF PageOK, SamePending
    <3>2. ~Left(query, "find") /\ ~Left(query, "list") /\ ~Left(query, "getBlock")
      BY <2>1, <3>1
    <3>3. FoundIn(query.data, chain, r, query.offset, query.limit)
      <4>1. PageOK(query, chain)
        BY <2>1 DEF QuietOK
      <4>2. e \notin TokenEndpoints \cup TransactionEndpoints
        BY <2>2 DEF TokenEndpoints, TransactionEndpoints
      <4> QED
        BY <3>1, <3>2, <4>1, <4>2 DEF PageOK, TokenEndpoints, TransactionEndpoints
    <3>4. d = query.data
      <4>1. AtStep(step) /\ rows = chain
        BY <1>1, <2>1
      <4> QED
        BY <3>3, <4>1, FoundAgain
    <3> QED
      BY <1>3, <3>3, <3>4
  <2> QED
    BY <2>1, <2>4, <2>5 DEF QuietOK
<1> HIDE DEF d
<1> QED
  BY <1>1, <1>2, <1>4, ReadStaysQuiet DEF p

LEMMA BlockByIDsStaysQuiet ==
  ASSUME QueryInv, QuietInv, getBlockByIDs
  PROVE  QuietInv'
<1> DEFINE p == query'
<1>1. /\ AtStep("getBlockByIDs") /\ UNCHANGED <<chain, rows, pool, pendingTransactionsList>>
      /\ query' = Advance(query) \/ query' = Fail(query)
  BY DEF getBlockByIDs, QueryUnchanged
<1>2. CASE query' = Advance(query)
  <2>1. /\ SameQuery(query, p) /\ SamePending(query, p)
        /\ p.data = query.data /\ p.total = query.total
    BY <1>1, <1>2, ReadChanges
  <2> HIDE DEF p
  <2>2. ASSUME query.quiet, Asked(query)
        PROVE  QuietOK(p, chain, pool)
    BY <1>1, <2>1, <2>2, QuietAfter DEF QuietOK
  <2> QED
    BY <1>1, <1>2, <2>2, ReadStaysQuiet DEF p
<1>3. CASE query' = Fail(query)
  BY <1>1, <1>3, FailStaysQuiet
<1> QED
  BY <1>1, <1>2, <1>3

\* Nothing is promised of the other endpoints' pages.
LEMMA OutsideOK ==
  ASSUME NEW p, NEW ch, NEW pl, p.request.endpoint \notin Pages \cup Counting \cup {"blocks"}
  PROVE  QuietOK(p, ch, pl)
  BY DEF QuietOK, PageOK, TotalOK, MergeOK, BlocksOK, AppsOK, TokensOK, Pages, Counting, Listed,
         MetaEndpoints, TokenEndpoints

LEMMA OutsideStaysQuiet ==
  ASSUME QueryInv, QuietInv, findOwned \/ findAudios \/ findMember \/ findSubscription \/ listFlagged
                             \/ listFirst \/ listPeers \/ listGenerators \/ listAll
  PROVE  QuietInv'
<1> DEFINE names == {"findOwned", "findAudios", "findMember", "findSubscription", "listFlagged",
                     "listFirst", "listPeers", "listGenerators", "listAll"}
           p == query'
           Reads(d, t) == \/ query' = [Advance(query) EXCEPT !.data = d, !.total = t]
                          \/ query' = [Advance(query) EXCEPT !.data = d]
                          \/ query' = [Advance(query) EXCEPT !.total = t]
                          \/ query' = Advance(query)
<1>0. PICK step \in names : /\ AtStep(step) /\ UNCHANGED <<chain, rows, pool, pendingTransactionsList>>
                            /\ query' = Fail(query) \/ \E d, t : Reads(d, t)
  <2>1. CASE findOwned
    BY <2>1 DEF findOwned, QueryUnchanged
  <2>2. CASE findMember
    BY <2>2 DEF findMember, QueryUnchanged
  <2>3. CASE listFlagged
    BY <2>3 DEF listFlagged, AnswerList, QueryUnchanged
  <2>4. CASE listFirst
    BY <2>4 DEF listFirst, AnswerList, QueryUnchanged
  <2>5. CASE listPeers
    BY <2>5 DEF listPeers, AnswerList, QueryUnchanged
  <2>6. CASE listGenerators
    BY <2>6 DEF listGenerators, AnswerList, QueryUnchanged
  <2>7. CASE listAll
    BY <2>7 DEF listAll, QueryUnchanged
  <2>8. CASE findAudios
    BY <2>8 DEF findAudios, QueryUnchanged
  <2>9. CASE findSubscription
    BY <2>9 DEF findSubscription, QueryUnchanged
  <2> QED
    BY <2>1, <2>2, <2>3, <2>4, <2>5, <2>6, <2>7, <2>8, <2>9
<1>1. ASSUME NEW d, NEW t, Reads(d, t) PROVE QuietInv'
  <2>1. SameQuery(query, p)
    BY <1>0, <1>1, ReadChanges
  <2> HIDE DEF p
  <2>2. ASSUME query.quiet, Asked(query)
        PROVE  QuietOK(p, chain, pool)
    <3>0. AtStep(step)
      BY <1>0
    <3>1. /\ p.request = query.request /\ StepsKnown(Steps(query.request), query.request)
          /\ Has(Steps(query.request), step)
      BY <2>1, <2>2, <3>0, QuietAfter
    <3>2. p.request.endpoint \notin Pages \cup Counting \cup {"blocks"}
      BY <3>1 DEF StepsKnown
    <3> QED
      BY <3>2, OutsideOK
  <2> QED
    BY <1>0, <1>1, <2>2, ReadStaysQuiet DEF p
<1> QED
  BY <1>0, <1>1, FailStaysQuiet

\* The total of audios, and of the tokens of a chain that supports all, is the page's.
LEMMA CountPageStaysQuiet ==
  ASSUME QueryInv, QuietInv, countPage
  PROVE  QuietInv'
<1> DEFINE p == query'
           r == query.request
<1>1. /\ AtStep("countPage") /\ query' = [Advance(query) EXCEPT !.total = Len(query.data)]
      /\ UNCHANGED <<chain, rows, pool, pendingTransactionsList>>
  BY DEF countPage, QueryUnchanged
<1>2. SameQuery(query, p) /\ SamePending(query, p) /\ p.data = query.data
  BY <1>1, ReadChanges
<1> HIDE DEF p
<1>3. ASSUME query.quiet, Asked(query)
      PROVE  QuietOK(p, chain, pool)
  <2>1. /\ p.request = r /\ StepsKnown(Steps(r), r) /\ Has(Steps(r), "countPage")
        /\ PageOK(p, chain) /\ MergeOK(p, chain, pool) /\ AppsOK(p, chain) /\ TokensOK(p, chain)
        /\ r.endpoint # "blocks" => BlocksOK(p, chain)
    BY <1>1, <1>2, <1>3, QuietAfter
  <2>2. \/ r.endpoint \in {"audios", "audiosOfOwner"}
        \/ r.endpoint = "supportedTokens" /\ getTokenSummary(r) = {}
    BY <2>1 DEF StepsKnown
  <2>3. 1 \in Key
    BY KeysExist DEF QuietInv
  <2>4. TotalOK(p, chain)
    <3>1. r.endpoint = "supportedTokens" => r.flagged
      BY <2>2, <2>3 DEF getTokenSummary
    <3> QED
      BY <2>1, <2>2, <3>1 DEF TotalOK, Counting, Listed
  <2> QED
    BY <2>1, <2>2, <2>4 DEF QuietOK
<1> QED
  BY <1>1, <1>3, ReadStaysQuiet DEF p

\* A page of rows is the rows of a page.
LEMMA PageOfRows ==
  ASSUME NEW table \in Tables, NEW keys \in Seq(Key), NEW offset \in Nat, NEW limit \in Nat
  PROVE  Page(Rows(table, keys), offset, limit) = Rows(table, Page(keys, offset, limit))
<1> DEFINE d == Rows(table, keys)
           a == Page(d, offset, limit)
           k == Page(keys, offset, limit)
           b == Rows(table, k)
<1>1. /\ d \in Seq(RowItem) /\ Len(d) = Len(keys)
      /\ \A i \in 1..Len(keys) : d[i] = Item(keys[i], table[keys[i]], table[keys[i]])
  BY RowsAre DEF Rows
<1> HIDE DEF d
<1>2. /\ a \in Seq(RowItem) /\ k \in Seq(Key) /\ Len(a) = Len(k)
      /\ \A i \in 1..Len(a) : offset + i \in 1..Len(d) /\ a[i] = d[offset + i]
      /\ \A i \in 1..Len(k) : offset + i \in 1..Len(keys) /\ k[i] = keys[offset + i]
  <2>1. /\ a \in Seq(RowItem)
        /\ Len(a) = IF Len(d) <= offset THEN 0
                    ELSE IF Len(d) <= offset + limit THEN Len(d) - offset ELSE limit
        /\ \A i \in 1..Len(a) : offset + i \in 1..Len(d) /\ a[i] = d[offset + i]
    BY <1>1, PageIs
  <2>2. /\ k \in Seq(Key)
        /\ Len(k) = IF Len(keys) <= offset THEN 0
                    ELSE IF Len(keys) <= offset + limit THEN Len(keys) - offset ELSE limit
        /\ \A i \in 1..Len(k) : offset + i \in 1..Len(keys) /\ k[i] = keys[offset + i]
    BY PageIs
  <2> HIDE DEF a, k
  <2> QED
    BY <1>1, <2>1, <2>2
<1> HIDE DEF a, k
<1>3. /\ b \in Seq(RowItem) /\ Len(b) = Len(k)
      /\ \A i \in 1..Len(k) : b[i] = Item(k[i], table[k[i]], table[k[i]])
  <2>1. k \in Seq(Key) /\ DOMAIN k = 1..Len(k)
    BY <1>2
  <2>2. b \in Seq(RowItem) /\ Len(b) = Len(k)
    BY <2>1, RowsAre
  <2> QED
    BY <2>1, <2>2 DEF Rows
<1> HIDE DEF b
<1>4. \A i \in 1..Len(a) : a[i] = b[i]
  BY <1>1, <1>2, <1>3
<1>5. a = b
  BY <1>2, <1>3, <1>4
<1> QED
  BY <1>5 DEF a, b, k, d

LEMMA ListStaysQuiet ==
  ASSUME QueryInv, QuietInv, list
  PROVE  QuietInv'
<1> DEFINE p == query'
           r == query.request
           e == r.endpoint
           d == Page(nodeList, query.offset, query.limit)
           t == Len(nodeList)
<1>1. /\ AtStep("list") /\ query' = [Advance(query) EXCEPT !.data = d, !.total = t]
      /\ UNCHANGED <<chain, rows, pool, pendingTransactionsList>>
  BY DEF list, AnswerList, QueryUnchanged
<1>2. SameQuery(query, p) /\ SamePending(query, p) /\ p.data = d /\ p.total = t
  BY <1>1, ReadChanges
<1> HIDE DEF p
<1>3. ASSUME query.quiet, Asked(query)
      PROVE  QuietOK(p, chain, pool)
  <2>1. /\ p.request = r /\ StepsKnown(Steps(r), r) /\ Has(Steps(r), "list")
        /\ MergeOK(p, chain, pool)
        /\ e # "blocks" => BlocksOK(p, chain)
        /\ e \notin MetaEndpoints => AppsOK(p, chain)
        /\ e \notin TokenEndpoints => TokensOK(p, chain)
    BY <1>1, <1>2, <1>3, QuietAfter
  <2>2. e \in Listed
    BY <2>1 DEF StepsKnown, Listed
  <2>3. r.desc = FALSE
    <3>1. e \in NodeLists => ~r.desc
      BY <1>1, <1>3, QuietAt
    <3>2. r.desc \in BOOLEAN
      BY <1>1, AtStepFacts
    <3> QED
      BY <2>2, <3>1, <3>2 DEF NodeLists, Listed
  <2>4. /\ chain \in Tables /\ query.offset \in Nat /\ query.limit \in Nat
        /\ WantedIn(chain, r) \in Seq(Key) /\ Len(WantedIn(chain, r)) = Cardinality(matching(chain, r))
        /\ nodeList = Rows(chain, WantedIn(chain, r))
    <3>1. chain \in Tables /\ query.offset \in Nat /\ query.limit \in Nat /\ r.desc \in BOOLEAN
      BY <1>1, AtStepFacts
    <3>2. nodeList = Rows(chain, WantedIn(chain, r))
      BY <2>3 DEF nodeList, WantedIn
    <3>3. matching(chain, r) \in SUBSET Key
      BY MatchingKeys
    <3>4. WantedIn(chain, r) \in Seq(Key) /\ Len(WantedIn(chain, r)) = Cardinality(matching(chain, r))
      BY <3>1, <3>3, OrderedKeys DEF WantedIn
    <3> QED
      BY <3>1, <3>2, <3>4
  <2>5. t = Cardinality(matching(chain, r))
    BY <2>4, RowsAre
  <2>6. FoundIn(d, chain, r, query.offset, query.limit)
    BY <2>4, PageOfRows DEF FoundIn
  <2>7. PageOK(p, chain) /\ TotalOK(p, chain)
    <3> HIDE DEF d, t
    <3>1. PageOK(p, chain)
      BY <1>2, <2>1, <2>6 DEF PageOK, SamePending
    <3>2. TotalOK(p, chain)
      BY <1>2, <2>1, <2>5 DEF TotalOK
    <3> QED
      BY <3>1, <3>2
  <2> QED
    BY <2>1, <2>2, <2>7 DEF QuietOK, Listed, MetaEndpoints, TokenEndpoints
<1> HIDE DEF d, t
<1> QED
  BY <1>1, <1>3, ReadStaysQuiet DEF p
-----------------------------------------------------------------------------
(* Blocks                                                                   *)

LEMMA OneInOrder ==
  ASSUME NEW desc \in BOOLEAN
  PROVE  /\ inOrder({}, desc) = << >>
         /\ \A k \in Key : inOrder({k}, desc) = <<k>>
<1>1. inOrder({}, desc) = << >>
  <2> DEFINE s == inOrder({}, desc)
  <2>1. s \in Seq(Key) /\ Len(s) = 0
    BY OrderedKeys, FS_EmptySet
  <2> HIDE DEF s
  <2>2. s = << >>
    BY <2>1
  <2> QED
    BY <2>2 DEF s
<1>2. ASSUME NEW k \in Key PROVE inOrder({k}, desc) = <<k>>
  <2> DEFINE s == inOrder({k}, desc)
  <2>1. s \in Seq(Key) /\ Len(s) = 1 /\ \A i \in 1..Len(s) : s[i] \in {k}
    <3>1. {k} \in SUBSET Key /\ Cardinality({k}) = 1
      BY <1>2, FS_Singleton
    <3> QED
      BY <3>1, OrderedKeys
  <2> HIDE DEF s
  <2>2. s = <<k>>
    BY <2>1
  <2> QED
    BY <2>2 DEF s
<1> QED
  BY <1>1, <1>2

\* What is on a page.
IsPage(page, s, offset, limit) ==
  /\ Len(page) \in Nat
  /\ Len(s) <= offset => Len(page) = 0
  /\ offset < Len(s) /\ Len(s) <= offset + limit => Len(page) = Len(s) - offset
  /\ offset + limit < Len(s) => Len(page) = limit
  /\ \A i \in 1..Len(page) : offset + i \in 1..Len(s) /\ page[i] = s[offset + i]

LEMMA PageLength ==
  ASSUME NEW S, NEW s \in Seq(S), NEW offset \in Nat, NEW limit \in Nat
  PROVE  Page(s, offset, limit) \in Seq(S) /\ IsPage(Page(s, offset, limit), s, offset, limit)
<1> DEFINE page == Page(s, offset, limit)
<1>1. /\ page \in Seq(S)
      /\ Len(page) = IF Len(s) <= offset THEN 0
                     ELSE IF Len(s) <= offset + limit THEN Len(s) - offset ELSE limit
      /\ \A i \in 1..Len(page) : offset + i \in 1..Len(s) /\ page[i] = s[offset + i]
  BY PageIs
<1> HIDE DEF page
<1>2. Len(s) \in Nat /\ Len(page) \in Nat
  BY <1>1
<1>3. /\ Len(s) <= offset => Len(page) = 0
      /\ offset < Len(s) /\ Len(s) <= offset + limit => Len(page) = Len(s) - offset
      /\ offset + limit < Len(s) => Len(page) = limit
  BY <1>1, <1>2
<1> QED
  BY <1>1, <1>2, <1>3 DEF page, IsPage

\* Sequences are the same when their elements are.
LEMMA SameSequence ==
  ASSUME NEW s \in Seq(Key), NEW t \in Seq(Key), Len(s) = Len(t), \A i \in 1..Len(s) : s[i] = t[i]
  PROVE  s = t
  OBVIOUS

\* The first page of one row, and a page of a sequence that has at most one element.
LEMMA FirstOfPage ==
  ASSUME NEW s \in Seq(Key), NEW offset \in Nat, NEW limit \in Nat
  PROVE  Len(s) >= 1 /\ offset = 0 /\ limit = 1 => Page(s, offset, limit) = <<s[1]>>
<1> DEFINE page == Page(s, offset, limit)
<1>1. page \in Seq(Key) /\ IsPage(page, s, offset, limit)
  BY PageLength
<1> HIDE DEF page
<1>2. SUFFICES ASSUME Len(s) >= 1, offset = 0, limit = 1 PROVE page = <<s[1]>>
  BY DEF page
<1>3. Len(page) = 1
  <2>1. Len(s) = 1 \/ offset + limit < Len(s)
    BY <1>2
  <2> QED
    BY <1>1, <1>2, <2>1 DEF IsPage
<1>4. page[1] = s[1]
  BY <1>1, <1>2, <1>3 DEF IsPage
<1> QED
  BY <1>1, <1>3, <1>4

LEMMA PageOfOne ==
  ASSUME NEW s \in Seq(Key), NEW offset \in Nat, NEW limit \in Nat
  PROVE  Len(s) \in {0, 1} /\ limit # 0 =>
           Len(Page(s, offset, limit)) = 0 \/ Len(Page(s, offset, limit)) = Len(s)
<1> DEFINE page == Page(s, offset, limit)
<1>1. page \in Seq(Key) /\ IsPage(page, s, offset, limit)
  BY PageLength
<1> HIDE DEF page
<1>2. Len(s) \in {0, 1} /\ limit # 0 => Len(page) = 0 \/ Len(page) = Len(s)
  <2>1. Len(s) = 0 => Len(s) <= offset
    OBVIOUS
  <2>2. Len(s) = 1 /\ limit # 0 => Len(s) <= offset \/ (offset = 0 /\ offset < Len(s) /\ Len(s) <= offset + limit)
    OBVIOUS
  <2>3. offset = 0 /\ Len(page) = Len(s) - offset => Len(page) = Len(s)
    BY <1>1
  <2> QED
    BY <1>1, <2>1, <2>2, <2>3 DEF IsPage
<1> QED
  BY <1>2 DEF page

\* The latest block is the first one in descending order, and there are as many
\* blocks as its height.
LEMMA LatestIs ==
  ASSUME ChainOK, chain \in Tables, NEW r, RequestTyped(r), r.endpoint = "blocks",
         isLatestBlockFetch(r)
  PROVE  \E n \in Key : /\ chain[n] # 0 /\ Len(WantedIn(chain, r)) = n
                        /\ Max({k \in Key : chain[k] # 0} \cup {0}) = n
                        /\ Page(WantedIn(chain, r), r.offset, r.limit) = <<n>>
                        /\ Cardinality(matching(chain, r)) = n
<1> DEFINE S == {k \in Key : chain[k] # 0}
<1>1. PICK n \in 1..Cardinality(Key) : \A k \in Key : chain[k] # 0 <=> k <= n
  BY DEF ChainOK
<1>2. Key = 1..Cardinality(Key) /\ Cardinality(Key) \in Nat
  BY QueriesAssumption, KeyFinite, FS_CardinalityType
<1>3. S = 1..n /\ n \in Key /\ n \in Nat /\ n \in S
  BY <1>1, <1>2
<1>4. matching(chain, r) = S /\ r.desc = TRUE /\ r.offset = 0 /\ r.limit = 1
  <2>1. /\ r.owner = None /\ r.party = None /\ r.to = 0 /\ r.height = 0 /\ r.id = NoID /\ r.desc = TRUE
        /\ r.offset = 0 /\ r.limit = 1
    BY DEF isLatestBlockFetch, RequestTyped
  <2>2. \A k \in Key : Fits(k, chain[k], r) <=> chain[k] # 0
    BY <2>1 DEF Fits
  <2> QED
    BY <2>1, <2>2 DEF matching
<1>5. Cardinality(S) = n
  <2>1. n \in Int /\ 1 \in Int /\ ~(1 > n)
    BY <1>1, <1>3
  <2>2. Cardinality(1..n) = n - 1 + 1
    BY <2>1, FS_Interval
  <2>3. S = 1..n
    BY <1>3
  <2> HIDE DEF S
  <2> QED
    BY <2>1, <2>2, <2>3
<1>6. S \in SUBSET Key
  OBVIOUS
<1> HIDE DEF S
<1> DEFINE s == inOrder(S, TRUE)
<1>7. S \in SUBSET Int /\ IsFiniteSet(S)
  BY <1>3, FS_Interval
<1>8. /\ s \in Seq(Key) /\ Len(s) = n /\ \A i \in 1..Len(s) : s[i] \in S
      /\ \E i \in 1..Len(s) : s[i] = n
  BY <1>3, <1>5, <1>6, OrderedKeys
<1>9. \A i, j \in DOMAIN s : i < j => s[j] < s[i]
  BY <1>7, InOrder
<1>10. s = WantedIn(chain, r)
  BY <1>4 DEF WantedIn
<1> HIDE DEF s
<1>11. s[1] = n
  <2>1. PICK i \in 1..Len(s) : s[i] = n
    BY <1>8
  <2>2. DOMAIN s = 1..Len(s) /\ 1 \in 1..Len(s)
    BY <1>8, <2>1
  <2>3. i = 1 \/ s[i] < s[1]
    BY <1>9, <2>1, <2>2
  <2>4. s[1] \in 1..n
    BY <1>3, <1>8, <2>2
  <2> QED
    BY <1>3, <2>1, <2>3, <2>4
<1>12. Max(S \cup {0}) = n
  <2>1. Max(S \cup {0}) \in S \cup {0} /\ \A k \in S : k <= Max(S \cup {0})
    BY <1>6, HighestKey
  <2> DEFINE m == Max(S \cup {0})
  <2>2. m \in (1..n) \cup {0} /\ n <= m
    BY <1>3, <2>1
  <2> HIDE DEF m
  <2>3. m = n
    BY <1>3, <2>2
  <2> QED
    BY <2>3 DEF m
<1>13. Page(s, r.offset, r.limit) = <<n>>
  <2>1. r.offset \in Nat /\ r.limit \in Nat /\ n >= 1
    BY <1>1, <1>3, <1>4
  <2> QED
    BY <1>4, <1>8, <1>11, <2>1, FirstOfPage
<1> QED
  BY <1>3, <1>1, <1>4, <1>5, <1>8, <1>10, <1>12, <1>13 DEF S

\* A request for a block's ID or height has at most one row.
LEMMA AtMostOne ==
  ASSUME NEW ch \in Tables, NEW r, RequestTyped(r), r.id # NoID \/ r.height # 0
  PROVE  \/ matching(ch, r) = {} /\ WantedIn(ch, r) = << >>
         \/ \E k \in Key : matching(ch, r) = {k} /\ WantedIn(ch, r) = <<k>>
<1>1. r.desc \in BOOLEAN
  BY DEF RequestTyped
<1>2. \A k \in matching(ch, r) : k \in Key /\ (r.id # NoID => k = r.id[1]) /\ (r.height # 0 => k = r.height)
  BY DEF matching, Fits
<1>3. \A k, l \in matching(ch, r) : k = l
  BY <1>2
<1>4. matching(ch, r) = {} \/ \E k \in Key : matching(ch, r) = {k}
  BY <1>2, <1>3
<1> QED
  BY <1>1, <1>4, OneInOrder DEF WantedIn

LEMMA BlocksByIDsStaysQuiet ==
  ASSUME QueryInv, QuietInv, getBlocksByIDs
  PROVE  QuietInv'
<1> DEFINE p == query'
           r == query.request
           all == \A i \in DOMAIN query.data : onChain(query.data[i])
           blocks == [i \in DOMAIN query.data |-> normalizeBlock(query.data[i].key, query.data[i].version)]
           d == IF all THEN blocks ELSE << >>
           t == IF query.data = << >> THEN NoTotal ELSE query.total
<1>1. AtStep("getBlocksByIDs") /\ UNCHANGED <<chain, rows, pool, pendingTransactionsList>>
  BY DEF getBlocksByIDs, QueryUnchanged
<1>2. query' = [Advance(query) EXCEPT !.data = d, !.total = t]
  <2>1. Advance(query).data = query.data /\ Advance(query).total = query.total
    BY <1>1, AtStepFacts, AdvanceIs DEF AtStep, QueryFields
  <2> QED
    BY <2>1 DEF getBlocksByIDs
<1>3. SameQuery(query, p) /\ SamePending(query, p) /\ p.data = d /\ p.total = t /\ p.steps = Tail(query.steps)
  <2> HIDE DEF d, t
  <2>1. SameQuery(query, p) /\ SamePending(query, p) /\ p.data = d /\ p.total = t
    BY <1>1, <1>2, ReadChanges
  <2> QED
    BY <2>1 DEF SameQuery
<1> HIDE DEF p
<1>4. ASSUME query.quiet, Asked(query)
      PROVE  QuietOK(p, chain, pool)
  <2>1. /\ p.request = r /\ StepsKnown(Steps(r), r) /\ Has(Steps(r), "getBlocksByIDs")
        /\ rows = chain /\ QuietOK(query, chain, pool)
        /\ MergeOK(p, chain, pool) /\ Left(query, "getBlocksByIDs")
        /\ \A x : Left(p, x) <=> Left(query, x) /\ x # "getBlocksByIDs"
        /\ r.endpoint \notin MetaEndpoints => AppsOK(p, chain)
        /\ r.endpoint \notin TokenEndpoints => TokensOK(p, chain)
    BY <1>1, <1>3, <1>4, QuietAfter
  <2>2. r.endpoint = "blocks" /\ isQueryFromIndex(r)
    BY <2>1 DEF StepsKnown
  <2>3. \A x : Left(p, x) => x = "setLastBlock"
    BY <1>1, <1>3, StepsLeftAt
  <2>4. FoundIn(query.data, chain, r, query.offset, query.limit)
    <3>1. ~Left(query, "find") /\ ~Left(query, "list") /\ ~Left(query, "getBlock")
      BY <2>1, <2>3
    <3>2. PageOK(query, chain)
      BY <2>1 DEF QuietOK
    <3> QED
      BY <2>2, <3>1, <3>2 DEF PageOK, Pages, TransactionEndpoints
  <2>5. d = query.data
    BY <1>1, <2>1, <2>4, FoundAgain
  <2> HIDE DEF d
  <2>6. PageOK(p, chain)
    BY <1>3, <2>1, <2>4, <2>5 DEF PageOK, SamePending
  <2>7. BlocksOK(p, chain)
    <3>1. BlocksOK(query, chain) /\ Left(query, "setLastBlock")
      BY <1>1, <1>3, <2>1, <2>2, StepsLeftAt DEF QuietOK, StepsKnown
    <3>2. ~Left(query, "count") /\ Left(p, "setLastBlock") /\ ~Left(p, "find") /\ ~Left(p, "getBlocksByIDs")
      BY <2>1, <2>3, <3>1
    <3>3. query.total = Cardinality(matching(chain, r))
      BY <2>1, <2>2, <3>1, <3>2 DEF BlocksOK
    <3> QED
      BY <1>3, <2>1, <2>2, <2>5, <3>2, <3>3 DEF BlocksOK
  <2>8. TotalOK(p, chain)
    BY <2>1, <2>2 DEF TotalOK, Counting, Listed
  <2> QED
    BY <2>1, <2>2, <2>6, <2>7, <2>8 DEF QuietOK, MetaEndpoints, TokenEndpoints
<1> HIDE DEF d, t
<1> QED
  BY <1>1, <1>2, <1>4, ReadStaysQuiet DEF p

LEMMA BlockStaysQuiet ==
  ASSUME QueryInv, QuietInv, getBlock
  PROVE  QuietInv'
<1> DEFINE p == query'
           r == query.request
           tip == Max({k \in Key : chain[k] # 0} \cup {0})
           k == IF r.id # NoID THEN r.id[1] ELSE IF r.height # 0 THEN r.height ELSE tip
           exists == k # 0 /\ chain[k] # 0 /\ (r.id # NoID => r.id[2] = chain[k])
           block == IF exists THEN <<normalizeBlock(k, chain[k])>> ELSE << >>
           d == IF isLatestBlockFetch(r) THEN block ELSE Page(block, r.offset, r.limit)
<1>1. /\ AtStep("getBlock") /\ query' = [Advance(query) EXCEPT !.data = d]
      /\ UNCHANGED <<chain, rows, pool, pendingTransactionsList>>
  BY DEF getBlock, QueryUnchanged
<1> HIDE DEF d
<1>2. SameQuery(query, p) /\ SamePending(query, p) /\ p.data = d /\ p.total = query.total
  BY <1>1, ReadChanges
<1> HIDE DEF p
<1>3. /\ chain \in Tables /\ RequestTyped(r) /\ ~isQueryFromIndex(r)
      /\ r.offset \in Nat /\ r.limit \in Nat
  BY <1>1, AtStepFacts, AtStepOrdered DEF RequestTyped
<1>4. ASSUME query.quiet, Asked(query)
      PROVE  QuietOK(p, chain, pool)
  <2>1. /\ p.request = r /\ StepsKnown(Steps(r), r) /\ Has(Steps(r), "getBlock")
        /\ rows = chain /\ QuietOK(query, chain, pool) /\ PendingOK(query, pool)
        /\ MergeOK(p, chain, pool)
        /\ \A x : Left(p, x) <=> Left(query, x) /\ x # "getBlock"
        /\ r.endpoint = "blocks" => Left(p, "setLastBlock")
        /\ r.endpoint \notin MetaEndpoints => AppsOK(p, chain)
        /\ r.endpoint \notin TokenEndpoints => TokensOK(p, chain)
    BY <1>1, <1>2, <1>4, QuietAfter
  <2>2. r.endpoint = "blocks"
    BY <2>1 DEF StepsKnown
  <2>3. FoundIn(d, chain, r, r.offset, r.limit)
    <3>1. CASE isLatestBlockFetch(r)
      <4>1. PICK n \in Key : /\ chain[n] # 0 /\ tip = n
                             /\ Page(WantedIn(chain, r), r.offset, r.limit) = <<n>>
        BY <1>3, <2>2, <3>1, LatestIs DEF QuietInv
      <4> HIDE DEF tip
      <4>2. k = n /\ n # 0 /\ r.id = NoID
        BY <3>1, <4>1, KeysPositive DEF isLatestBlockFetch
      <4>3. d = <<Item(n, chain[n], chain[n])>>
        BY <2>1, <3>1, <4>1, <4>2 DEF d, normalizeBlock
      <4>4. Rows(chain, <<n>>) = <<Item(n, chain[n], chain[n])>>
        BY DEF Rows
      <4> QED
        BY <4>1, <4>3, <4>4 DEF FoundIn
    <3>2. CASE ~isLatestBlockFetch(r)
      <4>1. isDirectQuery(r)
        BY <1>3, <3>2 DEF isQueryFromIndex
      <4>2. /\ r.owner = None /\ r.party = None /\ r.to = 0
            /\ \/ r.id # NoID /\ r.height = 0 /\ r.id \in Key \X Version /\ k = r.id[1]
               \/ r.id = NoID /\ r.height # 0 /\ r.height \in Key /\ k = r.height
        BY <1>3, <2>2, <4>1 DEF isDirectQuery, RequestTyped
      <4> HIDE DEF k
      <4>3. k \in Key /\ k # 0
        BY <4>2, KeysPositive
      <4>4. exists => matching(chain, r) = {k}
        <5>1. SUFFICES ASSUME exists PROVE \A l \in Key : Fits(l, chain[l], r) <=> l = k
          BY <4>3 DEF matching
        <5>2. CASE r.id # NoID
          <6>1. r.id = <<k, chain[k]>> /\ r.height = 0
            BY <4>2, <5>1, <5>2
          <6> QED
            BY <4>2, <5>1, <6>1 DEF Fits
        <5>3. CASE r.id = NoID
          BY <4>2, <5>1, <5>3 DEF Fits
        <5> QED
          BY <5>2, <5>3
      <4>5. ~exists => matching(chain, r) = {}
        <5>1. SUFFICES ASSUME NEW l \in Key, Fits(l, chain[l], r) PROVE exists
          BY DEF matching
        <5>2. CASE r.id # NoID
          <6>1. r.id = <<l, chain[l]>> /\ chain[l] # 0
            BY <5>1, <5>2 DEF Fits
          <6> QED
            BY <4>2, <4>3, <5>2, <6>1
        <5>3. CASE r.id = NoID
          BY <4>2, <4>3, <5>1, <5>3 DEF Fits
        <5> QED
          BY <5>2, <5>3
      <4>6. block = Rows(chain, WantedIn(chain, r))
        <5>1. r.desc \in BOOLEAN
          BY <1>3 DEF RequestTyped
        <5>2. CASE exists
          <6>1. WantedIn(chain, r) = <<k>>
            BY <4>3, <4>4, <5>1, <5>2, OneInOrder DEF WantedIn
          <6>2. Rows(chain, <<k>>) = <<Item(k, chain[k], chain[k])>>
            BY DEF Rows
          <6>3. block = <<Item(k, chain[k], chain[k])>>
            BY <2>1, <5>2 DEF normalizeBlock
          <6> QED
            BY <6>1, <6>2, <6>3
        <5>3. CASE ~exists
          <6>1. WantedIn(chain, r) = << >>
            BY <4>5, <5>1, <5>3, OneInOrder DEF WantedIn
          <6>2. Rows(chain, << >>) = << >>
            BY DEF Rows
          <6> QED
            BY <5>3, <6>1, <6>2
        <5> QED
          BY <5>2, <5>3
      <4>7. d = Page(Rows(chain, WantedIn(chain, r)), r.offset, r.limit)
        BY <3>2, <4>6 DEF d
      <4>8. WantedIn(chain, r) \in Seq(Key)
        BY <1>3, MatchingKeys, OrderedKeys DEF RequestTyped, WantedIn
      <4> QED
        BY <1>3, <4>7, <4>8, PageOfRows DEF FoundIn
    <3> QED
      BY <3>1, <3>2
  <2>4. query.offset = r.offset /\ query.limit = r.limit
    BY <2>1, <2>2 DEF PendingOK
  <2>5. PageOK(p, chain)
    BY <1>2, <2>1, <2>3, <2>4 DEF PageOK, SamePending
  <2>6. BlocksOK(p, chain)
    <3>1. BlocksOK(query, chain) /\ Left(query, "setLastBlock")
      BY <2>1, <2>2 DEF QuietOK
    <3> QED
      BY <1>2, <1>3, <2>1, <2>2, <3>1 DEF BlocksOK
  <2>7. TotalOK(p, chain)
    BY <2>1, <2>2 DEF TotalOK, Counting, Listed
  <2> QED
    BY <2>1, <2>2, <2>5, <2>6, <2>7 DEF QuietOK, MetaEndpoints, TokenEndpoints
<1> QED
  BY <1>1, <1>4, ReadStaysQuiet DEF p

\* The total of the latest block is its height, that of a block asked for is 1.
LEMMA LastBlockStaysQuiet ==
  ASSUME QueryInv, QuietInv, setLastBlock
  PROVE  QuietInv'
<1> DEFINE p == query'
           r == query.request
           last == IF query.data = << >> THEN lastBlock ELSE query.data[Len(query.data)].key
           t == IF r.owner # None THEN query.total
                ELSE IF r.id # NoID \/ r.height # 0 THEN Len(query.data)
                ELSE IF r.to # 0 THEN query.total ELSE last
<1>1. AtStep("setLastBlock") /\ UNCHANGED <<chain, rows, pool, pendingTransactionsList>>
  BY DEF setLastBlock
<1>2. query' = [Advance(query) EXCEPT !.total = t]
  <2>1. Advance(query).total = query.total
    BY <1>1, AtStepFacts, AdvanceIs DEF AtStep, QueryFields
  <2> QED
    BY <2>1 DEF setLastBlock
<1>3. SameQuery(query, p) /\ SamePending(query, p) /\ p.data = query.data /\ p.total = t /\ p.steps = Tail(query.steps)
  <2> HIDE DEF t
  <2>1. SameQuery(query, p) /\ SamePending(query, p) /\ p.data = query.data /\ p.total = t
    BY <1>1, <1>2, ReadChanges
  <2> QED
    BY <2>1 DEF SameQuery
<1> HIDE DEF p
<1>4. /\ chain \in Tables /\ RequestTyped(r) /\ query.data \in Seq(RowItem)
      /\ r.offset \in Nat /\ r.limit \in Nat /\ r.desc \in BOOLEAN
  BY <1>1, AtStepFacts DEF RequestTyped
<1>5. ASSUME query.quiet, Asked(query)
      PROVE  QuietOK(p, chain, pool)
  <2>1. /\ p.request = r /\ StepsKnown(Steps(r), r) /\ Has(Steps(r), "setLastBlock")
        /\ QuietOK(query, chain, pool) /\ PendingOK(query, pool)
        /\ MergeOK(p, chain, pool) /\ Left(query, "setLastBlock")
        /\ \A x : Left(p, x) <=> Left(query, x) /\ x # "setLastBlock"
        /\ PageOK(p, chain)
        /\ r.endpoint \notin MetaEndpoints => AppsOK(p, chain)
        /\ r.endpoint \notin TokenEndpoints => TokensOK(p, chain)
    BY <1>1, <1>3, <1>5, QuietAfter
  <2>2. r.endpoint = "blocks"
    BY <2>1 DEF StepsKnown
  <2>3. \A x : ~Left(p, x)
    BY <1>1, <1>3, StepsLeftAt
  <2>4. \/ query.total = Cardinality(matching(chain, r))
        \/ query.total = NoTotal /\ query.data = << >>
    <3>1. BlocksOK(query, chain) /\ ~Left(query, "count")
      BY <2>1, <2>3 DEF QuietOK
    <3> QED
      BY <2>1, <2>2, <3>1 DEF BlocksOK
  <2>5. query.data = Rows(chain, Page(WantedIn(chain, r), r.offset, r.limit))
    <3>1. query.offset = r.offset /\ query.limit = r.limit
      BY <2>1, <2>2 DEF PendingOK
    <3>2. FoundIn(p.data, chain, r, p.offset, p.limit)
      BY <2>1, <2>2, <2>3 DEF PageOK, Pages, TransactionEndpoints
    <3> QED
      BY <1>3, <3>1, <3>2 DEF FoundIn, SamePending
  <2> DEFINE w == WantedIn(chain, r)
             page == Page(w, r.offset, r.limit)
  <2>6. w \in Seq(Key) /\ Len(w) = Cardinality(matching(chain, r)) /\ page \in Seq(Key)
    <3>1. w \in Seq(Key) /\ Len(w) = Cardinality(matching(chain, r))
      BY <1>4, MatchingKeys, OrderedKeys DEF WantedIn
    <3> HIDE DEF w
    <3> QED
      BY <1>4, <3>1, PageIs
  <2>7. Len(query.data) = Len(page) /\ \A i \in 1..Len(page) : query.data[i].key = page[i]
    BY <1>4, <2>5, <2>6, RowsAre
  <2>8. BlocksTotal(query.data, t, chain, r)
    <3>1. CASE r.owner # None \/ (r.id = NoID /\ r.height = 0 /\ r.to # 0)
      BY <2>4, <2>6, <3>1 DEF BlocksTotal
    <3>2. CASE r.owner = None /\ (r.id # NoID \/ r.height # 0)
      <4>1. t = Len(query.data)
        BY <3>2
      <4>2. w = << >> \/ \E k \in Key : w = <<k>>
        BY <1>4, <3>2, AtMostOne
      <4>3. Len(w) \in {0, 1}
        BY <4>2
      <4>5. r.limit # 0
        BY <1>4 DEF RequestTyped
      <4> HIDE DEF w
      <4>6. Len(page) = 0 \/ Len(page) = Len(w)
        BY <1>4, <2>6, <4>3, <4>5, PageOfOne
      <4> HIDE DEF page
      <4>7. CASE Len(page) = 0
        <5>1. query.data = << >>
          BY <1>4, <2>7, <4>7
        <5> QED
          BY <3>2, <5>1 DEF BlocksTotal
      <4>8. CASE Len(page) = Len(w)
        BY <2>7, <4>1, <4>8 DEF BlocksTotal, w
      <4> QED
        BY <4>6, <4>7, <4>8
    <3>3. CASE r.owner = None /\ r.id = NoID /\ r.height = 0 /\ r.to = 0
      <4>1. t = last
        BY <3>3
      <4>2. CASE ~isLatestBlockFetch(r)
        BY <3>3, <4>2 DEF BlocksTotal
      <4>3. CASE isLatestBlockFetch(r)
        <5>1. PICK n \in Key : Len(w) = n /\ page = <<n>>
          BY <1>4, <2>2, <4>3, LatestIs DEF QuietInv
        <5> HIDE DEF w, page
        <5>2. Len(query.data) = 1 /\ query.data[1].key = n /\ query.data # << >>
          BY <2>7, <5>1
        <5>3. last = n
          BY <5>2
        <5> QED
          BY <4>1, <5>1, <5>3 DEF BlocksTotal, w
      <4> QED
        BY <4>2, <4>3
    <3> QED
      BY <3>1, <3>2, <3>3
  <2> HIDE DEF t
  <2>9. BlocksOK(p, chain)
    BY <1>3, <2>1, <2>3, <2>8 DEF BlocksOK
  <2>10. TotalOK(p, chain)
    BY <2>1, <2>2 DEF TotalOK, Counting, Listed
  <2> QED
    BY <2>1, <2>2, <2>9, <2>10 DEF QuietOK, MetaEndpoints, TokenEndpoints
<1> HIDE DEF t
<1> QED
  BY <1>1, <1>2, <1>5, ReadStaysQuiet DEF p
-----------------------------------------------------------------------------
(* Pages of sequences that are put together                                 *)

LEMMA PageHas ==
  ASSUME NEW s \in Seq(Key), NEW offset \in Nat, NEW limit \in Nat, NEW j \in 1..Len(s),
         offset < j, j <= offset + limit
  PROVE  s[j] \in Range(Page(s, offset, limit))
<1> DEFINE page == Page(s, offset, limit)
<1>1. page \in Seq(Key) /\ IsPage(page, s, offset, limit)
  BY PageLength
<1> HIDE DEF page
<1>2. Len(s) \in Nat /\ j \in Nat /\ j <= Len(s) /\ offset < Len(s)
  OBVIOUS
<1>3. j - offset <= Len(page)
  <2>1. CASE Len(s) <= offset + limit
    BY <1>1, <1>2, <2>1 DEF IsPage
  <2>2. CASE offset + limit < Len(s)
    BY <1>1, <1>2, <2>2 DEF IsPage
  <2> QED
    BY <1>2, <2>1, <2>2
<1>4. j - offset \in 1..Len(page) /\ offset + (j - offset) = j
  BY <1>1, <1>2, <1>3 DEF IsPage
<1>5. page[j - offset] = s[j]
  BY <1>1, <1>4 DEF IsPage
<1>6. DOMAIN page = 1..Len(page)
  BY <1>1
<1> QED
  BY <1>4, <1>5, <1>6 DEF page, Range

\* What is on the page of the limit's first elements.
LEMMA FirstPage ==
  ASSUME NEW s \in Seq(Key), NEW limit \in Nat
  PROVE  /\ Page(s, 0, limit) \in Seq(Key) /\ Len(Page(s, 0, limit)) \in Nat
         /\ Len(s) <= limit => Len(Page(s, 0, limit)) = Len(s)
         /\ limit <= Len(s) => Len(Page(s, 0, limit)) = limit
         /\ \A i \in 1..Len(Page(s, 0, limit)) : i \in 1..Len(s) /\ Page(s, 0, limit)[i] = s[i]
         /\ Len(Page(s, 0, limit)) = Len(s) => Page(s, 0, limit) = s
<1>0. PICK zero \in Nat : zero = 0
  OBVIOUS
<1> DEFINE page == Page(s, zero, limit)
<1>1. page \in Seq(Key) /\ IsPage(page, s, zero, limit)
  BY PageLength
<1> HIDE DEF page
<1>2. /\ Len(page) \in Nat /\ Len(s) \in Nat
      /\ Len(s) <= limit => Len(page) = Len(s)
      /\ limit < Len(s) => Len(page) = limit
      /\ \A i \in 1..Len(page) : i \in 1..Len(s) /\ page[i] = s[i]
  BY <1>0, <1>1 DEF IsPage
<1>3. limit <= Len(s) => Len(page) = limit
  BY <1>2
<1>4. Len(page) = Len(s) => page = s
  BY <1>1, <1>2, SameSequence
<1>5. page = Page(s, 0, limit)
  BY <1>0 DEF page
<1> QED
  BY <1>1, <1>2, <1>3, <1>4, <1>5

LEMMA KeysOf ==
  ASSUME NEW d \in Seq(RowItem)
  PROVE  /\ Keys(d) \in Seq(Key) /\ Len(Keys(d)) = Len(d)
         /\ \A i \in 1..Len(d) : Keys(d)[i] = d[i].key
<1>1. DOMAIN d = 1..Len(d) /\ Len(d) \in Nat /\ \A i \in 1..Len(d) : d[i].key \in Key
  BY DataTyped
<1>2. Keys(d) = [i \in 1..Len(d) |-> d[i].key]
  BY <1>1 DEF Keys
<1> QED
  BY <1>1, <1>2

LEMMA KeysOfRows ==
  ASSUME NEW table \in Tables, NEW keys \in Seq(Key)
  PROVE  Rows(table, keys) \in Seq(RowItem) /\ Keys(Rows(table, keys)) = keys
<1> DEFINE d == Rows(table, keys)
<1>1. /\ d \in Seq(RowItem) /\ Len(d) = Len(keys)
      /\ \A i \in 1..Len(keys) : d[i].key = keys[i]
  BY RowsAre
<1> HIDE DEF d
<1>2. /\ Keys(d) \in Seq(Key) /\ Len(Keys(d)) = Len(d) /\ \A i \in 1..Len(d) : Keys(d)[i] = d[i].key
  BY <1>1, KeysOf
<1>3. Keys(d) = keys
  BY <1>1, <1>2, SameSequence
<1> QED
  BY <1>1, <1>3 DEF d

LEMMA KeysOfPage ==
  ASSUME NEW d \in Seq(RowItem), NEW offset \in Nat, NEW limit \in Nat
  PROVE  Keys(Page(d, offset, limit)) = Page(Keys(d), offset, limit)
<1> DEFINE k == Keys(d)
           a == Page(d, offset, limit)
           b == Page(k, offset, limit)
<1>1. k \in Seq(Key) /\ Len(k) = Len(d) /\ \A i \in 1..Len(d) : k[i] = d[i].key
  BY KeysOf
<1> HIDE DEF k
<1>2. a \in Seq(RowItem) /\ IsPage(a, d, offset, limit)
  BY PageLength
<1>3. b \in Seq(Key) /\ IsPage(b, k, offset, limit)
  BY <1>1, PageLength
<1> HIDE DEF a, b
<1>4. Len(d) \in Nat /\ (Len(d) <= offset \/ offset < Len(d)) /\ (Len(d) <= offset + limit \/ offset + limit < Len(d))
  OBVIOUS
<1>5. Len(a) = Len(b)
  BY <1>1, <1>2, <1>3, <1>4 DEF IsPage
<1>6. /\ Keys(a) \in Seq(Key) /\ Len(Keys(a)) = Len(a) /\ \A i \in 1..Len(a) : Keys(a)[i] = a[i].key
  BY <1>2, KeysOf
<1>7. \A i \in 1..Len(a) : Keys(a)[i] = b[i]
  BY <1>1, <1>2, <1>3, <1>5, <1>6 DEF IsPage
<1>8. Keys(a) = b
  <2> DEFINE ka == Keys(a)
  <2>1. ka \in Seq(Key) /\ Len(ka) = Len(b) /\ \A i \in 1..Len(ka) : ka[i] = b[i]
    BY <1>5, <1>6, <1>7
  <2> HIDE DEF ka
  <2>2. ka = b
    BY <1>3, <2>1, SameSequence
  <2> QED
    BY <2>2 DEF ka
<1> QED
  BY <1>8 DEF a, b, k

\* The elements of two sequences.
Joins(u, s, t) ==
  /\ Len(u) = Len(s) + Len(t)
  /\ \A i \in 1..Len(s) : u[i] = s[i]
  /\ \A i \in 1..Len(t) : u[Len(s) + i] = t[i]
  /\ \A i \in 1..Len(u) : i \in 1..Len(s) \/ \E j \in 1..Len(t) : i = Len(s) + j

LEMMA JoinIs ==
  ASSUME NEW S, NEW s \in Seq(S), NEW t \in Seq(S)
  PROVE  s \o t \in Seq(S) /\ Joins(s \o t, s, t)
<1> DEFINE u == s \o t
<1>1. /\ Len(s) \in Nat /\ Len(t) \in Nat
      /\ u \in Seq(S) /\ Len(u) = Len(s) + Len(t)
      /\ \A i \in 1..Len(u) : u[i] = IF i <= Len(s) THEN s[i] ELSE t[i - Len(s)]
  OBVIOUS
<1> HIDE DEF u
<1>2. \A i \in 1..Len(s) : u[i] = s[i]
  BY <1>1
<1>3. ASSUME NEW i \in 1..Len(t) PROVE u[Len(s) + i] = t[i]
  <2>1. Len(s) + i \in 1..Len(u) /\ ~(Len(s) + i <= Len(s)) /\ (Len(s) + i) - Len(s) = i
    BY <1>1
  <2> QED
    BY <1>1, <2>1
<1>4. ASSUME NEW i \in 1..Len(u) PROVE i \in 1..Len(s) \/ \E j \in 1..Len(t) : i = Len(s) + j
  <2>1. i \in 1..Len(s) \/ (i - Len(s) \in 1..Len(t) /\ i = Len(s) + (i - Len(s)))
    BY <1>1
  <2> QED
    BY <2>1
<1> QED
  BY <1>1, <1>2, <1>3, <1>4 DEF Joins, u

LEMMA KeysJoined ==
  ASSUME NEW a \in Seq(RowItem), NEW b \in Seq(RowItem)
  PROVE  a \o b \in Seq(RowItem) /\ Keys(a \o b) = Keys(a) \o Keys(b)
<1> DEFINE c == a \o b
           ka == Keys(a)
           kb == Keys(b)
           d == ka \o kb
           kc == Keys(c)
<1>1. /\ ka \in Seq(Key) /\ Len(ka) = Len(a) /\ \A i \in 1..Len(a) : ka[i] = a[i].key
      /\ kb \in Seq(Key) /\ Len(kb) = Len(b) /\ \A i \in 1..Len(b) : kb[i] = b[i].key
  BY KeysOf
<1> HIDE DEF ka, kb
<1>2. c \in Seq(RowItem) /\ Joins(c, a, b)
  BY JoinIs
<1>3. d \in Seq(Key) /\ Joins(d, ka, kb)
  BY <1>1, JoinIs
<1> HIDE DEF c, d
<1>4. /\ kc \in Seq(Key) /\ Len(kc) = Len(c) /\ \A i \in 1..Len(c) : kc[i] = c[i].key
  BY <1>2, KeysOf
<1> HIDE DEF kc
<1>5. ASSUME NEW i \in 1..Len(c) PROVE kc[i] = d[i]
  <2>1. CASE i \in 1..Len(a)
    <3>1. c[i] = a[i]
      BY <1>2, <2>1 DEF Joins
    <3>2. i \in 1..Len(ka) /\ ka[i] = a[i].key
      BY <1>1, <2>1
    <3>3. d[i] = ka[i]
      BY <1>3, <3>2 DEF Joins
    <3> QED
      BY <1>4, <3>1, <3>2, <3>3
  <2>2. ASSUME NEW j \in 1..Len(b), i = Len(a) + j
        PROVE  kc[i] = d[i]
    <3>1. c[Len(a) + j] = b[j]
      BY <1>2 DEF Joins
    <3>2. j \in 1..Len(kb) /\ kb[j] = b[j].key
      BY <1>1
    <3>3. d[Len(ka) + j] = kb[j]
      BY <1>3, <3>2 DEF Joins
    <3> QED
      BY <1>1, <1>4, <2>2, <3>1, <3>2, <3>3
  <2> QED
    BY <1>2, <2>1, <2>2 DEF Joins
<1>6. kc = d
  <2>1. Len(c) = Len(d)
    BY <1>1, <1>2, <1>3 DEF Joins
  <2> QED
    BY <1>3, <1>4, <1>5, <2>1, SameSequence
<1> QED
  BY <1>2, <1>6 DEF c, d, kc, ka, kb

\* The first page of two sequences needs no more of the second than its limit.
LEMMA PageOfJoined ==
  ASSUME NEW s \in Seq(Key), NEW t \in Seq(Key), NEW limit \in Nat, NEW n \in Nat, limit <= n
  PROVE  Page(s \o Page(t, 0, n), 0, limit) = Page(s \o t, 0, limit)
<1> DEFINE u == Page(t, 0, n)
           a == s \o u
           b == s \o t
           pa == Page(a, 0, limit)
           pb == Page(b, 0, limit)
<1>1. /\ u \in Seq(Key) /\ Len(u) \in Nat
      /\ Len(t) <= n => Len(u) = Len(t)
      /\ n <= Len(t) => Len(u) = n
      /\ \A i \in 1..Len(u) : i \in 1..Len(t) /\ u[i] = t[i]
  BY FirstPage
<1> HIDE DEF u
<1>2. Len(s) \in Nat /\ Len(t) \in Nat
  OBVIOUS
<1>3. a \in Seq(Key) /\ Joins(a, s, u) /\ b \in Seq(Key) /\ Joins(b, s, t)
  BY <1>1, JoinIs
<1> HIDE DEF a, b
<1>5. /\ pa \in Seq(Key) /\ Len(pa) \in Nat
      /\ Len(a) <= limit => Len(pa) = Len(a)
      /\ limit <= Len(a) => Len(pa) = limit
      /\ \A i \in 1..Len(pa) : i \in 1..Len(a) /\ pa[i] = a[i]
  BY <1>3, FirstPage
<1>6. /\ pb \in Seq(Key) /\ Len(pb) \in Nat
      /\ Len(b) <= limit => Len(pb) = Len(b)
      /\ limit <= Len(b) => Len(pb) = limit
      /\ \A i \in 1..Len(pb) : i \in 1..Len(b) /\ pb[i] = b[i]
  BY <1>3, FirstPage
<1> HIDE DEF pa, pb
<1>7. Len(a) = Len(s) + Len(u) /\ Len(b) = Len(s) + Len(t)
  BY <1>3 DEF Joins
<1>8. Len(pa) = Len(pb)
  <2>1. CASE Len(t) <= n
    <3>0. Len(u) = Len(t)
      BY <1>1, <2>1
    <3>1. Len(a) = Len(b) /\ Len(a) \in Nat
      BY <1>2, <1>7, <3>0
    <3> QED
      BY <1>5, <1>6, <3>1
  <2>2. CASE ~(Len(t) <= n)
    <3>1. Len(u) = n /\ n <= Len(t)
      BY <1>1, <1>2, <2>2
    <3>2. limit <= Len(a) /\ limit <= Len(b)
      BY <1>2, <1>7, <3>1
    <3> QED
      BY <1>5, <1>6, <3>2
  <2> QED
    BY <2>1, <2>2
<1>9. ASSUME NEW i \in 1..Len(pa) PROVE pa[i] = pb[i]
  <2>1. i \in 1..Len(a) /\ pa[i] = a[i] /\ i \in 1..Len(b) /\ pb[i] = b[i]
    BY <1>5, <1>6, <1>8
  <2>2. CASE i \in 1..Len(s)
    BY <1>3, <2>1, <2>2 DEF Joins
  <2>3. ASSUME NEW j \in 1..Len(u), i = Len(s) + j PROVE a[i] = b[i]
    <3>1. j \in 1..Len(t) /\ u[j] = t[j]
      BY <1>1, <2>3
    <3> QED
      BY <1>3, <2>3, <3>1 DEF Joins
  <2> QED
    BY <1>3, <2>1, <2>2, <2>3 DEF Joins
<1>10. pa = pb
  BY <1>5, <1>6, <1>8, <1>9, SameSequence
<1> QED
  BY <1>10 DEF pa, pb, a, b, u
-----------------------------------------------------------------------------
(* Transactions, pending ones and others                                    *)

\* What the page of transactions holds before they are looked up.
LEMMA TransactionsAt ==
  ASSUME QueryInv, QuietInv, AtStep("getTransactionsByIDs"), query.quiet, Asked(query)
  PROVE  /\ query.request.endpoint \in TransactionEndpoints
         /\ FoundIn(query.data, chain, query.request, query.offset, query.limit)
<1> DEFINE r == query.request
           p == [query EXCEPT !.steps = Tail(@)]
<1>1. QueryTyped(query)
  BY DEF QueryInv
<1>2. SameQuery(query, p) /\ p.steps = Tail(query.steps)
  BY <1>1 DEF SameQuery, QueryTyped, QueryFields
<1> HIDE DEF p
<1>3. /\ StepsKnown(Steps(r), r) /\ Has(Steps(r), "getTransactionsByIDs")
      /\ QuietOK(query, chain, pool) /\ Left(query, "getTransactionsByIDs")
      /\ \A x : Left(p, x) <=> Left(query, x) /\ x # "getTransactionsByIDs"
      /\ r.endpoint = "pendingAndOther" => Left(p, "merge")
  BY <1>2, QuietAfter
<1>4. r.endpoint \in TransactionEndpoints
  BY <1>3 DEF StepsKnown
<1>5. ~Left(query, "find") /\ ~Left(query, "list") /\ ~Left(query, "getBlock")
  BY <1>2, StepsLeftAt
<1>6. PageOK(query, chain)
  BY <1>3 DEF QuietOK
<1>7. r.endpoint = "pendingAndOther" => Left(query, "merge")
  BY <1>3
<1> QED
  BY <1>3, <1>4, <1>5, <1>6, <1>7 DEF PageOK, Pages, TransactionEndpoints

\* Transactions that are found as before, with a total that is right.
LEMMA TransactionsFound ==
  ASSUME QueryInv, QuietInv, AtStep("getTransactionsByIDs"), query.quiet, Asked(query),
         NEW p, SameQuery(query, p), SamePending(query, p),
         UnfitIn(chain, query.request) \/ p.data = query.data,
         p.total = query.total \/ p.total = Cardinality(matching(chain, query.request))
  PROVE  QuietOK(p, chain, pool)
<1> DEFINE r == query.request
<1>1. /\ r.endpoint \in TransactionEndpoints
      /\ FoundIn(query.data, chain, r, query.offset, query.limit)
  BY TransactionsAt
<1>2. /\ p.request = r
      /\ MergeOK(p, chain, pool)
      /\ r.endpoint # "blocks" => BlocksOK(p, chain)
      /\ r.endpoint \notin MetaEndpoints => AppsOK(p, chain)
      /\ r.endpoint \notin TokenEndpoints => TokensOK(p, chain)
      /\ p.total = query.total => TotalOK(p, chain)
      /\ \A x : Left(p, x) <=> Left(query, x) /\ x # "getTransactionsByIDs"
  BY QuietAfter
<1>3. r.endpoint # "blocks" /\ r.endpoint \notin MetaEndpoints /\ r.endpoint \notin TokenEndpoints
  BY <1>1 DEF TransactionEndpoints, MetaEndpoints, TokenEndpoints
<1>4. TotalOK(p, chain)
  BY <1>2 DEF TotalOK
<1>5. PageOK(p, chain)
  <2>1. CASE UnfitIn(chain, r)
    BY <1>1, <1>2, <2>1 DEF PageOK
  <2>2. CASE p.data = query.data
    BY <1>1, <1>2, <2>2 DEF PageOK, SamePending
  <2> QED
    BY <2>1, <2>2
<1> QED
  BY <1>2, <1>3, <1>4, <1>5 DEF QuietOK

LEMMA TransactionsStayQuiet ==
  ASSUME QueryInv, QuietInv, getTransactionsByIDs
  PROVE  QuietInv'
<1> DEFINE r == query.request
           p == query'
           none == query.data = << >> /\ r.id # NoID
           x == Item(r.id[1], r.id[2], 0)
           d == Page(<<x>>, query.offset, query.limit)
<1>1. AtStep("getTransactionsByIDs") /\ UNCHANGED <<chain, rows, pool, pendingTransactionsList>>
  BY DEF getTransactionsByIDs, QueryUnchanged
<1>2. \/ query' = Fail(query)
      \/ query' = Advance(query)
      \/ none /\ chain[r.id[1]] = r.id[2] /\ query' = [Advance(query) EXCEPT !.data = d]
      \/ /\ query' = [Advance(query) EXCEPT !.data = << >>, !.total = 0]
         /\ \/ none /\ chain[r.id[1]] # r.id[2]
            \/ ~\A i \in DOMAIN query.data : onChain(query.data[i])
  BY DEF getTransactionsByIDs
<1>3. /\ chain \in Tables /\ RequestTyped(r) /\ query.data \in Seq(RowItem) /\ r.desc \in BOOLEAN
      /\ query.offset \in Nat /\ query.limit \in Nat
  BY <1>1, AtStepFacts DEF RequestTyped
<1>4. CASE query' = Fail(query)
  BY <1>1, <1>4, FailStaysQuiet
<1>5. CASE query' = Advance(query)
  <2>1. SameQuery(query, p) /\ SamePending(query, p) /\ p.data = query.data /\ p.total = query.total
    BY <1>1, <1>5, ReadChanges
  <2> HIDE DEF p
  <2>2. query.quiet /\ Asked(query) => QuietOK(p, chain, pool)
    BY <1>1, <2>1, TransactionsFound
  <2> QED
    BY <1>1, <1>5, <2>2, ReadStaysQuiet DEF p
<1>6. CASE none /\ chain[r.id[1]] = r.id[2] /\ query' = [Advance(query) EXCEPT !.data = d]
  <2>1. SameQuery(query, p) /\ SamePending(query, p) /\ p.data = d /\ p.total = query.total
    BY <1>1, <1>6, ReadChanges
  <2> HIDE DEF p
  <2>2. ASSUME query.quiet, Asked(query), ~UnfitIn(chain, r) PROVE d = query.data
    <3>1. query.data = Rows(chain, Page(WantedIn(chain, r), query.offset, query.limit))
      BY <1>1, <2>2, TransactionsAt DEF FoundIn
    <3>2. WantedIn(chain, r) # << >>
      BY <1>6, <2>2 DEF UnfitIn
    <3>3. PICK k \in Key : WantedIn(chain, r) = <<k>>
      BY <1>3, <1>6, <3>2, AtMostOne
    <3> DEFINE w == <<k>>
               page == Page(w, query.offset, query.limit)
               y == <<x>>
    <3>4. w \in Seq(Key) /\ Len(w) = 1 /\ y \in Seq({x}) /\ Len(y) = 1
      OBVIOUS
    <3>5. query.data = Rows(chain, page)
      BY <3>1, <3>3
    <3>6. d = Page(y, query.offset, query.limit)
      OBVIOUS
    <3> HIDE DEF w, y, d
    <3>7. page \in Seq(Key) /\ IsPage(page, w, query.offset, query.limit)
      BY <1>3, <3>4, PageLength
    <3>8. d \in Seq({x}) /\ IsPage(d, y, query.offset, query.limit)
      BY <1>3, <3>4, <3>6, PageLength
    <3> HIDE DEF page
    <3>9. Len(page) = 0
      BY <1>3, <1>6, <3>5, <3>7, RowsAre
    <3>10. Len(d) = 0
      BY <1>3, <3>4, <3>7, <3>8, <3>9 DEF IsPage
    <3> QED
      BY <1>6, <3>8, <3>10
  <2>3. query.quiet /\ Asked(query) => QuietOK(p, chain, pool)
    BY <1>1, <2>1, <2>2, TransactionsFound
  <2> HIDE DEF d
  <2> QED
    BY <1>1, <1>6, <2>3, ReadStaysQuiet DEF p
<1>7. CASE /\ query' = [Advance(query) EXCEPT !.data = << >>, !.total = 0]
           /\ \/ none /\ chain[r.id[1]] # r.id[2]
              \/ ~\A i \in DOMAIN query.data : onChain(query.data[i])
  <2>0. PICK e, t : e = << >> /\ t = 0 /\ query' = [Advance(query) EXCEPT !.data = e, !.total = t]
    BY <1>7
  <2>1. SameQuery(query, p) /\ SamePending(query, p) /\ p.data = e /\ p.total = t
    BY <1>1, <2>0, ReadChanges
  <2> HIDE DEF p
  <2>2. ASSUME query.quiet, Asked(query) PROVE QuietOK(p, chain, pool)
    <3>1. FoundIn(query.data, chain, r, query.offset, query.limit) /\ rows = chain
      BY <1>1, <2>2, TransactionsAt, QuietAt
    <3>2. \A i \in DOMAIN query.data : onChain(query.data[i])
      BY <1>1, <3>1, FoundAgain
    <3>3. none /\ chain[r.id[1]] # r.id[2]
      BY <1>7, <3>2
    <3>4. matching(chain, r) = {}
      BY <3>3 DEF matching, Fits
    <3>5. Cardinality(matching(chain, r)) = 0
      BY <3>4, FS_EmptySet
    <3>6. p.data = query.data /\ p.total = Cardinality(matching(chain, r))
      BY <2>0, <2>1, <3>3, <3>5
    <3> QED
      BY <1>1, <2>1, <2>2, <3>6, TransactionsFound
  <2> QED
    BY <1>1, <2>0, <2>2, ReadStaysQuiet DEF p
<1> QED
  BY <1>2, <1>4, <1>5, <1>6, <1>7

LEMMA PendingStaysQuiet ==
  ASSUME QueryInv, QuietInv, getPending
  PROVE  QuietInv'
<1> DEFINE r == query.request
           keys == pendingOf(pendingTransactionsList, r)
           ordered == inPoolOrder(keys)
           total == Len(ordered)
           page == Page(ordered, r.offset, r.limit)
           pending == [i \in DOMAIN page |-> Item(page[i], 1, 0)]
           limit == Max({1, r.limit - (total - Len(page))})
           offset == Max({0, r.offset - total})
           a == Advance(query)
           p == query'
<1>1. AtStep("getPending") /\ UNCHANGED <<chain, rows, pool, pendingTransactionsList>>
  BY DEF getPending, QueryUnchanged
<1>2. query' = [a EXCEPT !.pending = pending, !.pendingTotal = total, !.limit = limit, !.offset = offset]
  BY DEF getPending
<1>3. QueryTyped(query) /\ query.steps # << >>
  BY <1>1, AtStepFacts DEF AtStep
<1>4. /\ DOMAIN a = QueryFields /\ a.steps = Tail(query.steps)
      /\ \A f \in QueryFields \ {"steps", "status"} : a[f] = query[f]
  BY <1>3, AdvanceIs DEF QueryTyped
<1> HIDE DEF a, pending, total, limit, offset
<1>5. /\ \A f \in QueryFields \ {"pending", "pendingTotal", "limit", "offset"} : p[f] = a[f]
      /\ p.pending = pending /\ p.pendingTotal = total /\ p.limit = limit /\ p.offset = offset
  BY <1>2, <1>4 DEF QueryFields
<1>6. SameQuery(query, p) /\ p.steps = Tail(query.steps)
  BY <1>4, <1>5 DEF SameQuery, QueryFields
<1> HIDE DEF p
<1>7. p.request = r
  BY <1>6 DEF SameQuery
<1>8. ASSUME query.quiet PROVE PendingOK(p, pool)
  <2>1. pendingTransactionsList = pool /\ PendingOK(query, pool)
    BY <1>1, <1>8, QuietAt
  <2>2. r.endpoint = "pendingAndOther"
    <3>1. StepsKnown(Steps(r), r) /\ Has(Steps(r), "getPending")
      BY <1>1, <1>6, StepsLeftAt
    <3> QED
      BY <3>1 DEF StepsKnown
  <2>3. PendingRead(p, pool)
    BY <1>5, <1>7, <2>1 DEF PendingRead, PendingIn, pending, total, limit, offset
  <2> QED
    BY <1>7, <2>2, <2>3 DEF PendingOK
<1>9. ASSUME query.quiet, Asked(query) PROVE QuietOK(p, chain, pool)
  <2>1. /\ StepsKnown(Steps(r), r) /\ Has(Steps(r), "getPending")
        /\ MergeOK(p, chain, pool)
        /\ r.endpoint # "blocks" => BlocksOK(p, chain)
        /\ r.endpoint \notin MetaEndpoints => AppsOK(p, chain)
        /\ r.endpoint \notin TokenEndpoints => TokensOK(p, chain)
    BY <1>1, <1>6, <1>9, QuietAfter
  <2>2. r.endpoint = "pendingAndOther"
    BY <2>1 DEF StepsKnown
  <2>3. Has(Steps(r), "find") /\ Has(Steps(r), "count")
    BY <2>1, <2>2 DEF StepsKnown, Counting
  <2>4. Left(p, "find") /\ Left(p, "count")
    BY <1>1, <1>6, <2>3, StepsLeftAt
  <2>5. PageOK(p, chain) /\ TotalOK(p, chain)
    BY <2>4 DEF PageOK, TotalOK
  <2> QED
    BY <2>1, <2>2, <2>5 DEF QuietOK, MetaEndpoints, TokenEndpoints
<1> QED
  BY <1>1, <1>6, <1>8, <1>9, QuietStepIs DEF p

LEMMA OnPage ==
  ASSUME NEW o \in Nat, NEW i \in Nat, NEW l \in Nat, NEW x, x = o + i, 1 <= i, i <= l
  PROVE  o < x /\ x <= o + l
  OBVIOUS

LEMMA AfterAll ==
  ASSUME NEW n \in Nat, NEW m \in Nat, NEW h \in 1..m
  PROVE  n + h \in 1..(n + m)
  OBVIOUS

\* A page of pending transactions and the page of the others that is left: of two
\* sequences, P and W, they are on the page asked for, and all of the first page.
Merges(P, W, all, o, l, o2, l2, n, m, pp, pw, both, y) ==
  /\ P \in Seq(Key) /\ W \in Seq(Key) /\ all \in Seq(Key) /\ Joins(all, P, W)
  /\ o \in Nat /\ l \in Nat \ {0} /\ o2 \in Nat /\ l2 \in Nat
  /\ n \in Nat /\ n = Len(P) /\ m \in Nat /\ m = Len(W)
  /\ pp \in Seq(Key) /\ IsPage(pp, P, o, l) /\ pw \in Seq(Key) /\ IsPage(pw, W, o2, l2)
  /\ n <= o => o2 = o - n
  /\ o < n => o2 = 0
  /\ Len(pp) = n => l2 = l
  /\ both \in Seq(Key) /\ Joins(both, pp, pw)
  /\ Len(pp) = l => y = pp
  /\ Len(pp) # l => y = Page(both, 0, l)

LEMMA MergedKeys ==
  ASSUME NEW P, NEW W, NEW all, NEW o, NEW l, NEW o2, NEW l2, NEW n, NEW m, NEW pp, NEW pw,
         NEW both, NEW y, Merges(P, W, all, o, l, o2, l2, n, m, pp, pw, both, y)
  PROVE  /\ o = 0 /\ Len(pp) = l => y = Page(all, 0, l)
         /\ o = 0 /\ Len(pp) # l => Len(pp) = n /\ o2 = 0 /\ l2 = l
         /\ Range(y) \subseteq Range(Page(all, o, l))
<1> USE DEF Merges
<1>1. CASE Len(pp) = l
  <2>1. y = pp
    BY <1>1
  <2>2. \A i \in 1..Len(pp) : o + i \in 1..n /\ pp[i] = P[o + i]
    BY DEF IsPage
  <2>3. Len(all) = n + m /\ \A i \in 1..n : all[i] = P[i]
    BY DEF Joins
  <2>4. \A i \in 1..Len(pp) : o + i \in 1..Len(all) /\ pp[i] = all[o + i] /\ i <= l /\ i \in Nat /\ 1 <= i
    BY <1>1, <2>2, <2>3
  <2>5. Range(y) \subseteq Range(Page(all, o, l))
    <3>1. ASSUME NEW i \in 1..Len(pp) PROVE pp[i] \in Range(Page(all, o, l))
      <4>0. i \in Nat /\ 1 <= i /\ i <= l /\ o + i \in 1..Len(all) /\ pp[i] = all[o + i]
        BY <2>4
      <4>1. o + i \in 1..Len(all) /\ o < o + i /\ o + i <= o + l /\ pp[i] = all[o + i]
        BY <4>0
      <4>2. all[o + i] \in Range(Page(all, o, l))
        BY <4>1, PageHas
      <4> QED
        BY <4>1, <4>2
    <3>2. DOMAIN pp = 1..Len(pp)
      OBVIOUS
    <3> QED
      BY <2>1, <3>1, <3>2 DEF Range
  <2>6. ASSUME o = 0 PROVE y = Page(all, 0, l)
    <3> DEFINE q == Page(all, 0, l)
    <3>1. /\ q \in Seq(Key)
          /\ l <= Len(all) => Len(q) = l
          /\ \A i \in 1..Len(q) : q[i] = all[i]
      BY FirstPage
    <3> HIDE DEF q
    <3>2. l <= Len(all)
      <4>1. l \in 1..Len(pp)
        BY <1>1
      <4>2. o + l \in 1..Len(all)
        BY <2>4, <4>1
      <4> QED
        BY <2>6, <4>2
    <3>3. Len(q) = Len(pp)
      BY <1>1, <3>1, <3>2
    <3>4. \A i \in 1..Len(pp) : pp[i] = q[i]
      BY <2>4, <2>6, <3>1, <3>3
    <3>5. pp = q
      BY <3>1, <3>3, <3>4, SameSequence
    <3> QED
      BY <2>1, <3>5 DEF q
  <2> QED
    BY <1>1, <2>5, <2>6
<1>2. CASE Len(pp) # l
  <2>1. y = Page(both, 0, l)
    BY <1>2
  <2>2. /\ y \in Seq(Key) /\ Len(y) \in Nat
        /\ Len(both) <= l => Len(y) = Len(both)
        /\ l <= Len(both) => Len(y) = l
        /\ \A i \in 1..Len(y) : i \in 1..Len(both) /\ y[i] = both[i]
    BY <2>1, FirstPage
  <2>3. Len(y) <= l
    <3>1. Len(both) \in Nat
      OBVIOUS
    <3> QED
      BY <2>2, <3>1
  <2>4. \/ n <= o /\ Len(pp) = 0 /\ o2 = o - n
        \/ o < n /\ Len(pp) = n - o /\ o2 = 0
    <3>1. ~(o + l < n)
      BY <1>2 DEF IsPage
    <3> QED
      BY <3>1 DEF IsPage
  <2>5. /\ Len(all) = n + m /\ \A i \in 1..n : all[i] = P[i]
        /\ \A i \in 1..m : all[n + i] = W[i]
    BY DEF Joins
  <2>6. ASSUME NEW i \in 1..Len(y) PROVE y[i] \in Range(Page(all, o, l))
    <3>0. i \in Nat /\ 1 <= i /\ i <= l /\ i \in 1..Len(both) /\ y[i] = both[i]
      BY <2>2, <2>3
    <3>1. CASE i \in 1..Len(pp)
      <4>1. y[i] = pp[i] /\ o + i \in 1..n /\ pp[i] = P[o + i]
        BY <3>0, <3>1 DEF Joins, IsPage
      <4>2. o + i \in 1..Len(all) /\ o < o + i /\ o + i <= o + l /\ y[i] = all[o + i]
        <5>1. o < o + i /\ o + i <= o + l
          BY <3>0, OnPage
        <5>2. o + i \in 1..Len(all)
          BY <2>5, <4>1
        <5> QED
          BY <2>5, <4>1, <5>1, <5>2
      <4>3. all[o + i] \in Range(Page(all, o, l))
        BY <4>2, PageHas
      <4> QED
        BY <4>2, <4>3
    <3>2. ASSUME NEW j \in 1..Len(pw), i = Len(pp) + j PROVE y[i] \in Range(Page(all, o, l))
      <4>1. y[i] = pw[j] /\ o2 + j \in 1..m /\ pw[j] = W[o2 + j]
        BY <3>0, <3>2 DEF Joins, IsPage
      <4>2. PICK h \in 1..m : h = o2 + j
        BY <4>1
      <4>3. y[i] = all[n + h] /\ n + h \in 1..Len(all)
        <5>1. all[n + h] = W[h] /\ n + h \in 1..(n + m)
          BY <2>5, AfterAll
        <5> QED
          BY <2>5, <4>1, <4>2, <5>1
      <4>4. j \in Nat /\ 1 <= j /\ Len(pp) \in Nat
        BY DEF IsPage
      <4>5. o < n + h /\ n + h <= o + l
        <5>1. CASE n <= o /\ Len(pp) = 0 /\ o2 = o - n
          <6>1. n + h = o + i
            BY <3>2, <4>2, <4>4, <5>1
          <6> QED
            BY <3>0, <6>1, OnPage
        <5>2. CASE o < n /\ Len(pp) = n - o /\ o2 = 0
          <6>1. n + h = o + i /\ h = j
            BY <3>2, <4>2, <4>4, <5>2
          <6> QED
            BY <3>0, <6>1, OnPage
        <5> QED
          BY <2>4, <5>1, <5>2
      <4>6. all[n + h] \in Range(Page(all, o, l))
        BY <4>3, <4>5, PageHas
      <4> QED
        BY <4>3, <4>6
    <3> QED
      BY <3>0, <3>1, <3>2 DEF Joins
  <2>7. Range(y) \subseteq Range(Page(all, o, l))
    <3>1. DOMAIN y = 1..Len(y)
      BY <2>2
    <3> QED
      BY <2>6, <3>1 DEF Range
  <2>8. o = 0 => Len(pp) = n /\ o2 = 0 /\ l2 = l
    BY <2>4
  <2> QED
    BY <1>2, <2>7, <2>8
<1> QED
  BY <1>1, <1>2

\* Pending transactions as rows.
LEMMA PendingKeys ==
  ASSUME NEW page \in Seq(Key), NEW d, d = [i \in DOMAIN page |-> Item(page[i], 1, 0)]
  PROVE  d \in Seq(RowItem) /\ Keys(d) = page /\ Len(d) = Len(page)
<1>1. \A k \in Key : Item(k, 1, 0) \in RowItem /\ Item(k, 1, 0).key = k
  BY QueriesAssumption DEF Item, RowItem, Versions
<1>2. d \in Seq(RowItem) /\ Len(d) = Len(page) /\ \A i \in 1..Len(page) : d[i].key = page[i]
  BY <1>1
<1>3. /\ Keys(d) \in Seq(Key) /\ Len(Keys(d)) = Len(d) /\ \A i \in 1..Len(d) : Keys(d)[i] = d[i].key
  BY <1>2, KeysOf
<1>4. Keys(d) = page
  BY <1>2, <1>3, SameSequence
<1> QED
  BY <1>2, <1>4

\* What is merged.
LEMMA MergedAt ==
  ASSUME NEW ch \in Tables, NEW pl \in SUBSET Key, NEW r, RequestTyped(r), NEW q,
         PendingRead(q, pl), FoundIn(q.data, ch, r, q.offset, q.limit), q.request = r,
         q.offset \in Nat, q.limit \in Nat, q.total = Cardinality(matching(ch, r)),
         NEW d, d = IF Len(q.pending) = r.limit THEN q.pending ELSE Page(q.pending \o q.data, 0, r.limit),
         NEW t, t = q.total + q.pendingTotal
  PROVE  MergedIs(d, t, ch, pl, r)
<1>0. r.offset \in Nat /\ r.limit \in Nat \ {0} /\ r.desc \in BOOLEAN
  BY DEF RequestTyped
<1> DEFINE P == PendingIn(pl, r)
           W == WantedIn(ch, r)
           all == P \o W
           pp == Page(P, r.offset, r.limit)
           pw == Page(W, q.offset, q.limit)
           both == pp \o pw
           n == Len(P)
           y == Keys(d)
<1>1. P \in Seq(Key) /\ n \in Nat
  <2>1. pendingOf(pl, r) \in SUBSET Key
    BY DEF pendingOf
  <2>2. P \in Seq(Key)
    BY <2>1, PoolOrdered DEF PendingIn
  <2> QED
    BY <2>2
<1>2. W \in Seq(Key) /\ Len(W) = Cardinality(matching(ch, r)) /\ Len(W) \in Nat
  BY <1>0, WantedKeys
<1>3. /\ q.pending = [i \in DOMAIN pp |-> Item(pp[i], 1, 0)] /\ q.pendingTotal = n
      /\ q.limit = Max({1, r.limit - (n - Len(pp))}) /\ q.offset = Max({0, r.offset - n})
  BY <1>1 DEF PendingRead
<1>4. q.data = Rows(ch, pw)
  BY DEF FoundIn
<1> HIDE DEF P, W
<1>5. pp \in Seq(Key) /\ IsPage(pp, P, r.offset, r.limit) /\ pw \in Seq(Key) /\ IsPage(pw, W, q.offset, q.limit)
  BY <1>0, <1>1, <1>2, PageLength
<1>6. all \in Seq(Key) /\ Joins(all, P, W)
  BY <1>1, <1>2, JoinIs
<1> HIDE DEF all, pp, pw, n
<1>7. both \in Seq(Key) /\ Joins(both, pp, pw)
  BY <1>5, JoinIs
<1>8. /\ q.pending \in Seq(RowItem) /\ Keys(q.pending) = pp /\ Len(q.pending) = Len(pp)
      /\ q.data \in Seq(RowItem) /\ Keys(q.data) = pw
  BY <1>3, <1>4, <1>5, PendingKeys, KeysOfRows
<1>9. Len(pp) # r.limit => y = Page(both, 0, r.limit)
  <2> SUFFICES ASSUME Len(pp) # r.limit PROVE y = Page(both, 0, r.limit)
    OBVIOUS
  <2> DEFINE u == q.pending \o q.data
  <2>1. d = Page(u, 0, r.limit)
    BY <1>8
  <2>2. u \in Seq(RowItem) /\ Keys(u) = both
    BY <1>8, KeysJoined
  <2> HIDE DEF u
  <2>3. 0 \in Nat /\ r.limit \in Nat
    BY <1>0
  <2>4. Keys(Page(u, 0, r.limit)) = Page(Keys(u), 0, r.limit)
    BY <2>2, <2>3, KeysOfPage
  <2> QED
    BY <2>1, <2>2, <2>4
<1>10. Len(pp) = r.limit => y = pp
  BY <1>8
<1>11. /\ n <= r.offset => q.offset = r.offset - n
       /\ r.offset < n => q.offset = 0
       /\ Len(pp) = n => q.limit = r.limit
  <2>1. r.offset - n \in Int /\ r.limit - (n - Len(pp)) \in Int /\ 0 \in Int /\ 1 \in Int
    BY <1>0, <1>1, <1>5
  <2>2. q.offset = IF 0 <= r.offset - n THEN r.offset - n ELSE 0
    BY <1>3, <2>1, OfTwo
  <2>3. q.limit = IF 1 <= r.limit - (n - Len(pp)) THEN r.limit - (n - Len(pp)) ELSE 1
    BY <1>3, <2>1, OfTwo
  <2> QED
    BY <1>0, <1>1, <2>2, <2>3
<1> HIDE DEF both, y
<1>12. n = Len(P) /\ n \in Nat
  BY <1>1 DEF n
<1>13. PICK o \in Nat, l \in Nat \ {0}, o2 \in Nat, l2 \in Nat, m \in Nat :
         o = r.offset /\ l = r.limit /\ o2 = q.offset /\ l2 = q.limit /\ m = Len(W)
  BY <1>0, <1>2
<1>14. /\ IsPage(pp, P, o, l) /\ IsPage(pw, W, o2, l2)
       /\ n <= o => o2 = o - n
       /\ o < n => o2 = 0
       /\ Len(pp) = n => l2 = l
       /\ Len(pp) = l => y = pp
       /\ Len(pp) # l => y = Page(both, 0, l)
  BY <1>5, <1>9, <1>10, <1>11, <1>13
<1>15. /\ o = 0 /\ Len(pp) = l => y = Page(all, 0, l)
       /\ o = 0 /\ Len(pp) # l => Len(pp) = n /\ o2 = 0 /\ l2 = l
       /\ Range(y) \subseteq Range(Page(all, o, l))
  <2>1. Merges(P, W, all, o, l, o2, l2, n, m, pp, pw, both, y)
    BY <1>1, <1>2, <1>5, <1>6, <1>7, <1>12, <1>13, <1>14 DEF Merges
  <2> QED
    BY <2>1, MergedKeys
<1>16. ASSUME o = 0, Len(pp) # l PROVE y = Page(all, 0, l)
  <2>1. Len(pp) = n /\ o2 = 0 /\ l2 = l
    BY <1>15, <1>16
  <2>2. pp = Page(P, 0, l) /\ pw = Page(W, 0, l)
    BY <1>13, <1>16, <2>1 DEF pp, pw
  <2>3. pp = P
    BY <1>1, <1>12, <1>13, <2>1, <2>2, FirstPage
  <2>4. both = P \o Page(W, 0, l)
    BY <2>2, <2>3 DEF both
  <2>5. l \in Nat /\ l <= l
    OBVIOUS
  <2>6. Page(P \o Page(W, 0, l), 0, l) = Page(P \o W, 0, l)
    BY <1>1, <1>2, <2>5, PageOfJoined
  <2> QED
    BY <1>14, <1>16, <2>4, <2>6 DEF all
<1>17. t = Len(all)
  <2>1. Len(all) = n + Len(W)
    BY <1>6, <1>12 DEF Joins
  <2>2. t = Len(W) + n
    BY <1>2, <1>3
  <2> QED
    BY <1>2, <1>12, <2>1, <2>2
<1>18. o = 0 => y = Page(all, 0, l)
  BY <1>15, <1>16
<1> QED
  BY <1>13, <1>15, <1>17, <1>18 DEF MergedIs, all, P, W, y

LEMMA MergeStaysQuiet ==
  ASSUME QueryInv, QuietInv, merge
  PROVE  QuietInv'
<1> DEFINE r == query.request
           p == query'
           d == IF Len(query.pending) = r.limit THEN query.pending
                ELSE Page(query.pending \o query.data, 0, r.limit)
           t == query.total + query.pendingTotal
<1>1. AtStep("merge") /\ UNCHANGED <<chain, rows, pool, pendingTransactionsList>>
  BY DEF merge, QueryUnchanged
<1>2. query' = [Advance(query) EXCEPT !.data = d, !.total = t]
  <2>1. Advance(query).data = query.data /\ Advance(query).total = query.total
    BY <1>1, AtStepFacts, AdvanceIs DEF AtStep, QueryFields
  <2> QED
    BY <2>1 DEF merge
<1>3. /\ SameQuery(query, p) /\ SamePending(query, p) /\ p.data = d /\ p.total = t
      /\ p.steps = Tail(query.steps)
  BY <1>1, <1>2, ReadChanges DEF SameQuery
<1> HIDE DEF p, d, t
<1>4. /\ chain \in Tables /\ RequestTyped(r) /\ query.offset \in Nat /\ query.limit \in Nat
      /\ pendingTransactionsList \in SUBSET Key
  BY <1>1, AtStepFacts
<1>5. ASSUME query.quiet, Asked(query) PROVE QuietOK(p, chain, pool)
  <2>1. /\ p.request = r /\ StepsKnown(Steps(r), r) /\ Has(Steps(r), "merge")
        /\ pendingTransactionsList = pool /\ Left(query, "merge")
        /\ QuietOK(query, chain, pool) /\ PendingOK(query, pool)
        /\ r.endpoint # "blocks" => BlocksOK(p, chain)
        /\ r.endpoint \notin MetaEndpoints => AppsOK(p, chain)
        /\ r.endpoint \notin TokenEndpoints => TokensOK(p, chain)
        /\ \A x : Left(p, x) <=> Left(query, x) /\ x # "merge"
    BY <1>1, <1>3, <1>5, QuietAfter
  <2>2. \A x : ~Left(p, x)
    BY <1>1, <1>3, StepsLeftAt
  <2>3. r.endpoint = "pendingAndOther"
    BY <2>1 DEF StepsKnown
  <2>4. PendingRead(query, pool)
    BY <2>1, <2>2, <2>3 DEF PendingOK
  <2>5. query.total = Cardinality(matching(chain, r))
    <3>1. TotalOK(query, chain)
      BY <2>1 DEF QuietOK
    <3> QED
      BY <2>1, <2>2, <2>3, <3>1 DEF TotalOK, Counting
  <2>6. MergeOK(p, chain, pool)
    <3> SUFFICES ASSUME ~UnfitIn(chain, r) PROVE MergedIs(d, t, chain, pool, r)
      BY <1>3, <2>1 DEF MergeOK
    <3>1. PageOK(query, chain)
      BY <2>1 DEF QuietOK
    <3>2. FoundIn(query.data, chain, r, query.offset, query.limit)
      BY <2>1, <2>2, <2>3, <3>1 DEF PageOK
    <3>3. pool \in SUBSET Key
      BY <1>4, <2>1
    <3> QED
      BY <1>4, <2>4, <2>5, <3>2, <3>3, MergedAt DEF d, t
  <2>7. PageOK(p, chain) /\ TotalOK(p, chain)
    BY <2>1, <2>2, <2>3 DEF PageOK, TotalOK
  <2> QED
    BY <2>1, <2>3, <2>6, <2>7 DEF QuietOK, MetaEndpoints, TokenEndpoints
<1> QED
  BY <1>1, <1>2, <1>5, ReadStaysQuiet DEF p
-----------------------------------------------------------------------------
(* Apps, default ones first                                                 *)

LEMMA RangeOfFirstPage ==
  ASSUME NEW s \in Seq(Key), NEW limit \in Nat
  PROVE  Range(Page(s, 0, limit)) \subseteq Range(s)
<1> DEFINE page == Page(s, 0, limit)
<1>1. page \in Seq(Key) /\ \A i \in 1..Len(page) : i \in 1..Len(s) /\ page[i] = s[i]
  BY FirstPage
<1> HIDE DEF page
<1>2. DOMAIN page = 1..Len(page) /\ DOMAIN s = 1..Len(s)
  BY <1>1
<1>3. Range(page) \subseteq Range(s)
  BY <1>1, <1>2 DEF Range
<1> QED
  BY <1>3 DEF page

\* Default apps D and others O, of which n are found, of each, for a page of l.
LEMMA AppKeys ==
  ASSUME NEW D \in Seq(Key), NEW O \in Seq(Key), NEW l \in Nat, NEW n \in Nat, l <= n,
         NEW kd \in Seq(Key), kd = Page(D, 0, n)
  PROVE  /\ Len(kd) < l => /\ kd = D
                           /\ Range(Page(D \o O, 0, l)) \subseteq Range(D \o Page(O, 0, n))
         /\ ~(Len(kd) < l) => /\ ~(Len(D) < l)
                              /\ Range(Page(D \o O, 0, l)) \subseteq Range(kd)
<1>1. /\ Len(kd) \in Nat
      /\ Len(D) <= n => Len(kd) = Len(D)
      /\ n <= Len(D) => Len(kd) = n
      /\ \A i \in 1..Len(kd) : i \in 1..Len(D) /\ kd[i] = D[i]
      /\ Len(kd) = Len(D) => kd = D
  BY FirstPage
<1>2. Len(D) \in Nat
  OBVIOUS
<1>3. ASSUME Len(kd) < l
      PROVE  kd = D /\ Range(Page(D \o O, 0, l)) \subseteq Range(D \o Page(O, 0, n))
  <2>1. Len(D) <= n
    BY <1>1, <1>2, <1>3
  <2> DEFINE o == Page(O, 0, n)
             s == D \o o
  <2>2. Page(s, 0, l) = Page(D \o O, 0, l)
    BY PageOfJoined
  <2>3. o \in Seq(Key)
    BY FirstPage
  <2> HIDE DEF o
  <2>4. s \in Seq(Key)
    BY <2>3, JoinIs
  <2> HIDE DEF s
  <2>5. Range(Page(s, 0, l)) \subseteq Range(s)
    BY <2>4, RangeOfFirstPage
  <2> QED
    BY <1>1, <2>1, <2>2, <2>5 DEF s, o
<1>4. ASSUME ~(Len(kd) < l)
      PROVE  ~(Len(D) < l) /\ Range(Page(D \o O, 0, l)) \subseteq Range(kd)
  <2> DEFINE all == D \o O
             page == Page(all, 0, l)
  <2>1. l <= Len(kd) /\ Len(kd) <= Len(D)
    BY <1>1, <1>2, <1>4
  <2>2. all \in Seq(Key) /\ Joins(all, D, O)
    BY JoinIs
  <2> HIDE DEF all
  <2>3. /\ page \in Seq(Key) /\ Len(page) \in Nat
        /\ Len(all) <= l => Len(page) = Len(all)
        /\ l <= Len(all) => Len(page) = l
        /\ \A i \in 1..Len(page) : i \in 1..Len(all) /\ page[i] = all[i]
    BY <2>2, FirstPage
  <2> HIDE DEF page
  <2>4. Len(page) <= l
    <3>1. Len(all) \in Nat
      BY <2>2
    <3> QED
      BY <2>3, <3>1
  <2>5. ASSUME NEW i \in 1..Len(page) PROVE i \in 1..Len(kd) /\ page[i] = kd[i]
    <3>1. i \in 1..Len(kd) /\ i \in 1..Len(D)
      BY <1>1, <1>2, <2>1, <2>3, <2>4
    <3> QED
      BY <1>1, <2>2, <2>3, <3>1 DEF Joins
  <2>6. DOMAIN page = 1..Len(page) /\ DOMAIN kd = 1..Len(kd)
    BY <2>3
  <2>7. Range(page) \subseteq Range(kd)
    BY <2>5, <2>6 DEF Range
  <2> QED
    BY <1>1, <1>2, <2>1, <2>7 DEF page, all
<1> QED
  BY <1>3, <1>4

\* What is found of the apps.
LEMMA AppsRead ==
  ASSUME QueryInv, NEW step, AtStep(step), rows = chain, query.offset = query.request.offset,
         query.limit = query.request.limit, query.request.offset = 0
  PROVE  LET r == query.request
             n == r.limit * numNetworks
         IN  /\ findApps(TRUE) \in Seq(RowItem) /\ Keys(findApps(TRUE)) = Page(DefaultsIn(chain, r), 0, n)
             /\ findApps(FALSE) \in Seq(RowItem) /\ Keys(findApps(FALSE)) = Page(OthersIn(chain, r), 0, n)
             /\ DefaultsIn(chain, r) \in Seq(Key) /\ OthersIn(chain, r) \in Seq(Key)
             /\ n \in Nat /\ r.limit \in Nat /\ r.limit <= n
<1> DEFINE r == query.request
           n == r.limit * numNetworks
<1>1. chain \in Tables /\ RequestTyped(r)
  BY AtStepFacts
<1>2. r.limit \in Nat \ {0} /\ r.desc \in BOOLEAN
  BY <1>1 DEF RequestTyped
<1>3. n \in Nat /\ r.limit <= n
  <2>1. \A a \in Nat, b \in Nat \ {0} : a * b \in Nat /\ a <= a * b
    <3> TAKE a \in Nat, b \in Nat \ {0}
    <3>1. b - 1 \in Nat /\ a * (b - 1) \in Nat /\ a * b = a * (b - 1) + a
      OBVIOUS
    <3> QED
      BY <3>1
  <2> QED
    BY <1>2, <2>1, QueriesAssumption
<1> DEFINE D == DefaultsIn(chain, r)
           O == OthersIn(chain, r)
<1>4. /\ {k \in matching(rows, r) : (k \in Flagged) = TRUE} = matching(chain, r) \cap Flagged
      /\ {k \in matching(rows, r) : (k \in Flagged) = FALSE} = matching(chain, r) \ Flagged
  <2>1. \A k : /\ ((k \in Flagged) = TRUE) <=> k \in Flagged
               /\ ((k \in Flagged) = FALSE) <=> k \notin Flagged
    OBVIOUS
  <2>2. matching(rows, r) = matching(chain, r)
    OBVIOUS
  <2> QED
    BY <2>1, <2>2, Zenon
<1>5. D \in Seq(Key) /\ O \in Seq(Key)
  <2>1. matching(chain, r) \cap Flagged \in SUBSET Key /\ matching(chain, r) \ Flagged \in SUBSET Key
    BY MatchingKeys
  <2> QED
    BY <1>2, <2>1, OrderedKeys DEF DefaultsIn, OthersIn
<1>6. findApps(TRUE) = Rows(chain, Page(D, 0, n)) /\ findApps(FALSE) = Rows(chain, Page(O, 0, n))
  BY <1>4 DEF findApps, DefaultsIn, OthersIn
<1> HIDE DEF D, O, n
<1>7. Page(D, 0, n) \in Seq(Key) /\ Page(O, 0, n) \in Seq(Key)
  BY <1>3, <1>5, FirstPage
<1> QED
  BY <1>1, <1>2, <1>3, <1>5, <1>6, <1>7, KeysOfRows DEF D, O, n

\* A step that finds apps: the rest of the invariant does not depend on them.
LEMMA AppsStay ==
  ASSUME QueryInv, QuietInv, NEW step \in {"findDefaults", "findOthers", "slice"}, AtStep(step),
         UNCHANGED <<chain, rows, pool, pendingTransactionsList>>, NEW d,
         query' = [Advance(query) EXCEPT !.data = d],
         query.quiet /\ Asked(query) => AppsOK(query', chain)
  PROVE  QuietInv'
<1> DEFINE r == query.request
           p == query'
<1>1. SameQuery(query, p) /\ p.total = query.total
  BY ReadChanges
<1>2. query.quiet /\ Asked(query) => AppsOK(p, chain)
  OBVIOUS
<1> HIDE DEF p
<1>3. ASSUME query.quiet, Asked(query) PROVE QuietOK(p, chain, pool)
  <2>1. /\ p.request = r /\ StepsKnown(Steps(r), r) /\ Has(Steps(r), step)
        /\ MergeOK(p, chain, pool) /\ TotalOK(p, chain)
        /\ r.endpoint # "blocks" => BlocksOK(p, chain)
        /\ r.endpoint \notin TokenEndpoints => TokensOK(p, chain)
    BY <1>1, <1>3, QuietAfter
  <2>2. r.endpoint \in MetaEndpoints
    BY <2>1 DEF StepsKnown, MetaEndpoints
  <2>3. PageOK(p, chain)
    BY <2>1, <2>2 DEF PageOK, MetaEndpoints, TokenEndpoints, Pages
  <2> QED
    BY <1>2, <1>3, <2>1, <2>2, <2>3 DEF QuietOK, MetaEndpoints, TokenEndpoints
<1> QED
  BY <1>3, ReadStaysQuiet DEF p

LEMMA DefaultsStayQuiet ==
  ASSUME QueryInv, QuietInv, findDefaults
  PROVE  QuietInv'
<1> DEFINE r == query.request
           p == query'
           d == findApps(TRUE)
<1>1. /\ AtStep("findDefaults") /\ UNCHANGED <<chain, rows, pool, pendingTransactionsList>>
      /\ query' = [Advance(query) EXCEPT !.data = d]
  BY DEF findDefaults, QueryUnchanged
<1>2. SameQuery(query, p) /\ p.steps = Tail(query.steps) /\ p.data = d
  BY <1>1, ReadChanges DEF SameQuery
<1> HIDE DEF p
<1>3. ASSUME query.quiet, Asked(query) PROVE AppsOK(p, chain)
  <2>1. /\ p.request = r /\ StepsKnown(Steps(r), r) /\ Has(Steps(r), "findDefaults")
        /\ rows = chain /\ PendingOK(query, pool)
    BY <1>1, <1>2, <1>3, QuietAfter
  <2>2. r.endpoint \in MetaEndpoints /\ Has(Steps(r), "findOthers")
    BY <2>1 DEF StepsKnown
  <2>3. Left(p, "findOthers")
    BY <1>1, <1>2, <2>2, StepsLeftAt
  <2>4. query.offset = r.offset /\ query.limit = r.limit
    BY <2>1, <2>2 DEF PendingOK, MetaEndpoints
  <2>5. r.offset = 0 => Keys(p.data) = Page(DefaultsIn(chain, r), 0, r.limit * numNetworks)
    BY <1>1, <1>2, <2>1, <2>4, AppsRead
  <2> QED
    BY <2>1, <2>3, <2>5 DEF AppsOK
<1> HIDE DEF d
<1> QED
  BY <1>1, <1>3, AppsStay DEF p

LEMMA OthersStayQuiet ==
  ASSUME QueryInv, QuietInv, findOthers
  PROVE  QuietInv'
<1> DEFINE r == query.request
           p == query'
           others == findApps(FALSE)
           d == IF Len(query.data) < query.limit THEN query.data \o others
                ELSE IF r.endpoint = "metaList" THEN << >> ELSE query.data
<1>1. AtStep("findOthers") /\ UNCHANGED <<chain, rows, pool, pendingTransactionsList>>
  BY DEF findOthers, QueryUnchanged
<1>2. query' = [Advance(query) EXCEPT !.data = d]
  <2>1. Advance(query).data = query.data
    BY <1>1, AtStepFacts, AdvanceIs DEF AtStep, QueryFields
  <2> QED
    BY <2>1 DEF findOthers
<1>3. SameQuery(query, p) /\ p.steps = Tail(query.steps) /\ p.data = d
  BY <1>1, <1>2, ReadChanges DEF SameQuery
<1> HIDE DEF p
<1>4. ASSUME query.quiet, Asked(query) PROVE AppsOK(p, chain)
  <2>1. /\ p.request = r /\ StepsKnown(Steps(r), r) /\ Has(Steps(r), "findOthers")
        /\ rows = chain /\ PendingOK(query, pool) /\ QuietOK(query, chain, pool)
        /\ Left(query, "findOthers")
        /\ \A x : Left(p, x) <=> Left(query, x) /\ x # "findOthers"
    BY <1>1, <1>3, <1>4, QuietAfter
  <2>2. r.endpoint \in MetaEndpoints /\ (r.endpoint = "metaList" => Has(Steps(r), "slice"))
    BY <2>1 DEF StepsKnown
  <2>3. ~Left(query, "findDefaults") /\ (Has(Steps(r), "slice") => Left(p, "slice"))
    BY <1>1, <1>3, StepsLeftAt
  <2>4. query.offset = r.offset /\ query.limit = r.limit
    BY <2>1, <2>2 DEF PendingOK, MetaEndpoints
  <2> SUFFICES ASSUME r.offset = 0 PROVE AppsOK(p, chain)
    BY <2>1 DEF AppsOK
  <2> DEFINE n == r.limit * numNetworks
             D == DefaultsIn(chain, r)
             O == OthersIn(chain, r)
             kd == Keys(query.data)
  <2>5. kd = Page(D, 0, n)
    <3>1. AppsOK(query, chain)
      BY <2>1 DEF QuietOK
    <3> QED
      BY <2>1, <2>2, <2>3, <3>1 DEF AppsOK
  <2>6. /\ others \in Seq(RowItem) /\ Keys(others) = Page(O, 0, n)
        /\ D \in Seq(Key) /\ O \in Seq(Key) /\ n \in Nat /\ r.limit \in Nat /\ r.limit <= n
    BY <1>1, <2>1, <2>4, AppsRead
  <2>7. query.data \in Seq(RowItem)
    BY <1>1, AtStepFacts
  <2>8. kd \in Seq(Key) /\ Len(kd) = Len(query.data)
    BY <2>7, KeysOf
  <2> HIDE DEF n, D, O, others
  <2>9. /\ Len(kd) < r.limit => /\ kd = D
                                /\ Range(Page(D \o O, 0, r.limit)) \subseteq Range(D \o Page(O, 0, n))
        /\ ~(Len(kd) < r.limit) => /\ ~(Len(D) < r.limit)
                                   /\ Range(Page(D \o O, 0, r.limit)) \subseteq Range(kd)
    <3> HIDE DEF kd
    <3> QED
      BY <2>5, <2>6, <2>8, AppKeys
  <2>10. CASE Len(query.data) < r.limit
    <3>1. p.data = query.data \o others
      BY <1>3, <2>4, <2>10
    <3>2. Keys(p.data) = D \o Page(O, 0, n)
      BY <2>6, <2>7, <2>8, <2>9, <2>10, <3>1, KeysJoined
    <3>3. Range(Page(D \o O, 0, r.limit)) \subseteq Range(Keys(p.data))
      BY <2>8, <2>9, <2>10, <3>2
    <3>4. r.endpoint = "metadata" \/ (r.endpoint = "metaList" /\ Left(p, "slice"))
      <4>1. r.endpoint = "metadata" \/ r.endpoint = "metaList"
        BY <2>2 DEF MetaEndpoints
      <4>2. r.endpoint = "metaList" => Left(p, "slice")
        BY <2>2, <2>3
      <4> QED
        BY <4>1, <4>2
    <3> QED
      BY <2>1, <3>2, <3>3, <3>4 DEF AppsOK, D, O, n
  <2>11. CASE ~(Len(query.data) < r.limit)
    <3>1. ~(Len(D) < r.limit) /\ Range(Page(D \o O, 0, r.limit)) \subseteq Range(kd)
      BY <2>8, <2>9, <2>11
    <3>2. r.endpoint # "metaList" => p.data = query.data
      BY <1>3, <2>4, <2>11
    <3> QED
      BY <2>1, <2>2, <3>1, <3>2 DEF AppsOK, D, O, MetaEndpoints
  <2> QED
    BY <2>10, <2>11
<1> HIDE DEF d
<1> QED
  BY <1>1, <1>2, <1>4, AppsStay DEF p

LEMMA SliceStaysQuiet ==
  ASSUME QueryInv, QuietInv, slice
  PROVE  QuietInv'
<1> DEFINE r == query.request
           p == query'
           d == Page(query.data, query.offset, query.limit)
<1>1. AtStep("slice") /\ UNCHANGED <<chain, rows, pool, pendingTransactionsList>>
  BY DEF slice, QueryUnchanged
<1>2. query' = [Advance(query) EXCEPT !.data = d]
  <2>1. Advance(query).data = query.data
    BY <1>1, AtStepFacts, AdvanceIs DEF AtStep, QueryFields
  <2> QED
    BY <2>1 DEF slice
<1>3. SameQuery(query, p) /\ p.steps = Tail(query.steps) /\ p.data = d
  BY <1>1, <1>2, ReadChanges DEF SameQuery
<1> HIDE DEF p
<1>4. ASSUME query.quiet, Asked(query) PROVE AppsOK(p, chain)
  <2>1. /\ p.request = r /\ StepsKnown(Steps(r), r) /\ Has(Steps(r), "slice")
        /\ rows = chain /\ PendingOK(query, pool) /\ QuietOK(query, chain, pool)
        /\ Left(query, "slice")
        /\ \A x : Left(p, x) <=> Left(query, x) /\ x # "slice"
    BY <1>1, <1>3, <1>4, QuietAfter
  <2>2. r.endpoint = "metaList"
    BY <2>1 DEF StepsKnown
  <2>3. ~Left(query, "findDefaults") /\ ~Left(query, "findOthers")
    BY <1>1, <1>3, StepsLeftAt
  <2>4. query.offset = r.offset /\ query.limit = r.limit
    BY <2>1, <2>2 DEF PendingOK
  <2> DEFINE n == r.limit * numNetworks
             D == DefaultsIn(chain, r)
             O == OthersIn(chain, r)
  <2> SUFFICES ASSUME r.offset = 0, Len(D) < r.limit PROVE Keys(d) = Page(D \o O, 0, r.limit)
    BY <1>3, <2>1, <2>2, <2>3 DEF AppsOK
  <2>5. Keys(query.data) = D \o Page(O, 0, n)
    <3>1. AppsOK(query, chain)
      BY <2>1 DEF QuietOK
    <3> QED
      BY <2>1, <2>2, <2>3, <3>1 DEF AppsOK, MetaEndpoints
  <2>6. D \in Seq(Key) /\ O \in Seq(Key) /\ n \in Nat /\ r.limit \in Nat /\ r.limit <= n
    BY <1>1, <2>1, <2>4, AppsRead
  <2>7. query.data \in Seq(RowItem)
    BY <1>1, AtStepFacts
  <2>8. Keys(d) = Page(Keys(query.data), r.offset, r.limit)
    BY <2>4, <2>6, <2>7, KeysOfPage
  <2> HIDE DEF D, O, n
  <2>9. Page(D \o Page(O, 0, n), 0, r.limit) = Page(D \o O, 0, r.limit)
    BY <2>6, PageOfJoined
  <2> QED
    BY <2>5, <2>8, <2>9
<1> HIDE DEF d
<1> QED
  BY <1>1, <1>2, <1>4, AppsStay DEF p
-----------------------------------------------------------------------------
(* The tokens of chains                                                     *)

LEMMA TokensHave ==
  ASSUME rows \in Tables, NEW x, NEW k \in Key, rows[k] # 0,
         Owner[<<k, rows[k]>>] = Owner[<<x.key, x.version>>]
  PROVE  \E j \in 1..Len(tokensOf(x)) : tokensOf(x)[j].key = k
<1> DEFINE S == {h \in Key : rows[h] # 0 /\ Owner[<<h, rows[h]>>] = Owner[<<x.key, x.version>>]}
           s == inOrder(S, FALSE)
<1>1. S \in SUBSET Key /\ k \in S
  OBVIOUS
<1>2. tokensOf(x) = Rows(rows, s)
  BY DEF tokensOf
<1> HIDE DEF S
<1>3. s \in Seq(Key) /\ \E j \in 1..Len(s) : s[j] = k
  BY <1>1, OrderedKeys
<1> HIDE DEF s
<1>4. Len(tokensOf(x)) = Len(s) /\ \A j \in 1..Len(s) : tokensOf(x)[j].key = s[j]
  BY <1>2, <1>3, RowsAre
<1> QED
  BY <1>3, <1>4

LEMMA FlattenHas ==
  ASSUME NEW ss \in Seq(Seq(RowItem)), NEW i \in 1..Len(ss), NEW j \in 1..Len(ss[i])
  PROVE  ss[i][j].key \in Range(Keys(FlattenSeq(ss)))
<1> DEFINE d == FlattenSeq(ss)
<1>1. d \in Seq(RowItem) /\ \E k \in 1..Len(d) : d[k] = ss[i][j]
  BY FlattenIs DEF Joined
<1> HIDE DEF d
<1>2. PICK k \in 1..Len(d) : d[k] = ss[i][j]
  BY <1>1
<1>3. DOMAIN d = 1..Len(d)
  BY <1>1
<1>4. k \in DOMAIN Keys(d) /\ Keys(d)[k] = ss[i][j].key
  BY <1>2, <1>3 DEF Keys
<1> QED
  BY <1>4 DEF Range, d

\* The tokens of the entries at some positions of the page, s.
TokensAt(s) == FlattenSeq([i \in DOMAIN s |-> tokensOf(query.data[s[i]])])

LEMMA TokensAtHave ==
  ASSUME rows \in Tables, NEW n \in Nat, NEW s \in Seq(1..n), NEW i \in 1..Len(s), NEW k \in Key, rows[k] # 0,
         Owner[<<k, rows[k]>>] = Owner[<<query.data[s[i]].key, query.data[s[i]].version>>]
  PROVE  k \in Range(Keys(TokensAt(s)))
<1> DEFINE ss == [h \in DOMAIN s |-> tokensOf(query.data[s[h]])]
<1>1. DOMAIN s = 1..Len(s) /\ Len(s) \in Nat
  OBVIOUS
<1>2. \A h \in DOMAIN s : tokensOf(query.data[s[h]]) \in Seq(RowItem)
  BY TokensTyped
<1>3. ss \in Seq(Seq(RowItem)) /\ Len(ss) = Len(s) /\ ss[i] = tokensOf(query.data[s[i]])
  BY <1>1, <1>2
<1>4. \E j \in 1..Len(tokensOf(query.data[s[i]])) : tokensOf(query.data[s[i]])[j].key = k
  BY TokensHave
<1>5. TokensAt(s) = FlattenSeq(ss)
  BY DEF TokensAt
<1> HIDE DEF ss
<1>6. PICK j \in 1..Len(ss[i]) : ss[i][j].key = k
  BY <1>3, <1>4
<1>7. i \in 1..Len(ss)
  BY <1>3
<1> QED
  BY <1>3, <1>5, <1>6, <1>7, FlattenHas

\* What is wanted is on the page at the step, with its version.
LEMMA WantedAt ==
  ASSUME QueryInv, QuietInv, NEW step \in {"allOfChains", "allOfEntries"}, AtStep(step),
         query.quiet, Asked(query)
  PROVE  /\ rows = chain /\ query.request.endpoint \in TokenEndpoints
         /\ \A k \in Range(Page(WantedIn(chain, query.request), query.request.offset, query.request.limit)) :
              /\ k \in Key /\ rows[k] # 0
              /\ \E i \in 1..Len(query.data) : query.data[i].key = k /\ query.data[i].version = rows[k]
<1> DEFINE r == query.request
           p == [query EXCEPT !.steps = Tail(@)]
           page == Page(WantedIn(chain, r), r.offset, r.limit)
<1>1. QueryTyped(query) /\ chain \in Tables /\ RequestTyped(r)
  BY AtStepFacts
<1>2. SameQuery(query, p) /\ p.steps = Tail(query.steps)
  BY <1>1 DEF SameQuery, QueryTyped, QueryFields
<1> HIDE DEF p
<1>3. /\ StepsKnown(Steps(r), r) /\ Has(Steps(r), step) /\ Left(query, step) /\ rows = chain
      /\ QuietOK(query, chain, pool) /\ PendingOK(query, pool)
  BY <1>2, QuietAfter
<1>4. \/ r.endpoint = "tokens" /\ step = "allOfChains"
      \/ r.endpoint = "supportedTokens" /\ step = "allOfEntries"
  BY <1>3 DEF StepsKnown
<1>5. ~Left(query, "find") /\ ~Left(query, "list") /\ ~Left(query, "getBlock")
  BY <1>2, StepsLeftAt
<1>6. query.offset = r.offset /\ query.limit = r.limit
  BY <1>3, <1>4 DEF PendingOK
<1>7. FoundIn(query.data, chain, r, query.offset, query.limit)
  <2>1. PageOK(query, chain)
    BY <1>3 DEF QuietOK
  <2> QED
    BY <1>3, <1>4, <1>5, <2>1 DEF PageOK, TokenEndpoints, TransactionEndpoints
<1>8. query.data = Rows(chain, page)
  BY <1>6, <1>7 DEF FoundIn
<1>9. page \in Seq(Key) /\ \A i \in 1..Len(page) : page[i] \in matching(chain, r)
  <2>1. r.offset \in Nat /\ r.limit \in Nat /\ r.desc \in BOOLEAN
    BY <1>1 DEF RequestTyped
  <2>2. matching(chain, r) \in SUBSET Key
    BY MatchingKeys
  <2> DEFINE M == matching(chain, r)
  <2> HIDE DEF M
  <2>3. M \in SUBSET Key /\ page = Page(inOrder(M, r.desc), r.offset, r.limit)
    BY <2>2 DEF M, WantedIn
  <2> HIDE DEF page
  <2>4. page \in Seq(Key) /\ \A i \in 1..Len(page) : page[i] \in M
    BY <2>1, <2>3, PageOfKeys
  <2> QED
    BY <2>4 DEF M
<1> HIDE DEF page
<1>10. /\ Len(query.data) = Len(page)
       /\ \A i \in 1..Len(page) : query.data[i].key = page[i] /\ query.data[i].version = chain[page[i]]
  BY <1>1, <1>8, <1>9, RowsAre
<1>11. ASSUME NEW k \in Range(page)
       PROVE  /\ k \in Key /\ rows[k] # 0
              /\ \E i \in 1..Len(query.data) : query.data[i].key = k /\ query.data[i].version = rows[k]
  <2>1. PICK i \in 1..Len(page) : page[i] = k
    <3>1. DOMAIN page = 1..Len(page)
      BY <1>9
    <3> QED
      BY <3>1 DEF Range
  <2>2. k \in matching(chain, r)
    BY <1>9, <2>1
  <2>3. k \in Key /\ rows[k] # 0
    BY <1>3, <2>2 DEF matching, Fits
  <2> QED
    BY <1>3, <1>10, <2>1, <2>3
<1> QED
  BY <1>3, <1>4, <1>11 DEF page, TokenEndpoints

\* A step that reads tokens: the rest of the invariant does not depend on them.
LEMMA TokensStay ==
  ASSUME QueryInv, QuietInv, NEW step \in {"allOfChains", "allOfEntries"}, AtStep(step),
         UNCHANGED <<chain, rows, pool, pendingTransactionsList>>, NEW d,
         query' = [Advance(query) EXCEPT !.data = d],
         query.quiet /\ Asked(query) => HasWanted(d, chain, query.request)
  PROVE  QuietInv'
<1> DEFINE r == query.request
           p == query'
<1>1. SameQuery(query, p) /\ p.total = query.total /\ p.data = d
  BY ReadChanges
<1> HIDE DEF p
<1>2. ASSUME query.quiet, Asked(query) PROVE QuietOK(p, chain, pool)
  <2>1. /\ p.request = r /\ StepsKnown(Steps(r), r) /\ Has(Steps(r), step)
        /\ MergeOK(p, chain, pool) /\ TotalOK(p, chain)
        /\ r.endpoint # "blocks" => BlocksOK(p, chain)
        /\ r.endpoint \notin MetaEndpoints => AppsOK(p, chain)
        /\ \A x : Left(p, x) <=> Left(query, x) /\ x # step
    BY <1>1, <1>2, QuietAfter
  <2>2. \/ r.endpoint = "tokens" /\ step = "allOfChains"
        \/ r.endpoint = "supportedTokens" /\ step = "allOfEntries"
    BY <2>1 DEF StepsKnown
  <2>3. PageOK(p, chain)
    BY <2>1, <2>2 DEF PageOK
  <2>4. TokensOK(p, chain)
    BY <1>1, <1>2, <2>1 DEF TokensOK
  <2> QED
    BY <2>1, <2>2, <2>3, <2>4 DEF QuietOK, MetaEndpoints
<1> QED
  BY <1>2, ReadStaysQuiet DEF p

LEMMA EntriesStayQuiet ==
  ASSUME QueryInv, QuietInv, allOfEntries
  PROVE  QuietInv'
<1> DEFINE r == query.request
           n == Len(query.data)
           s == [i \in 1..n |-> i]
           d == TokensAt(s)
<1>1. AtStep("allOfEntries") /\ UNCHANGED <<chain, rows, pool, pendingTransactionsList>>
  BY DEF allOfEntries, QueryUnchanged
<1>2. rows \in Tables /\ query.data \in Seq(RowItem)
  BY <1>1, AtStepFacts
<1>3. /\ n \in Nat /\ DOMAIN query.data = 1..n /\ s \in Seq(1..n) /\ Len(s) = n /\ DOMAIN s = 1..n
      /\ \A i \in 1..n : s[i] = i
  BY <1>2
<1>4. query' = [Advance(query) EXCEPT !.data = d]
  <2>1. Advance(query).data = query.data
    BY <1>1, AtStepFacts, AdvanceIs DEF AtStep, QueryFields
  <2>2. query' = [Advance(query) EXCEPT !.data = FlattenSeq([i \in DOMAIN query.data |-> tokensOf(query.data[i])])]
    BY <2>1 DEF allOfEntries
  <2>3. [i \in DOMAIN query.data |-> tokensOf(query.data[i])] = [i \in DOMAIN s |-> tokensOf(query.data[s[i]])]
    BY <1>3
  <2> QED
    BY <2>2, <2>3 DEF TokensAt
<1> HIDE DEF s, n
<1>5. ASSUME query.quiet, Asked(query) PROVE HasWanted(d, chain, r)
  <2> SUFFICES ASSUME NEW k \in Range(Page(WantedIn(chain, r), r.offset, r.limit))
               PROVE  k \in Range(Keys(d))
    BY DEF HasWanted
  <2>1. k \in Key /\ rows[k] # 0
    BY <1>1, <1>5, WantedAt
  <2>2. PICK i \in 1..n : query.data[i].key = k /\ query.data[i].version = rows[k]
    BY <1>1, <1>5, WantedAt DEF n
  <2>3. i \in 1..Len(s) /\ s[i] = i
    BY <1>3
  <2> QED
    BY <1>2, <1>3, <2>1, <2>2, <2>3, TokensAtHave
<1> HIDE DEF d
<1> QED
  BY <1>1, <1>4, <1>5, TokensStay

LEMMA ChainsStayQuiet ==
  ASSUME QueryInv, QuietInv, allOfChains
  PROVE  QuietInv'
<1> DEFINE r == query.request
           n == Len(query.data)
           ownerOf(x) == Owner[<<x.key, x.version>>]
           S == {i \in DOMAIN query.data : \A y \in Range(query.data) :
                   ownerOf(y) = ownerOf(query.data[i]) => y.key <= query.data[i].key}
           s == inOrder(S, FALSE)
           d == TokensAt(s)
<1>1. AtStep("allOfChains") /\ UNCHANGED <<chain, rows, pool, pendingTransactionsList>>
  BY DEF allOfChains, QueryUnchanged
<1>2. rows \in Tables /\ query.data \in Seq(RowItem)
  BY <1>1, AtStepFacts
<1>3. n \in Nat /\ DOMAIN query.data = 1..n /\ S \in SUBSET (1..n)
  BY <1>2
<1>4. query' = [Advance(query) EXCEPT !.data = d]
  <2>1. Advance(query).data = query.data
    BY <1>1, AtStepFacts, AdvanceIs DEF AtStep, QueryFields
  <2> QED
    BY <2>1 DEF allOfChains, TokensAt
<1>5. \A i \in DOMAIN query.data : query.data[i].key \in Key
  BY <1>2, DataTyped
<1>6. \A i \in 1..n : \E l \in S : ownerOf(query.data[l]) = ownerOf(query.data[i])
  <2> TAKE i \in 1..n
  <2> DEFINE mine == {l \in 1..n : ownerOf(query.data[l]) = ownerOf(query.data[i])}
             K == {query.data[l].key : l \in mine}
  <2>1. K \in SUBSET Key /\ K # {}
    BY <1>3, <1>5
  <2>2. IsFiniteSet(K) /\ K \in SUBSET Int
    <3>1. \A k \in K : k \in Nat
      BY <2>1, KeyFinite
    <3>2. K \in SUBSET Int
      <4> HIDE DEF K
      <4> QED
        BY <3>1
    <3>3. IsFiniteSet(K)
      <4> HIDE DEF K
      <4> QED
        BY <2>1, KeyFinite, FS_Subset
    <3> QED
      BY <3>2, <3>3
  <2>3. Max(K) \in K /\ \A k \in K : k <= Max(K)
    <3> HIDE DEF K
    <3> QED
      BY <2>1, <2>2, MaxOfSet
  <2>4. PICK l \in mine : query.data[l].key = Max(K)
    BY <2>3
  <2>5. ASSUME NEW y \in Range(query.data), ownerOf(y) = ownerOf(query.data[l])
        PROVE  y.key <= query.data[l].key
    <3>1. PICK h \in DOMAIN query.data : query.data[h] = y
      BY DEF Range
    <3>2. h \in mine
      BY <1>3, <2>4, <2>5, <3>1
    <3>3. y.key \in K
      BY <3>1, <3>2
    <3> HIDE DEF K
    <3> QED
      BY <2>3, <2>4, <3>3
  <2>6. l \in S
    BY <1>3, <2>4, <2>5
  <2> QED
    BY <2>4, <2>6
<1> HIDE DEF S
<1>7. s \in Seq(S) /\ \A l \in S : \E i \in 1..Len(s) : s[i] = l
  BY <1>3, OrderedPositions
<1> HIDE DEF s
<1>8. s \in Seq(1..n)
  <2>1. Len(s) \in Nat /\ s \in [1..Len(s) -> S]
    BY <1>7
  <2>2. s \in [1..Len(s) -> 1..n]
    BY <1>3, <2>1
  <2> QED
    BY <2>1, <2>2
<1> HIDE DEF n
<1>9. ASSUME query.quiet, Asked(query) PROVE HasWanted(d, chain, r)
  <2> SUFFICES ASSUME NEW k \in Range(Page(WantedIn(chain, r), r.offset, r.limit))
               PROVE  k \in Range(Keys(d))
    BY DEF HasWanted
  <2>1. k \in Key /\ rows[k] # 0
    BY <1>1, <1>9, WantedAt
  <2>2. PICK i \in 1..n : query.data[i].key = k /\ query.data[i].version = rows[k]
    BY <1>1, <1>9, WantedAt DEF n
  <2>3. PICK l \in S : ownerOf(query.data[l]) = ownerOf(query.data[i])
    BY <1>6
  <2>4. PICK j \in 1..Len(s) : s[j] = l
    BY <1>7
  <2>5. Owner[<<k, rows[k]>>] = Owner[<<query.data[s[j]].key, query.data[s[j]].version>>]
    BY <2>2, <2>3, <2>4
  <2> QED
    BY <1>2, <1>3, <1>8, <2>1, <2>5, TokensAtHave
<1> HIDE DEF d
<1> QED
  BY <1>1, <1>4, <1>9, TokensStay
-----------------------------------------------------------------------------
(* The changes, and the invariant as a whole                                *)

\* The chain has no gaps: its height is that of its last block.
LEMMA HeightIs ==
  ASSUME NEW n \in 1..Cardinality(Key), \A k \in Key : chain[k] # 0 <=> k <= n
  PROVE  heightOf(chain) = n /\ n \in Key /\ n \in Nat
<1> DEFINE S == {k \in Key : chain[k] # 0}
           m == Max(S \cup {0})
<1>1. Key = 1..Cardinality(Key) /\ Cardinality(Key) \in Nat
  BY QueriesAssumption, KeyFinite, FS_CardinalityType
<1>2. n \in Key /\ n \in Nat /\ n >= 1 /\ n <= n
  BY <1>1
<1>3. n \in S /\ \A k \in S : k <= n /\ k \in Nat
  BY <1>1, <1>2
<1>4. S \in SUBSET Key
  OBVIOUS
<1>5. heightOf(chain) = m
  BY DEF heightOf
<1> HIDE DEF S
<1>6. m \in S \cup {0} /\ \A k \in S : k <= m
  BY <1>4, HighestKey
<1> HIDE DEF m
<1>7. m \in Nat /\ m <= n /\ n <= m
  BY <1>2, <1>3, <1>6
<1>8. m = n
  BY <1>2, <1>7
<1> QED
  BY <1>2, <1>5, <1>8

LEMMA ChainStaysWhole ==
  ASSUME QueryInv, ChainOK, (\E v \in Version : NodeAdds(v)) \/ NodeRemoves \/ UNCHANGED chain
  PROVE  ChainOK'
<1>0. chain \in [Key -> Versions]
  BY DEF QueryInv, TablesTyped, Tables
<1>1. PICK n \in 1..Cardinality(Key) : \A k \in Key : chain[k] # 0 <=> k <= n
  BY DEF ChainOK
<1>2. heightOf(chain) = n /\ n \in Key /\ n \in Nat
  BY <1>1, HeightIs
<1>3. Key = 1..Cardinality(Key) /\ Cardinality(Key) \in Nat
  BY QueriesAssumption, KeyFinite, FS_CardinalityType
<1>4. ASSUME NEW v \in Version, NodeAdds(v) PROVE ChainOK'
  <2>1. n + 1 \in Key /\ chain' = [chain EXCEPT ![n + 1] = v]
    BY <1>2, <1>4 DEF NodeAdds
  <2>2. v # 0
    BY QueriesAssumption
  <2>3. n + 1 \in 1..Cardinality(Key)
    BY <1>3, <2>1
  <2>4. \A k \in Key : chain'[k] # 0 <=> k <= n + 1
    <3> TAKE k \in Key
    <3>1. k \in Nat
      BY <1>3
    <3>2. CASE k = n + 1
      BY <1>0, <1>2, <2>1, <2>2, <3>2
    <3>3. CASE k # n + 1
      <4>1. chain'[k] = chain[k] /\ (k <= n + 1 <=> k <= n)
        BY <1>0, <1>2, <2>1, <3>1, <3>3
      <4> QED
        BY <1>1, <4>1
    <3> QED
      BY <3>2, <3>3
  <2>5. ChainOK'
    BY <2>3, <2>4 DEF ChainOK
  <2> QED
    BY <2>5
<1>5. CASE NodeRemoves
  <2>1. n > 1 /\ chain' = [chain EXCEPT ![n] = 0]
    BY <1>2, <1>5 DEF NodeRemoves
  <2>2. n - 1 \in 1..Cardinality(Key)
    BY <1>1, <1>2, <1>3, <2>1
  <2>3. \A k \in Key : chain'[k] # 0 <=> k <= n - 1
    <3> TAKE k \in Key
    <3>1. k \in Nat
      BY <1>3
    <3>2. CASE k = n
      BY <1>0, <1>2, <2>1, <3>2
    <3>3. CASE k # n
      <4>1. chain'[k] = chain[k] /\ (k <= n - 1 <=> k <= n)
        BY <1>0, <1>2, <2>1, <3>1, <3>3
      <4> QED
        BY <1>1, <4>1
    <3> QED
      BY <3>2, <3>3
  <2> QED
    BY <2>2, <2>3 DEF ChainOK
<1>6. CASE UNCHANGED chain
  BY <1>6 DEF ChainOK
<1> QED
  BY <1>4, <1>5, <1>6

\* A change ends the quiet.
LEMMA ChangesStayQuiet ==
  ASSUME QueryInv, QuietInv,
         \/ \E v \in Version : NodeAdds(v)
         \/ NodeRemoves
         \/ \E k \in Key : NodeReceives(k) \/ newBlockProcessor(k) \/ deleteBlockProcessor(k)
         \/ loadAllPendingTransactions
  PROVE  QuietInv'
<1>1. Disturb
  BY DEF NodeAdds, NodeRemoves, NodeReceives, newBlockProcessor, deleteBlockProcessor,
         loadAllPendingTransactions
<1>2. ~query'.quiet
  <2>1. DOMAIN query = QueryFields
    BY DEF QueryInv, QueryTyped
  <2> QED
    BY <1>1, <2>1 DEF Disturb, QueryFields
<1>3. (\E v \in Version : NodeAdds(v)) \/ NodeRemoves \/ UNCHANGED chain
  BY DEF NodeReceives, newBlockProcessor, deleteBlockProcessor, loadAllPendingTransactions
<1>4. ChainOK'
  BY <1>3, ChainStaysWhole DEF QuietInv
<1> QED
  BY <1>2, <1>4 DEF QuietInv

LEMMA InitIsQuiet == QueryInit => QuietInv
<1> SUFFICES ASSUME QueryInit PROVE QuietInv
  OBVIOUS
<1>1. PICK n \in 1..Cardinality(Key) : chain = [k \in Key |-> IF k <= n THEN 1 ELSE 0]
  BY DEF QueryInit
<1>2. ChainOK
  BY <1>1 DEF ChainOK
<1>3. ~query.quiet
  BY DEF QueryInit, NewQuery
<1> QED
  BY <1>2, <1>3 DEF QuietInv

LEMMA QuietUnchanged == QuietInv /\ UNCHANGED queryVars => QuietInv'
<1> SUFFICES ASSUME QuietInv, UNCHANGED queryVars PROVE QuietInv'
  OBVIOUS
<1>1. /\ query' = query /\ chain' = chain /\ rows' = rows /\ pool' = pool
      /\ pendingTransactionsList' = pendingTransactionsList
  BY DEF queryVars
<1>2. ChainOK'
  BY <1>1 DEF QuietInv, ChainOK
<1>3. PendingOK(query, pool) => (PendingOK(query, pool))'
  <2>1. PendingOK(query, pool) => PendingOK(query', pool')
    BY <1>1
  <2> QED
    BY <2>1
<1>4. QuietOK(query, chain, pool) => (QuietOK(query, chain, pool))'
  <2>1. QuietOK(query, chain, pool) => QuietOK(query', chain', pool')
    BY <1>1
  <2> QED
    BY <2>1
<1>5. GivenOK(query, chain) => (GivenOK(query, chain))'
  <2>1. GivenOK(query, chain) => GivenOK(query', chain')
    BY <1>1
  <2> QED
    BY <2>1
<1> QED
  BY <1>1, <1>2, <1>3, <1>4, <1>5 DEF QuietInv

LEMMA NextStaysQuiet == QueryInv /\ QuietInv /\ QueryNext => QuietInv'
<1> SUFFICES ASSUME QueryInv, QuietInv, QueryNext PROVE QuietInv'
  OBVIOUS
<1>1. CASE \E r \in QueryRequests : Ask(r)
  BY <1>1, AskStaysQuiet
<1>2. CASE QueryStep
  <2>1. CASE identify
    BY <2>1, IdentifyStaysQuiet
  <2>2. CASE countRows
    BY <2>2, CountStaysQuiet
  <2>3. CASE findRows
    BY <2>3, FindStaysQuiet
  <2>4. CASE findDetails \/ getEventsByHeight
    BY <2>4, LookUpStaysQuiet
  <2>5. CASE \/ findOwned \/ findAudios \/ findMember \/ findSubscription \/ listFlagged
             \/ listFirst \/ listPeers \/ listGenerators \/ listAll
    BY <2>5, OutsideStaysQuiet
  <2>6. CASE countPage
    BY <2>6, CountPageStaysQuiet
  <2>7. CASE getBlocksByIDs
    BY <2>7, BlocksByIDsStaysQuiet
  <2>8. CASE getBlock
    BY <2>8, BlockStaysQuiet
  <2>9. CASE setLastBlock
    BY <2>9, LastBlockStaysQuiet
  <2>10. CASE getTransactionsByIDs
    BY <2>10, TransactionsStayQuiet
  <2>11. CASE getBlockByIDs
    BY <2>11, BlockByIDsStaysQuiet
  <2>12. CASE list
    BY <2>12, ListStaysQuiet
  <2>13. CASE findDefaults \/ findOthers \/ slice
    BY <2>13, DefaultsStayQuiet, OthersStayQuiet, SliceStaysQuiet
  <2>14. CASE allOfChains \/ allOfEntries
    BY <2>14, ChainsStayQuiet, EntriesStayQuiet
  <2>15. CASE getPending \/ merge
    BY <2>15, PendingStaysQuiet, MergeStaysQuiet
  <2>16. CASE findBlock
    BY <2>16, FindBlockStaysQuiet
  <2> QED
    BY <1>2, <2>1, <2>2, <2>3, <2>4, <2>5, <2>6, <2>7, <2>8, <2>9, <2>10, <2>11, <2>12, <2>13,
       <2>14, <2>15, <2>16 DEF QueryStep
<1> QED
  BY <1>1, <1>2, ChangesStayQuiet DEF QueryNext

LEMMA QuietInvExact == QueryInv /\ QuietInv => QuietAnswersExact
<1> DEFINE r == query.request
           e == r.endpoint
<1> SUFFICES ASSUME QueryInv, QuietInv PROVE QuietAnswersExact
  OBVIOUS
<1>1. chain \in Tables /\ QueryTyped(query) /\ RequestTyped(r)
  BY DEF QueryInv, QueryTyped, TablesTyped
<1>2. r.offset \in Nat /\ r.limit \in Nat /\ r.desc \in BOOLEAN
  BY <1>1 DEF RequestTyped
<1>3. e # "events" => Wanted = WantedIn(chain, r) /\ (UnfitByID <=> UnfitIn(chain, r))
  BY DEF Wanted, Sought, WantedIn, UnfitByID, UnfitIn
<1>9. /\ query.status = "answered" /\ query.quiet
      /\ e = "events" /\ ~(query.given.owner # None /\ query.given.party # None)
      => Wanted = WantedIn(chain, r)
  BY DEF QuietInv, GivenOK, Wanted, Sought, WantedIn
<1>4. Len(WantedIn(chain, r)) = Cardinality(matching(chain, r)) /\ WantedIn(chain, r) \in Seq(Key)
  <2>1. matching(chain, r) \in SUBSET Key
    BY MatchingKeys
  <2> QED
    BY <1>2, <2>1, OrderedKeys DEF WantedIn
<1>5. ASSUME query.status = "answered", query.quiet, Asked(query)
      PROVE  /\ QuietOK(query, chain, pool) /\ PendingOK(query, pool)
             /\ \A x : ~Left(query, x)
  BY <1>5 DEF QuietInv, QueryInv, Asked, Left
<1>6. QuietPagesExact
  <2> SUFFICES ASSUME query.status = "answered", e \in Pages, query.quiet, Asked(query),
                      ~(e = "transactions" /\ UnfitByID),
                      ~(e = "events" /\ query.given.owner # None /\ query.given.party # None)
               PROVE  /\ Keys(query.data) = Page(Wanted, r.offset, r.limit)
                      /\ \A x \in Range(query.data) : x.version = chain[x.key] /\ x.info = x.version
                      /\ \/ query.total = Len(Wanted)
                         \/ query.total = NoTotal /\ query.data = << >>
                         \/ e = "audios"
                         \/ e = "blocks" /\ (r.id # NoID \/ r.height # 0) /\ query.data = << >>
                         \/ e = "blocks" /\ r.owner = None /\ r.to = 0 /\ ~isLatestBlockFetch(r)
    BY DEF QuietPagesExact, Answered, Pages, Asked
  <2>0. Wanted = WantedIn(chain, r) /\ (e = "transactions" => ~UnfitIn(chain, r))
    BY <1>3, <1>9
  <2>1. /\ QuietOK(query, chain, pool) /\ PendingOK(query, pool)
        /\ \A x : ~Left(query, x)
    BY <1>5
  <2>2. e \notin TokenEndpoints \cup {"pendingAndOther"} /\ (e \in TransactionEndpoints => e = "transactions")
    BY DEF Pages, TokenEndpoints, TransactionEndpoints
  <2>3. query.offset = r.offset /\ query.limit = r.limit
    BY <2>1, <2>2 DEF PendingOK
  <2>4. FoundIn(query.data, chain, r, query.offset, query.limit)
    <3>1. PageOK(query, chain)
      BY <2>1 DEF QuietOK
    <3> QED
      BY <2>0, <2>1, <2>2, <3>1 DEF PageOK, TokenEndpoints
  <2> DEFINE page == Page(Wanted, r.offset, r.limit)
  <2>5. query.data = Rows(chain, page)
    BY <2>0, <2>3, <2>4 DEF FoundIn
  <2>6. page \in Seq(Key)
    BY <1>2, <1>4, <2>0, PageIs
  <2> HIDE DEF page
  <2>7. Keys(query.data) = page
    BY <1>1, <2>5, <2>6, KeysOfRows
  <2>8. ASSUME NEW x \in Range(query.data) PROVE x.version = chain[x.key] /\ x.info = x.version
    <3>1. /\ query.data \in Seq(RowItem) /\ Len(query.data) = Len(page)
          /\ \A i \in 1..Len(page) : /\ query.data[i].key = page[i]
                                     /\ query.data[i].version = chain[page[i]]
                                     /\ query.data[i].info = chain[page[i]]
      BY <1>1, <2>5, <2>6, RowsAre
    <3>2. PICK i \in 1..Len(page) : x = query.data[i]
      BY <3>1 DEF Range
    <3> QED
      BY <3>1, <3>2
  <2>9. CASE e = "blocks"
    <3>1. BlocksOK(query, chain)
      BY <2>1 DEF QuietOK
    <3>2. BlocksTotal(query.data, query.total, chain, r)
      BY <2>1, <2>9, <3>1 DEF BlocksOK
    <3> QED
      BY <2>0, <2>7, <2>8, <2>9, <3>2 DEF BlocksTotal, page
  <2>10. CASE e # "blocks" /\ e # "audios"
    <3>1. e \in Counting \cup Listed /\ e # "supportedTokens"
      BY <2>10 DEF Counting, Listed, Pages
    <3>2. TotalOK(query, chain)
      BY <2>1 DEF QuietOK
    <3>3. query.total = Cardinality(matching(chain, r))
      BY <2>1, <2>2, <3>1, <3>2 DEF TotalOK
    <3> QED
      BY <1>4, <2>0, <2>7, <2>8, <3>3 DEF page
  <2> QED
    BY <2>7, <2>8, <2>9, <2>10 DEF page
<1>7. QuietMergeExact
  <2> SUFFICES ASSUME query.status = "answered", e = "pendingAndOther", query.quiet, ~UnfitByID
               PROVE  MergedIs(query.data, query.total, chain, pool, r)
    <3>1. pendingOf(pool, r) = IF r.party = None THEN PendingWanted(r)
                               ELSE PendingWanted(r) \cap WithItself(r)
      <4>1. pool \subseteq Key
        BY DEF QueryInv, TablesTyped
      <4> QED
        BY <4>1 DEF pendingOf, PendingWanted, WithItself
    <3>2. e = "pendingAndOther" => AllWanted(r) = PendingIn(pool, r) \o WantedIn(chain, r)
      BY <1>3, <3>1 DEF AllWanted, PendingIn
    <3> QED
      BY <3>2 DEF QuietMergeExact, Answered, MergedIs
  <2>1. Asked(query)
    BY DEF Asked, Identified
  <2>2. QuietOK(query, chain, pool) /\ \A x : ~Left(query, x)
    BY <1>5, <2>1
  <2>3. MergeOK(query, chain, pool)
    BY <2>2 DEF QuietOK
  <2> QED
    BY <1>3, <2>2, <2>3 DEF MergeOK
<1>8. QuietMetadataComplete
  <2> SUFFICES ASSUME query.status = "answered", query.quiet,
                      e \in {"metaList", "metadata", "tokens", "supportedTokens"},
                      ~(e = "supportedTokens" /\ r.flagged)
               PROVE  LET all == DefaultsIn(chain, r) \o OthersIn(chain, r)
                      IN  /\ query.total = Len(Wanted)
                          /\ e = "metaList" /\ r.offset = 0 /\ Len(DefaultsIn(chain, r)) < r.limit =>
                               Keys(query.data) = Page(all, 0, r.limit)
                          /\ e = "metadata" /\ r.offset = 0 =>
                               Range(Page(all, 0, r.limit)) \subseteq Range(Keys(query.data))
                          /\ e \in {"tokens", "supportedTokens"} =>
                               Range(Page(Wanted, r.offset, r.limit)) \subseteq Range(Keys(query.data))
    BY DEF QuietMetadataComplete, Answered, DefaultsIn, OthersIn
  <2>1. Asked(query)
    BY DEF Asked, Identified
  <2>2. QuietOK(query, chain, pool) /\ \A x : ~Left(query, x)
    BY <1>5, <2>1
  <2>3. TotalOK(query, chain) /\ AppsOK(query, chain) /\ TokensOK(query, chain)
    BY <2>2 DEF QuietOK
  <2>4. query.total = Len(Wanted)
    <3>1. e \in Counting \cup Listed /\ e # "pendingAndOther"
      BY DEF Counting
    <3> QED
      BY <1>3, <1>4, <2>2, <2>3, <3>1 DEF TotalOK
  <2>5. e \in {"metaList", "metadata"} /\ r.offset = 0 =>
          LET all == DefaultsIn(chain, r) \o OthersIn(chain, r)
          IN  IF e = "metadata" THEN Range(Page(all, 0, r.limit)) \subseteq Range(Keys(query.data))
              ELSE Len(DefaultsIn(chain, r)) < r.limit => Keys(query.data) = Page(all, 0, r.limit)
    BY <2>2, <2>3 DEF AppsOK, MetaEndpoints
  <2>6. e \in {"tokens", "supportedTokens"} => HasWanted(query.data, chain, r)
    BY <2>2, <2>3 DEF TokensOK
  <2> QED
    BY <1>3, <2>4, <2>5, <2>6 DEF HasWanted
<1> QED
  BY <1>6, <1>7, <1>8 DEF QuietAnswersExact

\* While nothing changes, every answer of the data service and of the App Registry
\* is the page asked for, with the right total, for any chain, any requests and any
\* number of them; what is known to be different is left out of the property.
THEOREM QuietAnswersAlwaysExact == Spec => []QuietAnswersExact
<1> DEFINE Inv == QueryInv /\ QuietInv
<1>1. Init => Inv
  BY InitQueryInv, InitIsQuiet DEF Init
<1>2. Inv /\ [Next]_vars => Inv'
  BY NextKeepsQueryInv, QueryInvUnchanged, NextStaysQuiet, QuietUnchanged
     DEF Next, vars, GatewayStep, QueriesStep
<1>3. Inv => QuietAnswersExact
  BY QuietInvExact
<1> QED
  BY <1>1, <1>2, <1>3, PTL DEF Spec
=============================================================================
