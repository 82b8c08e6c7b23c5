----------------------------- MODULE MCIndexer -----------------------------
(***************************************************************************)
(* Parts of the indexer that share no state: the search for gaps, the list *)
(* of validators, and what makes the platform ready.  Each behaviour is    *)
(* one of one part; the others are at their start.                         *)
(***************************************************************************)
EXTENDS MCMissingBlocks, ValidatorCache, Readiness

CONSTANT Parts      \* to check
VARIABLE focus      \* the part

\* Blocks that register a validator, that stake on it twice, and that stake on
\* another one and report it.
MCPosTransactions ==
  [b \in PosBlock |->
     CASE b = "registers" -> <<[command |-> "registerValidator", of |-> <<3>>]>>
       [] b = "stakes" -> <<[command |-> "stake", of |-> <<3, 3>>]>>
       [] b = "reports" -> <<[command |-> "stake", of |-> <<1>>],
                             [command |-> "reportMisbehavior", of |-> <<1>>]>>]

indexerVars == <<focus, vars, validatorVars, readinessVars>>

IndexerInit ==
  /\ focus \in Parts
  /\ Init
  /\ focus # "gaps" => indexed = {} /\ from = 1 /\ to = 1
  /\ ValidatorInit
  /\ ReadinessInit

GapStep(A) == focus = "gaps" /\ A /\ UNCHANGED <<focus, validatorVars, readinessVars>>
ValidatorStep(A) == focus = "validators" /\ A /\ UNCHANGED <<focus, vars, readinessVars>>
ReadinessStep(A) == focus = "readiness" /\ A /\ UNCHANGED <<focus, vars, validatorVars>>

IndexerNext ==
  \/ GapStep(Next)
  \/ ValidatorStep(ValidatorNext)
  \/ ReadinessStep(ReadinessNext)

IndexerSpec == IndexerInit /\ [][IndexerNext]_indexerVars
-----------------------------------------------------------------------------
\* Requests are answered, the queue is processed and the job runs every five
\* minutes.
ValidatorFairness ==
  /\ WF_indexerVars(ValidatorStep(reloadJob \/ TaskStep("job")))
  /\ WF_indexerVars(ValidatorStep(initEventsProcess))
  /\ WF_indexerVars(ValidatorStep(\E t \in Task \ {"job"} : TaskStep(t)))

\* Requests are answered, the gateway polls every minute, blocks keep coming,
\* and blocks below the last one get indexed.
ReadinessFairness ==
  /\ WF_indexerVars(ReadinessStep(ChainGrows \/ ChainForks))
  /\ \A h \in 1..MaxChainHeight - 1 :
       WF_indexerVars(ReadinessStep(\E b \in {h} \X Branch : RowChanges(b)))
  /\ WF_indexerVars(ReadinessStep(OtherBecomesReady))
  /\ WF_indexerVars(ReadinessStep(\E c \in Check : CheckStep(c)))
  /\ WF_indexerVars(ReadinessStep(StatusStep))

\* Validators: the list recovers from overlapping updates and failed requests.
ValidatorsRecover == ValidatorFairness /\ focus = "validators" => ListRecovers

\* Readiness: the gateway comes to answer that the platform is ready.
PlatformBecomesReady == ReadinessFairness /\ focus = "readiness" => BecomesReady
=============================================================================
