-------------------------- MODULE IndexCoordinator --------------------------
(***************************************************************************)
(* The blockchain-coordinator (shared/scheduler.js, shared/eventsScheduler *)
(* .js, jobs/) and the part of the indexer it talks to: the coordinator    *)
(* forwards the block events, looks for gaps when it starts, and every 15  *)
(* minutes looks for gaps above the "verified" height kept by the indexer. *)
(* Each of its steps ends at an awaited call to the indexer, so the chain  *)
(* and the index move in between.                                          *)
(*                                                                         *)
(* The index is the set of heights that have a row.  A block is indexed by *)
(* a job of the indexer (module BlockIndexer); here a job is just a height *)
(* that will get a row, unless it runs out of attempts.                    *)
(***************************************************************************)
EXTENDS MissingBlocks

CONSTANTS
  GenesisHeight,
  MaxHeight,      \* bound: the highest block of a behaviour
  MaxDrops,       \* bound: blocks the node drops
  MaxFaults       \* bound: index jobs that run out of attempts, and restarts

ASSUME HeightAssumption ==
  /\ GenesisHeight \in Nat \ {0}
  /\ MaxHeight \in Nat
  /\ GenesisHeight <= MaxHeight
  /\ MaxDrops \in Nat
  /\ MaxFaults \in Nat

VARIABLES
  currentHeight,   \* node: getNetworkStatus().height
  indexed,         \* MySQL: the heights in the blocks table
  verifiedHeight,  \* MySQL: key_value_store, indexVerifiedHeight (0: undefined)
  jobs,            \* redis: heights with an indexing job, waiting or active
  pc,              \* coordinator: where its scheduler is
  lower, upper,    \* coordinator: the range being checked
  found,           \* coordinator: missingBlocksByHeight
  listening,       \* coordinator: event listeners registered
  drops, faults

vars == <<currentHeight, indexed, verifiedHeight, jobs, pc, lower, upper, found,
          listening, drops, faults>>
bounds == <<drops, faults>>
local == <<pc, lower, upper, found>>

Heights == GenesisHeight .. MaxHeight
Steps == {"boot", "bootMissing", "bootSchedule", "idle", "verified", "missing", "finish"}

TypeOK ==
  /\ currentHeight \in Heights
  /\ indexed \subseteq Heights
  /\ verifiedHeight \in Heights \cup {0}
  /\ jobs \subseteq Heights
  /\ pc \in Steps
  /\ lower \in Heights
  /\ upper \in Heights
  /\ found \subseteq Heights
  /\ listening \in BOOLEAN
  /\ drops \in 0..MaxDrops
  /\ faults \in 0..MaxFaults

Init ==
  /\ currentHeight = GenesisHeight
  /\ indexed = {}
  /\ verifiedHeight = 0
  /\ jobs = {}
  /\ pc = "boot"
  /\ lower = GenesisHeight
  /\ upper = GenesisHeight
  /\ found = {}
  /\ listening = FALSE
  /\ drops = 0
  /\ faults = 0
-----------------------------------------------------------------------------
(***************************************************************************)
(* The node (external), and the forwarding of its events.  A block that    *)
(* arrives while no listener is registered is not forwarded.  A dropped    *)
(* block keeps its row (see BlockIndexer) and its height is reused.        *)
(***************************************************************************)
NewBlock ==
  /\ currentHeight < MaxHeight
  /\ currentHeight' = currentHeight + 1
  /\ jobs' = IF listening THEN jobs \cup {currentHeight + 1} ELSE jobs
  /\ UNCHANGED <<indexed, verifiedHeight, local, listening, bounds>>

DropBlock ==
  /\ drops < MaxDrops
  /\ currentHeight > GenesisHeight
  /\ currentHeight' = currentHeight - 1
  /\ drops' = drops + 1
  /\ UNCHANGED <<indexed, verifiedHeight, jobs, local, listening, faults>>

\* The indexer runs an indexing job: the height gets its row.
IndexBlock(h) ==
  /\ h \in jobs
  /\ jobs' = jobs \ {h}
  /\ indexed' = indexed \cup {h}
  /\ UNCHANGED <<currentHeight, verifiedHeight, local, listening, bounds>>

\* An indexing job runs out of attempts, as it may when the node no longer
\* has a block at its height.
LoseJob(h) ==
  /\ h \in jobs
  /\ \/ h > currentHeight /\ UNCHANGED faults
     \/ faults < MaxFaults /\ faults' = faults + 1
  /\ jobs' = jobs \ {h}
  /\ UNCHANGED <<currentHeight, indexed, verifiedHeight, local, listening, drops>>
-----------------------------------------------------------------------------
(***************************************************************************)
(* init: initIndexingScheduler, and only then initEventsScheduler.         *)
(***************************************************************************)
\* The function that was running is over, and its local variables with it.
Ends(next) ==
  /\ pc' = next
  /\ lower' = GenesisHeight
  /\ upper' = GenesisHeight
  /\ found' = {}

\* One indexing job for every height.
scheduleBlocksIndexing(heights) == jobs' = jobs \cup heights

\* Mutant of BootHeights: one height too many.
BootHeightsTooHigh ==
  /\ pc = "boot"
  /\ lower' = GenesisHeight
  /\ upper' = currentHeight + 1
  /\ pc' = "bootMissing"
  /\ UNCHANGED <<currentHeight, indexed, verifiedHeight, jobs, found, listening, bounds>>

\* genesisHeight and currentHeight, each asked of the connector.
BootHeights ==
  /\ pc = "boot"
  /\ lower' = GenesisHeight
  /\ upper' = currentHeight
  /\ pc' = "bootMissing"
  /\ UNCHANGED <<currentHeight, indexed, verifiedHeight, jobs, found, listening, bounds>>

BootMissing ==
  /\ pc = "bootMissing"
  /\ found' = GetMissingBlocks(indexed, lower, upper)
  /\ pc' = "bootSchedule"
  /\ UNCHANGED <<currentHeight, indexed, verifiedHeight, jobs, lower, upper,
                 listening, bounds>>

BootSchedule ==
  /\ pc = "bootSchedule"
  /\ scheduleBlocksIndexing(found)
  /\ listening' = TRUE
  /\ Ends("idle")
  /\ UNCHANGED <<currentHeight, indexed, verifiedHeight, bounds>>

\* The process ends and is started again.
Restart ==
  /\ faults < MaxFaults
  /\ faults' = faults + 1
  /\ listening' = FALSE
  /\ Ends("boot")
  /\ UNCHANGED <<currentHeight, indexed, verifiedHeight, jobs, drops>>
-----------------------------------------------------------------------------
(***************************************************************************)
(* scheduleMissingBlocksIndexing, every 15 minutes.                        *)
(***************************************************************************)
CheckHeights ==
  /\ pc = "idle"
  /\ upper' = currentHeight
  /\ pc' = "verified"
  /\ UNCHANGED <<currentHeight, indexed, verifiedHeight, jobs, lower, found,
                 listening, bounds>>

\* getIndexVerifiedHeight() || genesisHeight
CheckVerified ==
  /\ pc = "verified"
  /\ lower' = IF verifiedHeight = 0 THEN GenesisHeight ELSE verifiedHeight
  /\ pc' = "missing"
  /\ UNCHANGED <<currentHeight, indexed, verifiedHeight, jobs, upper, found,
                 listening, bounds>>

\* getMissingblocks; when the request fails the check is over.
CheckMissing ==
  /\ pc = "missing"
  /\ \/ /\ RangeThrows(lower, upper)
        /\ Ends("idle")
     \/ /\ ~RangeThrows(lower, upper)
        /\ found' = GetMissingBlocks(indexed, lower, upper)
        /\ pc' = "finish"
        /\ UNCHANGED <<lower, upper>>
  /\ UNCHANGED <<currentHeight, indexed, verifiedHeight, jobs, listening, bounds>>

\* Mutant of SetVerified: the lower end of the range is recorded.
SetVerifiedLower ==
  /\ pc = "finish"
  /\ found = {}
  /\ verifiedHeight' = lower
  /\ Ends("idle")
  /\ UNCHANGED <<currentHeight, indexed, jobs, listening, bounds>>

\* No block is missing: the top of the range is recorded as verified.
SetVerified ==
  /\ pc = "finish"
  /\ found = {}
  /\ verifiedHeight' = upper
  /\ Ends("idle")
  /\ UNCHANGED <<currentHeight, indexed, jobs, listening, bounds>>

\* Mutant of ScheduleMissing: what was scheduled counts as verified.
ScheduleAndVerify ==
  /\ pc = "finish"
  /\ found # {}
  /\ scheduleBlocksIndexing(found)
  /\ verifiedHeight' = upper
  /\ Ends("idle")
  /\ UNCHANGED <<currentHeight, indexed, listening, bounds>>

\* Otherwise an indexing job is added for every height reported.
ScheduleMissing ==
  /\ pc = "finish"
  /\ found # {}
  /\ scheduleBlocksIndexing(found)
  /\ Ends("idle")
  /\ UNCHANGED <<currentHeight, indexed, verifiedHeight, listening, bounds>>
-----------------------------------------------------------------------------
Boot == BootHeights \/ BootMissing \/ BootSchedule
Check == CheckHeights \/ CheckVerified \/ CheckMissing \/ SetVerified \/ ScheduleMissing

Next ==
  \/ NewBlock \/ DropBlock
  \/ \E h \in Heights : IndexBlock(h) \/ LoseJob(h)
  \/ Boot \/ Restart
  \/ Check

Spec == Init /\ [][Next]_vars

\* The cron job fires every 15 minutes and its requests are answered; bull
\* runs every waiting job.  The node and the failures are under no obligation.
Fairness ==
  /\ WF_vars(Boot)
  /\ WF_vars(Check)
  /\ \A h \in Heights : WF_vars(IndexBlock(h))

FairSpec == Spec /\ Fairness
-----------------------------------------------------------------------------
\* When the chain got shorter than the verified height, the next successful
\* check takes the verified height back by one block, never by more: the
\* request for a range that counts down fails instead.
VerifiedBacksOffByOne ==
  [][verifiedHeight' >= verifiedHeight - 1]_vars

\* A gap at or above the verified height that lies below a row under the tip,
\* seen between two checks, is repaired although blocks keep arriving, a job fails
\* or the coordinator is restarted, once the chain has stopped shrinking.
InteriorGapIsRepaired ==
  \A h \in GenesisHeight .. (MaxHeight - 2) :
    (/\ pc = "idle"
     /\ drops = MaxDrops
     /\ verifiedHeight <= h
     /\ h \in InteriorMissing(indexed, GenesisHeight, currentHeight)) ~> (h \in indexed)

\* The checks do not run for ever over the same blocks: the verified height
\* ends up within one block of the tip, once there are enough blocks, also
\* when it was recorded before the chain got shorter.
VerificationCatchesUp ==
  <>[](verifiedHeight >= currentHeight - 1 \/ currentHeight < GenesisHeight + 2)

\* README.md: the coordinator "is primarily responsible for ensuring the
\* completeness of the index": every block of the chain ends up indexed.
IndexBecomesComplete ==
  <>[](\A h \in GenesisHeight .. currentHeight : h \in indexed)
=============================================================================
