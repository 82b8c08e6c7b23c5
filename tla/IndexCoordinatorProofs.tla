----------------------- MODULE IndexCoordinatorProofs -----------------------
(***************************************************************************)
(* The coordinator's state stays well-formed, and a check never takes the  *)
(* verified height back by more than one block, for every chain length and *)
(* every number of dropped blocks, lost jobs and restarts.                 *)
(***************************************************************************)
EXTENDS IndexCoordinator, OperatorProofs, TLAPS

\* What a range being checked has to do with the verified height: the lower end
\* was read from it and nobody else writes it, and a range that got as far as
\* `finish' does not count down by more than one.
RangeFromVerified ==
  /\ pc \in {"missing", "finish"} =>
       lower = IF verifiedHeight = 0 THEN GenesisHeight ELSE verifiedHeight
  /\ pc = "finish" => upper + 1 >= lower

CoordinatorInv == TypeOK /\ RangeFromVerified

\* Heights are naturals.
LEMMA HeightsAreNat ==
  /\ GenesisHeight \in Heights
  /\ \A h \in Heights : h \in Nat /\ GenesisHeight <= h /\ h <= MaxHeight
BY HeightAssumption DEF Heights

\* What the search for gaps reports to the coordinator are heights of the chain.
LEMMA FoundAreHeights ==
  ASSUME TypeOK
  PROVE  GetMissingBlocks(indexed, lower, upper) \subseteq Heights
<1>1. GenesisHeight \in Nat /\ MaxHeight \in Nat
  BY HeightAssumption
<1>2. /\ indexed \in SUBSET (GenesisHeight..MaxHeight)
      /\ lower \in GenesisHeight..MaxHeight
      /\ upper \in Nat /\ upper <= MaxHeight
  BY HeightsAreNat DEF TypeOK, Heights
<1> QED
  BY <1>1, <1>2, SearchStaysWithin DEF Heights

\* Every step keeps the invariant.
LEMMA CoordinatorStep ==
  ASSUME CoordinatorInv, [Next]_vars
  PROVE  CoordinatorInv'
<1> USE HeightsAreNat DEF CoordinatorInv, TypeOK, RangeFromVerified, Steps
<1>1. CASE NewBlock
  <2>1. currentHeight + 1 \in Heights
    BY <1>1, HeightAssumption DEF NewBlock, Heights
  <2> QED
    BY <1>1, <2>1 DEF NewBlock, local, bounds
<1>2. CASE DropBlock
  <2>1. currentHeight - 1 \in Heights
    BY <1>2, HeightAssumption DEF DropBlock, Heights
  <2> QED
    BY <1>2, <2>1, HeightAssumption DEF DropBlock, local, bounds
<1>3. ASSUME NEW h \in Heights, IndexBlock(h)
      PROVE  CoordinatorInv'
  BY <1>3 DEF IndexBlock, local, bounds
<1>4. ASSUME NEW h \in Heights, LoseJob(h)
      PROVE  CoordinatorInv'
  BY <1>4, HeightAssumption DEF LoseJob, local, bounds
<1>5. CASE BootHeights
  BY <1>5 DEF BootHeights, bounds
<1>6. CASE BootMissing
  BY <1>6, FoundAreHeights DEF BootMissing, bounds
<1>7. CASE BootSchedule
  BY <1>7 DEF BootSchedule, scheduleBlocksIndexing, Ends, bounds
<1>8. CASE Restart
  <2>1. listening' \in BOOLEAN
    BY <1>8, Zenon DEF Restart
  <2>2. faults' \in 0..MaxFaults
    BY <1>8, HeightAssumption DEF Restart
  <2> QED
    BY <1>8, <2>1, <2>2 DEF Restart, Ends, bounds
<1>9. CASE CheckHeights
  BY <1>9 DEF CheckHeights, bounds
<1>10. CASE CheckVerified
  BY <1>10 DEF CheckVerified, bounds
<1>11. CASE CheckMissing
  <2>1. CASE RangeThrows(lower, upper)
    BY <1>11, <2>1 DEF CheckMissing, Ends, bounds
  <2>2. CASE ~RangeThrows(lower, upper)
    BY <1>11, <2>2, FoundAreHeights DEF CheckMissing, RangeThrows, bounds
  <2> QED
    BY <2>1, <2>2
<1>12. CASE SetVerified
  BY <1>12 DEF SetVerified, Ends, bounds
<1>13. CASE ScheduleMissing
  BY <1>13 DEF ScheduleMissing, scheduleBlocksIndexing, Ends, bounds
<1>14. CASE UNCHANGED vars
  BY <1>14 DEF vars
<1> QED
  BY <1>1, <1>2, <1>3, <1>4, <1>5, <1>6, <1>7, <1>8, <1>9, <1>10, <1>11, <1>12, <1>13, <1>14
  DEF Next, Boot, Check

\* The invariant holds of every behaviour.
LEMMA CoordinatorInvariant == Spec => []CoordinatorInv
<1>1. Init => CoordinatorInv
  <2>1. Init => listening \in BOOLEAN
    BY Zenon DEF Init
  <2>2. Init => drops \in 0..MaxDrops /\ faults \in 0..MaxFaults
    BY HeightAssumption DEF Init
  <2> QED
    BY <2>1, <2>2, HeightsAreNat DEF Init, CoordinatorInv, TypeOK, RangeFromVerified, Steps
<1>2. CoordinatorInv /\ [Next]_vars => CoordinatorInv'
  BY CoordinatorStep
<1> QED
  BY <1>1, <1>2, PTL DEF Spec

\* The coordinator only asks for, schedules and records heights of the chain
\* that were ever there, whatever the index holds when it looks for gaps.
THEOREM CoordinatorTypeCorrect == Spec => []TypeOK
<1>1. CoordinatorInv => TypeOK
  BY DEF CoordinatorInv
<1> QED
  BY <1>1, CoordinatorInvariant, PTL

\* However the chain, the index and the checks interleave, a check takes the
\* verified height back by at most one block.
THEOREM VerifiedHeightBacksOffByOne == Spec => VerifiedBacksOffByOne
<1> DEFINE BacksOff == verifiedHeight' >= verifiedHeight - 1
<1>1. CoordinatorInv /\ [Next]_vars => [BacksOff]_vars
  <2> SUFFICES ASSUME CoordinatorInv, Next
               PROVE  BacksOff
    OBVIOUS
  <2> USE HeightsAreNat, HeightAssumption DEF CoordinatorInv, TypeOK
  <2>1. verifiedHeight \in Nat /\ upper \in Nat /\ lower \in Nat
    OBVIOUS
  <2>2. CASE SetVerified
    BY <2>1, <2>2 DEF SetVerified, RangeFromVerified
  <2>3. CASE UNCHANGED verifiedHeight
    BY <2>1, <2>3
  <2>4. SetVerified \/ UNCHANGED verifiedHeight
    BY DEF Next, Boot, Check, NewBlock, DropBlock, IndexBlock, LoseJob, BootHeights,
           BootMissing, BootSchedule, Restart, CheckHeights, CheckVerified, CheckMissing,
           ScheduleMissing
  <2> QED
    BY <2>2, <2>3, <2>4
<1> HIDE DEF BacksOff
<1>2. Spec => [][BacksOff]_vars
  BY <1>1, CoordinatorInvariant, PTL DEF Spec
<1> QED
  BY <1>2 DEF BacksOff, VerifiedBacksOffByOne
=============================================================================
