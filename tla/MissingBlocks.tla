---------------------------- MODULE MissingBlocks ----------------------------
(***************************************************************************)
(* The search for gaps in the block index: findMissingBlocksInRange and    *)
(* getMissingBlocks of blockchain-indexer/shared/indexer/blockchainIndex.js*)
(* and range of shared/utils/array.js.  The blocks table is the set        *)
(* `indexed' of the heights that have a row.                               *)
(***************************************************************************)
EXTENDS Integers, FiniteSets

\* SELECT COALESCE(MAX(b0.height), fromHeight) FROM blocks b0
\*   WHERE b0.height < height: the highest row below, at whatever height.
HighestBelow(indexed, height, fromHeight) ==
  LET below == {b \in indexed : b < height}
  IN  IF below = {} THEN fromHeight ELSE CHOOSE m \in below : \A b \in below : b <= m

\* Mutant of GapEnds: the second height of the range is skipped too.
GapEndsPastSecond(indexed, fromHeight, toHeight) ==
  {b1 \in indexed : /\ fromHeight + 1 < b1 /\ b1 < toHeight
                    /\ b1 - 1 \notin indexed}

\* The rows b1 of the query: in the range but neither its first nor its last
\* height, without a row just below.
GapEnds(indexed, fromHeight, toHeight) ==
  {b1 \in indexed : /\ fromHeight + 1 <= b1 /\ b1 <= toHeight
                    /\ b1 # toHeight
                    /\ b1 - 1 \notin indexed}

\* findMissingBlocksInRange: a set of ranges of heights, both ends included.
FindMissingBlocksInRange(indexed, fromHeight, toHeight) ==
  LET total == toHeight - fromHeight + 1
      count == Cardinality({b \in indexed : fromHeight <= b /\ b <= toHeight})
  IN  IF count < 3 THEN {[from |-> fromHeight, to |-> toHeight]}
      ELSE IF count = total THEN {}
      ELSE {[from |-> HighestBelow(indexed, b1, fromHeight), to |-> b1 - 1] :
              b1 \in GapEnds(indexed, fromHeight, toHeight)}

\* Mutant of RangeThrows: a range that counts down is empty.
RangeNeverThrows(fromHeight, toHeight) == FALSE

\* range throws (a negative array length) when it is asked to count down.
RangeThrows(fromHeight, toHeight) == toHeight + 1 < fromHeight

\* getMissingBlocks: the heights of all the ranges.
GetMissingBlocks(indexed, fromHeight, toHeight) ==
  UNION {r.from .. r.to : r \in FindMissingBlocksInRange(indexed, fromHeight, toHeight)}
-----------------------------------------------------------------------------
(***************************************************************************)
(* Reference definitions.                                                  *)
(***************************************************************************)
\* What is missing from a range.
Missing(indexed, fromHeight, toHeight) == (fromHeight .. toHeight) \ indexed

\* The missing heights that have a row above them, below the end of the range.
InteriorMissing(indexed, fromHeight, toHeight) ==
  {h \in Missing(indexed, fromHeight, toHeight) :
     \E k \in indexed : h < k /\ k < toHeight}
=============================================================================
