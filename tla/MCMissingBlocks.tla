--------------------------- MODULE MCMissingBlocks ---------------------------
(***************************************************************************)
(* MissingBlocks over every index and every range up to a bound: a search  *)
(* is answered, and reported heights are indexed one after the other.      *)
(***************************************************************************)
EXTENDS MissingBlocks

CONSTANT MaxHeight   \* bound: the highest block

ASSUME MaxHeightAssumption == MaxHeight \in Nat

VARIABLES indexed, from, to

vars == <<indexed, from, to>>

Init ==
  /\ indexed \in SUBSET (1..MaxHeight)
  /\ from \in 1..MaxHeight
  /\ to \in from..MaxHeight

IndexReported(h) ==
  /\ h \in GetMissingBlocks(indexed, from, to)
  /\ indexed' = indexed \cup {h}
  /\ UNCHANGED <<from, to>>

Next == \E h \in 1..MaxHeight : IndexReported(h)

Spec == Init /\ [][Next]_vars
-----------------------------------------------------------------------------
\* findMissingBlocksInRange reports every gap that has a row above it, short
\* of the top of the range.
InteriorGapsFound ==
  InteriorMissing(indexed, from, to) \subseteq GetMissingBlocks(indexed, from, to)
=============================================================================
