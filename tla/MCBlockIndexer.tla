--------------------------- MODULE MCBlockIndexer ---------------------------
(***************************************************************************)
(* Instances of BlockIndexer.  Fork: a1 is dropped for b1, b1 is extended  *)
(* by b2.  Line: a1 is extended by a2, no fork.                            *)
(***************************************************************************)
EXTENDS BlockIndexer, TLC

CONSTANTS g0, a1, a2, b1, b2, t1, t2, v1, v2

ForkBlocks == {g0, a1, b1, b2}
LineBlocks == {g0, a1, a2}

MCHeight == [b \in Block |-> CASE b = g0 -> 1 [] b \in {a1, b1} -> 2 [] OTHER -> 3]
MCParent == [b \in Block |-> CASE b = a2 -> a1 [] b = b2 -> b1 [] OTHER -> g0]
MCTxs == [b \in Block |-> CASE b = a1 -> {t1, t2} [] b = b1 -> {t1}
                            [] b \in {a2, b2} -> {t2} [] OTHER -> {}]
MCGenerator == [b \in Block |-> IF b \in {b1, a2} THEN v2 ELSE v1]
WorkerSymmetry == Permutations(Worker)

MCLocked == [b \in Block |-> CASE b = a1 -> 1 [] b = b1 -> 2 [] OTHER -> 0]
=============================================================================
