---------------------------- MODULE BlockArchive ----------------------------
(***************************************************************************)
(* What the block index promises to those who read its blocks table: an    *)
(* archive of blocks that the chain has had, one for each height, some of  *)
(* them marked final.  BlockIndexer implements it, with its queues, jobs,  *)
(* retries, caches and restarts.                                           *)
(***************************************************************************)
EXTENDS Integers

CONSTANTS Block, NoBlock, height

VARIABLES
  known,    \* blocks that have been on the chain
  final,    \* the chain's finalized height
  archive,  \* [Height -> Block or NoBlock]
  marked    \* [Height -> BOOLEAN]: marked final

archiveVars == <<known, final, archive, marked>>

Height == {height[b] : b \in Block}

ArchiveInit ==
  /\ known \subseteq Block
  /\ final \in Nat
  /\ archive = [h \in Height |-> NoBlock]
  /\ marked = [h \in Height |-> FALSE]

\* The chain grows, or becomes final.
Learn ==
  /\ known \subseteq known' /\ known' \subseteq Block
  /\ final' \in Nat /\ final' >= final
  /\ UNCHANGED <<archive, marked>>

\* A block of the chain takes its height, and gives it a new mark; it is marked
\* only when the chain is final there.
Record(b) ==
  /\ b \in known
  /\ archive' = [archive EXCEPT ![height[b]] = b]
  /\ \E mark \in BOOLEAN :
       /\ mark => height[b] <= final
       /\ marked' = [marked EXCEPT ![height[b]] = mark]
  /\ UNCHANGED <<known, final>>

\* Heights at which the chain is final are marked, with blocks it has had;
\* nothing else changes.
Confirm(H) ==
  /\ \A h \in H : h <= final
  /\ \A h \in Height :
       IF h \in H THEN archive'[h] \in known /\ height[archive'[h]] = h
                  ELSE archive'[h] = archive[h]
  /\ archive' \in [Height -> Block \cup {NoBlock}]
  /\ marked' = [h \in Height |-> h \in H \/ marked[h]]
  /\ UNCHANGED <<known, final>>

ArchiveNext ==
  \/ Learn
  \/ \E b \in Block : Record(b)
  \/ \E H \in SUBSET Height : Confirm(H)

ArchiveSpec == ArchiveInit /\ [][ArchiveNext]_archiveVars
=============================================================================
