--------------------------- MODULE MCSyncPipeline ---------------------------
(* Values for the constants of SyncPipeline, small enough for TLC. *)
EXTENDS SyncPipeline, TLC

Runs == Permutations(Run)

\* Each tree has 80% of the triples of the one before, but not of the one before
\* that: the second push is refused while the first one is not live.
Sizes == [c \in Known |-> <<5, 4, 3>>[c + 1]]
=============================================================================
