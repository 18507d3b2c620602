----------------------------- MODULE MCJobQueue -----------------------------
(* Values for the constants of JobQueue, small enough for TLC. *)
EXTENDS JobQueue, TLC

Workers == Permutations(Worker)
=============================================================================
