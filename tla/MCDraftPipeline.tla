-------------------------- MODULE MCDraftPipeline --------------------------
(* Small instances of DraftPipeline. *)
EXTENDS DraftPipeline, TLC

\* Workers, requests and slots are interchangeable.
Symmetry == Permutations(Worker) \cup Permutations(Tab) \cup Permutations(Slot)
=============================================================================
