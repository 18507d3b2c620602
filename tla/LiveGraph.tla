----------------------------- MODULE LiveGraph -----------------------------
(***************************************************************************)
(* What the ontology sync promises to the readers of the live graph, as    *)
(* app/sync/orchestrator.py states it: refreshes happen one at a time, and *)
(* each replaces the graph by the tree of a commit that is not older than  *)
(* the one it shows.  A refresh may also leave the graph as it is, or      *)
(* damage it ("live graph may be degraded").                               *)
(***************************************************************************)
EXTENDS Naturals

CONSTANT MaxPush

VARIABLES
    head,    \* the last commit on main
    live,    \* the commit in the default graph, and whether it is entire
    busy     \* a refresh is going on

vars == <<head, live, busy>>

Init ==
    /\ head = 0
    /\ live = [commit |-> 0, whole |-> TRUE]
    /\ busy = FALSE

Push ==
    /\ head < MaxPush
    /\ head' = head + 1
    /\ UNCHANGED <<live, busy>>

Begin ==
    /\ ~busy
    /\ busy' = TRUE
    /\ UNCHANGED <<head, live>>

Publish ==
    /\ busy
    /\ live' \in [commit : live.commit .. head, whole : BOOLEAN]
    /\ UNCHANGED <<head, busy>>

End ==
    /\ busy
    /\ busy' = FALSE
    /\ UNCHANGED <<head, live>>

Next == Push \/ Begin \/ Publish \/ End

Spec == Init /\ [][Next]_vars
=============================================================================
