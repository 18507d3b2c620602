--------------------------- MODULE DraftLifecycle ---------------------------
(***************************************************************************)
(* What the document pipeline promises to whoever looks at a draft, as     *)
(* migrations/005_phase2_document_upload.sql states it for drafts.status:  *)
(*     uploaded -> parsing -> extracting -> analyzing -> ready             *)
(* or failed from any stage, one stage after the other and none skipped or *)
(* repeated; ready comes with the report of the version that is ready, and *)
(* a failed version starts again from the beginning.                       *)
(***************************************************************************)
EXTENDS Naturals

CONSTANT MaxVersions

VARIABLES
    status,      \* of the latest version; "none" before the upload, "deleted" at the end
    version,     \* the latest version
    reported     \* the versions that have a report

vars == <<status, version, reported>>

Stages == {"uploaded", "parsing", "extracting", "analyzing"}
After == [uploaded |-> "parsing", parsing |-> "extracting", extracting |-> "analyzing"]

Init == status = "none" /\ version = 0 /\ reported = {}

Upload ==
    /\ status \in {"none", "ready"} /\ version < MaxVersions
    /\ status' = "uploaded" /\ version' = version + 1
    /\ UNCHANGED reported

Advance ==
    /\ status \in DOMAIN After
    /\ status' = After[status]
    /\ UNCHANGED <<version, reported>>

Report ==
    /\ status = "analyzing"
    /\ status' = "ready" /\ reported' = reported \cup {version}
    /\ UNCHANGED version

Fail ==
    /\ status \in Stages
    /\ status' = "failed"
    /\ UNCHANGED <<version, reported>>

Retry ==
    /\ status = "failed"
    /\ status' = "uploaded"
    /\ UNCHANGED <<version, reported>>

Delete ==
    /\ status \notin {"none", "deleted"}
    /\ status' = "deleted" /\ version' = 0 /\ reported' = {}

Next == Upload \/ Advance \/ Report \/ Fail \/ Retry \/ Delete

Spec == Init /\ [][Next]_vars
=============================================================================
