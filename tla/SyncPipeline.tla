---------------------------- MODULE SyncPipeline ----------------------------
(***************************************************************************)
(* The ontology sync: app/sync/orchestrator.py, webhook.py and             *)
(* webhook_deliveries.py, the admin trigger of app/admin/sync.py and the   *)
(* command line trigger of scripts/sync.py.                                *)
(*                                                                         *)
(* A run clones the ontology repository, stages the converted triples in   *)
(* a named graph of Fuseki, verifies their number and copies them over the *)
(* live default graph.  A session-scoped advisory lock serialises the      *)
(* runs; a trigger that finds a run in progress sets one durable rerun     *)
(* flag, which a run drains after it has released the lock.                *)
(*                                                                         *)
(* One action is one database transaction, one Fuseki request, or one step *)
(* on the state of the process.  A push is known by the number of its      *)
(* commit, and a graph by the commit whose triples it holds.               *)
(***************************************************************************)
EXTENDS Integers, FiniteSets

CONSTANTS
    Run,          \* slots for threads in run_sync: bounds how many there are at once
    NoRun,
    MaxPush,      \* bound: how many pushes the ontology repository sees
    Size,         \* Size[c]: triples converted from commit c; Size[0] is the first live graph
    MinTriples,   \* SYNC_MIN_TRIPLES
    Env           \* what may go wrong, or be used, in this instance:

EnvEvents == {"db",      \* a database call raises
              "fuseki",  \* a Fuseki update fails, before or after it took effect
              "count",   \* a SPARQL count fails, and reads as zero
              "git",     \* clone, conversion or validation raises
              "crash",   \* the web process dies and is started again
              "age",     \* a running row turns 30 minutes old
              "sweep",   \* a recorded delivery turns 7 days old
              "admin",   \* an admin clicks "sync now"
              "cli"}     \* an operator runs scripts/sync.py

Commit == 1 .. MaxPush
Known == 0 .. MaxPush
Nothing == -1                      \* the staging graph does not exist

ASSUME EnvAssumption == Env \subseteq EnvEvents
ASSUME SyncAssumption ==
    /\ MaxPush \in Nat /\ MinTriples \in Nat \ {0}
    /\ Size \in [Known -> Nat]
    /\ NoRun \notin Run

VARIABLES
    head,         \* the last commit on main
    requests,     \* how far the webhook handler is with each push's delivery
    recorded,     \* the webhook_deliveries table
    accepted,     \* history: deliveries answered with a 200, but for those a dead process lost
    admin,        \* how far the admin's trigger_sync handler is
    adminFlag,    \* _sync_in_progress
    rerun,        \* the sync_rerun_request row is there
    lock,         \* the run whose connection holds the advisory lock
    runs,         \* the threads in run_sync
    phantom,      \* a recent running row is left of a run that is gone
    staging,      \* the commit in the staging graph, or Nothing
    live,         \* the default graph
    reported,     \* history: the last commit whose sync was logged as failed
    unlogged      \* history: the last commit whose sync failed, or was skipped, without a row

hooks == <<requests, recorded, accepted>>
admins == <<admin, adminFlag>>
graphs == <<staging, live>>
told == <<reported, unlogged>>
vars == <<head, hooks, admins, rerun, lock, runs, phantom, graphs, told>>

----------------------------------------------------------------------------
(* Runs *)

\* The steps of run_sync while it holds the lock, in the order of the code.
Pipeline == {"insert", "clone", "drop", "upload", "undo", "verify", "promote",
             "check", "clean", "succeed", "fail", "after", "release"}
RunState ==
    [pc : {"free", "start", "loser", "note", "unqueued", "drain", "spawn", "done"} \cup Pipeline,
     commit : Known,                              \* what it has cloned, or gives up on
     row : {"none", "recent", "old", "closed"},   \* its sync_log row, and its age if running
     by : {"hook", "admin", "rerun", "cli"},
     proc : {"web", "cli"}]

Free == [pc |-> "free", commit |-> 0, row |-> "none", by |-> "hook", proc |-> "web"]

At(r, pc) == runs[r].pc = pc
Go(r, pc) == runs' = [runs EXCEPT ![r].pc = pc]
Started(by, proc, row) == [Free EXCEPT !.pc = "start", !.by = by, !.proc = proc, !.row = row]

Larger(m, n) == IF m > n THEN m ELSE n

Settled(c) == c <= live.commit \/ c <= reported

\* A run that is going to clone, or has cloned commit c and is still at work, or
\* has still to say that it will not clone it.
WillSync(r, c) ==
    \/ runs[r].pc \in {"start", "loser", "insert", "clone", "spawn"}
    \/ runs[r].pc \in Pipeline \cup {"unqueued"} /\ runs[r].commit >= c

\* The accepted pushes that are settled or that the flag or a run of R will bring
\* live.  A push that only the threads of a process that ends would have synced is
\* lost with it, and is struck from the history of accepted ones.
Remembered(R) == {c \in accepted : Settled(c) \/ rerun \/ \E r \in R : WillSync(r, c)}

\* has_recent_running_row; a database error reads as "no".
RecentRow == phantom \/ \E r \in Run : runs[r].row = "recent"
SeesRunning == {RecentRow} \cup (IF "db" \in Env THEN {FALSE} ELSE {})

Init ==
    /\ head = 0
    /\ requests = [c \in Commit |-> "none"]
    /\ recorded = {} /\ accepted = {}
    /\ admin = "off" /\ adminFlag = FALSE
    /\ rerun = FALSE
    /\ lock = NoRun
    /\ runs = [r \in Run |-> Free]
    /\ phantom = FALSE
    /\ staging = Nothing
    /\ live = [commit |-> 0, whole |-> TRUE]
    /\ reported = 0 /\ unlogged = 0

----------------------------------------------------------------------------
(* GitHub and the webhook handler *)

Push ==
    /\ head < MaxPush
    /\ head' = head + 1
    /\ UNCHANGED <<hooks, admins, rerun, lock, runs, phantom, graphs, told>>

Answer(c) == requests' = [requests EXCEPT ![c] = "answered"]

\* A delivery arrives, for the first time or because someone asked GitHub to
\* redeliver it, and the handler splits on has_recent_running_row.
Deliver(c) ==
    /\ c <= head /\ requests[c] \in {"none", "answered"}
    /\ \E running \in SeesRunning :
         requests' = [requests EXCEPT ![c] = IF running THEN "busy" ELSE "idle"]
    /\ UNCHANGED <<head, recorded, accepted, admins, rerun, lock, runs, phantom, graphs, told>>

\* Rows that are past the retention are swept when a delivery is recorded.
Swept == {recorded} \cup (IF "sweep" \in Env THEN SUBSET recorded ELSE {})

\* Mutant: the delivery is recorded and the flag's failure is not looked at.
QueueUnchecked(c) ==
    /\ requests[c] = "busy"
    /\ c \notin recorded /\ recorded' = recorded \cup {c}
    /\ rerun' \in {TRUE} \cup (IF "db" \in Env THEN {rerun} ELSE {})
    /\ accepted' = accepted \cup {c}
    /\ Answer(c)
    /\ UNCHANGED <<head, admins, lock, runs, phantom, graphs, told>>

\* record_delivery_and_request_rerun: one transaction for both writes.
QueueDelivery(c) ==
    /\ requests[c] = "busy"
    /\ \E kept \in Swept :
         /\ c \notin kept
         /\ recorded' = kept \cup {c}
    /\ rerun' = TRUE
    /\ accepted' = accepted \cup {c}
    /\ Answer(c)
    /\ UNCHANGED <<head, admins, lock, runs, phantom, graphs, told>>

\* record_delivery: the delivery is consumed before the thread is started.
StoreDelivery(c) ==
    /\ requests[c] = "idle"
    /\ \E kept \in Swept :
         /\ c \notin kept
         /\ recorded' = kept \cup {c}
    /\ requests' = [requests EXCEPT ![c] = "stored"]
    /\ UNCHANGED <<head, accepted, admins, rerun, lock, runs, phantom, graphs, told>>

\* A duplicate gets a 409; a delivery the database failed on, a 409 or a 503.
Refuse(c) ==
    /\ requests[c] \in {"busy", "idle"}
    /\ c \in recorded \/ "db" \in Env
    /\ Answer(c)
    /\ UNCHANGED <<head, recorded, accepted, admins, rerun, lock, runs, phantom, graphs, told>>

\* trigger_sync_background, then the 200.
StartFromWebhook(c, r) ==
    /\ requests[c] = "stored"
    /\ At(r, "free")
    /\ runs' = [runs EXCEPT ![r] = Started("hook", "web", "none")]
    /\ accepted' = accepted \cup {c}
    /\ Answer(c)
    /\ UNCHANGED <<head, recorded, admins, rerun, lock, phantom, graphs, told>>

----------------------------------------------------------------------------
(* The admin's trigger and the command line *)

\* trigger_sync reads the flag in memory, then the sync_log rows, and takes the
\* flag if neither tells of a run.
AdminClick ==
    /\ "admin" \in Env
    /\ admin = "off"
    /\ \E running \in IF adminFlag THEN {TRUE} ELSE SeesRunning :
         /\ admin' = IF running THEN "busy" ELSE "clear"
         /\ adminFlag' = (adminFlag \/ ~running)
    /\ UNCHANGED <<head, hooks, rerun, lock, runs, phantom, graphs, told>>

AdminQueue ==
    /\ admin = "busy"
    /\ rerun' \in {TRUE} \cup (IF "db" \in Env THEN {rerun} ELSE {})
    /\ admin' = "off"
    /\ UNCHANGED <<head, hooks, adminFlag, lock, runs, phantom, graphs, told>>

\* The running row is there before the thread; without a database there is none.
AdminStart(r) ==
    /\ admin = "clear"
    /\ At(r, "free")
    /\ \E row \in {"recent"} \cup (IF "db" \in Env THEN {"none"} ELSE {}) :
         runs' = [runs EXCEPT ![r] = Started("admin", "web", row)]
    /\ admin' = "off"
    /\ UNCHANGED <<head, hooks, adminFlag, rerun, lock, phantom, graphs, told>>

CliStart(r) ==
    /\ "cli" \in Env
    /\ \A q \in Run : runs[q].proc = "web"
    /\ At(r, "free")
    /\ runs' = [runs EXCEPT ![r] = Started("cli", "cli", "none")]
    /\ UNCHANGED <<head, hooks, admins, rerun, lock, phantom, graphs, told>>

----------------------------------------------------------------------------
(* run_sync: the lock, and the runs that do not get it *)

\* Mutant: the lock is not asked for, as before it existed.
AcquireAnyway(r) ==
    /\ At(r, "start")
    /\ lock' = r
    /\ Go(r, "insert")
    /\ UNCHANGED <<head, hooks, admins, rerun, phantom, graphs, told>>

\* pg_try_advisory_lock
AcquireLock(r) ==
    /\ At(r, "start")
    /\ lock = NoRun
    /\ lock' = r
    /\ Go(r, "insert")
    /\ UNCHANGED <<head, hooks, admins, rerun, phantom, graphs, told>>

\* The lock is held, or the database could not be asked.
LoseLock(r) ==
    /\ At(r, "start")
    /\ lock # NoRun \/ "db" \in Env
    /\ Go(r, "loser")
    /\ UNCHANGED <<head, hooks, admins, rerun, lock, phantom, graphs, told>>

\* Mutant: only a rerun that lost the lock sets the flag again.
OnlyRerunsQueue(r) ==
    /\ At(r, "loser")
    /\ rerun' = (rerun \/ runs[r].by = "rerun")
    /\ Go(r, "note")
    /\ UNCHANGED <<head, hooks, admins, lock, phantom, graphs, told>>

\* Every loser queues a rerun; if it cannot, it gives up on what it would have cloned.
QueueRerun(r) ==
    /\ At(r, "loser")
    /\ \/ rerun' = TRUE /\ Go(r, "note")
       \/ /\ "db" \in Env /\ UNCHANGED rerun
          /\ runs' = [runs EXCEPT ![r] = [@ EXCEPT !.pc = "unqueued", !.commit = head]]
    /\ UNCHANGED <<head, hooks, admins, lock, phantom, graphs, told>>

\* Mutant: a status the other readers of sync_log do not know.
SkippedRow(r, logged) == IF logged THEN "skipped" ELSE runs[r].row

\* A row that a run finalises is closed; it stays as it was if the database failed.
Finalized(r, logged) == IF logged THEN "closed" ELSE runs[r].row
Logging == {TRUE} \cup (IF "db" \in Env THEN {FALSE} ELSE {})

\* What a run gives up on is in sync_log, or nobody hears of it.
GivesUp(r, logged) ==
    IF logged THEN reported' = Larger(reported, runs[r].commit) /\ UNCHANGED unlogged
              ELSE unlogged' = Larger(unlogged, runs[r].commit) /\ UNCHANGED reported

\* The loser closes its row or leaves a note, which says whether the rerun was
\* queued, and never drains.  A rerun has no row and leaves no note.
NoteSkip(r) ==
    /\ runs[r].pc \in {"note", "unqueued"}
    /\ \E logged \in IF runs[r].by = "rerun" THEN {FALSE} ELSE Logging :
         /\ runs' = [runs EXCEPT ![r] = [@ EXCEPT !.pc = "done", !.row = Finalized(r, logged)]]
         /\ IF At(r, "unqueued") THEN GivesUp(r, logged) ELSE UNCHANGED told
    /\ UNCHANGED <<head, hooks, admins, rerun, lock, phantom, graphs>>

----------------------------------------------------------------------------
(* run_sync: the pipeline *)

InsertRow(r) ==
    /\ At(r, "insert")
    /\ \E row \in (IF runs[r].row = "none"
                   THEN {"recent"} \cup (IF "db" \in Env THEN {"none"} ELSE {})
                   ELSE {runs[r].row}) :
         runs' = [runs EXCEPT ![r] = [@ EXCEPT !.pc = "clone", !.row = row]]
    /\ UNCHANGED <<head, hooks, admins, rerun, lock, phantom, graphs, told>>

\* clone_or_pull; the conversion, the validation and the serialisation that
\* follow touch nothing but the clone.
Clone(r) ==
    /\ At(r, "clone")
    /\ \E pc \in {"drop"} \cup (IF "git" \in Env THEN {"fail"} ELSE {}) :
         runs' = [runs EXCEPT ![r] = [@ EXCEPT !.pc = pc, !.commit = head]]
    /\ UNCHANGED <<head, hooks, admins, rerun, lock, phantom, graphs, told>>

\* The outcomes of a Fuseki update that would make graph g into h: done, or
\* reported as failed, whether it took effect or not.
Update(g, h) ==
    {<<h, TRUE>>} \cup (IF "fuseki" \in Env THEN {<<g, FALSE>>, <<h, FALSE>>} ELSE {})

DropStale(r) ==
    /\ At(r, "drop")
    /\ \E u \in Update(staging, Nothing) :
         /\ staging' = u[1]
         /\ Go(r, IF u[2] THEN "upload" ELSE "fail")
    /\ UNCHANGED <<head, hooks, admins, rerun, lock, phantom, live, told>>

\* Mutant: the lock is released before the pipeline is through.
ReleaseAfterUpload(r) ==
    /\ At(r, "upload")
    /\ lock' = NoRun /\ staging' = runs[r].commit
    /\ Go(r, "verify")
    /\ UNCHANGED <<head, hooks, admins, rerun, phantom, live, told>>

Upload(r) ==
    /\ At(r, "upload")
    /\ \E u \in Update(staging, runs[r].commit) :
         /\ staging' = u[1]
         /\ Go(r, IF u[2] THEN "verify" ELSE "undo")
    /\ UNCHANGED <<head, hooks, admins, rerun, lock, phantom, live, told>>

\* Best-effort removal of a staging graph that is not going to be promoted.
UndoStaging(r) ==
    /\ At(r, "undo")
    /\ \E u \in Update(staging, Nothing) : staging' = u[1]
    /\ Go(r, "fail")
    /\ UNCHANGED <<head, hooks, admins, rerun, lock, phantom, live, told>>

\* graph_triple_count: zero if the query fails.
Count(n) == {n} \cup (IF "count" \in Env THEN {0} ELSE {})
Triples(graph) == IF graph = Nothing THEN 0 ELSE Size[graph]
LiveCounts ==
    UNION {Count(n) : n \in IF live.whole THEN {Triples(live.commit)}
                                          ELSE 0 .. Triples(live.commit)}

\* Mutant: the live graph is not compared with.
AbsoluteOnly(liveCount) == MinTriples

\* _compute_verification_threshold
Threshold(liveCount) ==
    IF liveCount <= 0 THEN MinTriples ELSE Larger(MinTriples, (liveCount * 8) \div 10)

Verify(r) ==
    /\ At(r, "verify")
    /\ \E staged \in Count(Triples(staging)), n \in LiveCounts :
         Go(r, IF staged < Threshold(n) THEN "undo" ELSE "promote")
    /\ UNCHANGED <<head, hooks, admins, rerun, lock, phantom, graphs, told>>

\* Mutant: the outcome of the COPY is not looked at.
PromoteUnchecked(r) ==
    /\ At(r, "promote")
    /\ Go(r, "check")
    /\ live' \in {[commit |-> staging, whole |-> TRUE]}
                 \cup (IF "fuseki" \in Env THEN {live} ELSE {})
    /\ UNCHANGED <<head, hooks, admins, rerun, lock, phantom, staging, told>>

\* COPY staging TO DEFAULT.  One that is reported as failed may have been
\* rejected, may have been applied, or may have stopped half-way.
Promote(r) ==
    /\ At(r, "promote")
    /\ \/ /\ live' = [commit |-> staging, whole |-> TRUE]
          /\ Go(r, "check")
       \/ /\ "fuseki" \in Env
          /\ live' \in {live, [commit |-> staging, whole |-> TRUE],
                        [commit |-> staging, whole |-> FALSE]}
          /\ Go(r, "fail")
    /\ UNCHANGED <<head, hooks, admins, rerun, lock, phantom, staging, told>>

CheckLive(r) ==
    /\ At(r, "check")
    /\ \E n \in LiveCounts : Go(r, IF n = 0 THEN "fail" ELSE "clean")
    /\ UNCHANGED <<head, hooks, admins, rerun, lock, phantom, graphs, told>>

CleanUp(r) ==
    /\ At(r, "clean")
    /\ \E u \in Update(staging, Nothing) : staging' = u[1]
    /\ Go(r, "succeed")
    /\ UNCHANGED <<head, hooks, admins, rerun, lock, phantom, live, told>>

\* The row says success while the lock is still held and the search index is
\* still to be refreshed.
Succeed(r) ==
    /\ At(r, "succeed")
    /\ \E logged \in Logging :
         runs' = [runs EXCEPT ![r] = [@ EXCEPT !.pc = "after", !.row = Finalized(r, logged)]]
    /\ UNCHANGED <<head, hooks, admins, rerun, lock, phantom, graphs, told>>

Fail(r) ==
    /\ At(r, "fail")
    /\ \E logged \in Logging :
         /\ runs' = [runs EXCEPT ![r] = [@ EXCEPT !.pc = "release", !.row = Finalized(r, logged)]]
         /\ GivesUp(r, logged)
    /\ UNCHANGED <<head, hooks, admins, rerun, lock, phantom, graphs>>

\* The WebSocket notification and the re-ingestion have been tried.
Ingest(r) ==
    /\ At(r, "after")
    /\ Go(r, "release")
    /\ UNCHANGED <<head, hooks, admins, rerun, lock, phantom, graphs, told>>

ReleaseLock(r) ==
    /\ At(r, "release")
    /\ lock' = NoRun
    /\ Go(r, "drain")
    /\ UNCHANGED <<head, hooks, admins, rerun, phantom, graphs, told>>

\* _drain_rerun_requests, consume_rerun_request: DELETE ... RETURNING.
Drain(r) ==
    /\ At(r, "drain")
    /\ \/ rerun' = FALSE /\ Go(r, IF rerun THEN "spawn" ELSE "done")
       \/ "db" \in Env /\ Go(r, "done") /\ UNCHANGED rerun
    /\ UNCHANGED <<head, hooks, admins, lock, phantom, graphs, told>>

\* What is left in sync_log of a run whose thread ends.
Leftover(r) == phantom' = (phantom \/ runs[r].row = "recent")
\* _run_sync_and_clear_flag: the admin's wrapper clears the flag in its finally.
ClearFlag(r) == adminFlag' = (adminFlag /\ runs[r].by # "admin")

\* Mutant: the flag is consumed and no thread is started.
SpawnNothing(r) ==
    /\ At(r, "spawn")
    /\ runs' = [runs EXCEPT ![r] = Free]
    /\ Leftover(r) /\ ClearFlag(r)
    /\ UNCHANGED <<head, hooks, admin, rerun, lock, graphs, told>>

\* The drained request starts one more run, a daemon thread of the same process.
SpawnRerun(r) ==
    /\ At(r, "spawn")
    /\ runs' = [runs EXCEPT ![r] = Started("rerun", runs[r].proc, "none")]
    /\ Leftover(r) /\ ClearFlag(r)
    /\ UNCHANGED <<head, hooks, admin, rerun, lock, graphs, told>>

Finish(r) ==
    /\ At(r, "done")
    /\ runs' = [runs EXCEPT ![r] = Free]
    /\ Leftover(r) /\ ClearFlag(r)
    /\ UNCHANGED <<head, hooks, admin, rerun, lock, graphs, told>>

----------------------------------------------------------------------------
(* The end of a process, and time *)

\* scripts/sync.py returns from run_sync and exits: the interpreter does not
\* wait for the daemon thread that run_sync has just started.
CliExit(r) ==
    /\ runs[r].proc = "cli" /\ runs[r].by = "rerun"
    /\ runs' = [runs EXCEPT ![r] = Free]
    /\ lock' = IF lock = r THEN NoRun ELSE lock
    /\ Leftover(r)
    /\ accepted' = Remembered(Run \ {r})
    /\ UNCHANGED <<head, requests, recorded, admins, rerun, graphs, told>>

WebRuns == {r \in Run : runs[r].proc = "web"}
WebRow == \E r \in WebRuns : runs[r].row = "recent"

\* mark_stale_running_as_failed, at startup: every running row, whoever's it is.
Cleaned(r) ==
    IF runs[r].row \in {"recent", "old"} THEN [runs[r] EXCEPT !.row = "closed"] ELSE runs[r]

\* Mutant: the startup clears every advisory lock, as it clears every row.
LockForced == lock' = NoRun

\* The lock's connection dies with its process.
LockFreed == lock' = IF lock \in WebRuns THEN NoRun ELSE lock

\* The web process dies with its threads and requests, and is started again.
Restart ==
    /\ "crash" \in Env
    /\ LockFreed
    /\ \/ /\ runs' = [r \in Run |-> IF r \in WebRuns THEN Free ELSE Cleaned(r)]
          /\ phantom' = FALSE
       \/ /\ "db" \in Env
          /\ runs' = [r \in Run |-> IF r \in WebRuns THEN Free ELSE runs[r]]
          /\ phantom' = (phantom \/ WebRow)
    /\ requests' = [c \in Commit |-> IF requests[c] = "none" THEN "none" ELSE "answered"]
    /\ accepted' = Remembered(Run \ WebRuns)
    /\ admin' = "off" /\ adminFlag' = FALSE
    /\ UNCHANGED <<head, recorded, rerun, graphs, told>>

\* A running row is no longer recent.
RowAges(r) ==
    /\ "age" \in Env /\ runs[r].row = "recent"
    /\ runs' = [runs EXCEPT ![r].row = "old"]
    /\ UNCHANGED <<head, hooks, admins, rerun, lock, phantom, graphs, told>>

PhantomAges ==
    /\ "age" \in Env /\ phantom
    /\ phantom' = FALSE
    /\ UNCHANGED <<head, hooks, admins, rerun, lock, runs, graphs, told>>

----------------------------------------------------------------------------
Handle(c) ==
    \/ QueueDelivery(c) \/ StoreDelivery(c) \/ Refuse(c)
    \/ \E r \in Run : StartFromWebhook(c, r)

AdminHandler == AdminQueue \/ \E r \in Run : AdminStart(r)

RunStep(r) ==
    \/ AcquireLock(r) \/ LoseLock(r) \/ QueueRerun(r) \/ NoteSkip(r)
    \/ InsertRow(r) \/ Clone(r) \/ DropStale(r) \/ Upload(r) \/ UndoStaging(r)
    \/ Verify(r) \/ Promote(r) \/ CheckLive(r) \/ CleanUp(r) \/ Succeed(r)
    \/ Fail(r) \/ Ingest(r) \/ ReleaseLock(r) \/ Drain(r) \/ SpawnRerun(r) \/ Finish(r)

Next ==
    \/ Push \/ \E c \in Commit : Deliver(c) \/ Handle(c)
    \/ AdminClick \/ AdminHandler
    \/ \E r \in Run : CliStart(r) \/ RunStep(r) \/ CliExit(r) \/ RowAges(r)
    \/ Restart \/ PhantomAges

Spec == Init /\ [][Next]_vars

\* Threads and handlers run on; nobody has to push, click or redeliver.
Fairness ==
    /\ \A r \in Run : WF_vars(RunStep(r))
    /\ \A c \in Commit : WF_vars(Handle(c))
    /\ WF_vars(AdminHandler)

FairSpec == Spec /\ Fairness

----------------------------------------------------------------------------
(* Properties *)

TypeOK ==
    /\ head \in Known
    /\ requests \in [Commit -> {"none", "busy", "idle", "stored", "answered"}]
    /\ recorded \subseteq Commit /\ accepted \subseteq Commit
    /\ admin \in {"off", "busy", "clear"} /\ adminFlag \in BOOLEAN
    /\ rerun \in BOOLEAN /\ phantom \in BOOLEAN
    /\ lock \in Run \cup {NoRun}
    /\ runs \in [Run -> RunState]
    /\ staging \in Known \cup {Nothing}
    /\ live \in [commit : Known, whole : BOOLEAN]
    /\ reported \in Known /\ unlogged \in Known

\* A run copies the triples it has verified itself: the staging graph every run
\* shares still holds its own upload when it verifies and promotes it, whatever
\* other triggers, crashes and failed Fuseki calls left there.
\* (orchestrator.py:297-315, the advisory lock's rationale.)
PromotesOwnStaging ==
    \A r \in Run : runs[r].pc \in {"verify", "promote"} => staging = runs[r].commit

\* A sync_log row says success only of a run whose triples are live, entire, when
\* the row is written: no other run has replaced or damaged them meanwhile.
SuccessIsLive ==
    \A r \in Run : At(r, "succeed") => live = [commit |-> runs[r].commit, whole |-> TRUE]

\* A live graph that is entire is only replaced by one that has MinTriples and at
\* least 80% of its triples (orchestrator.py:125-132, "regression protection").
LiveGraphDoesNotShrink ==
    [][live' # live /\ live.whole /\ live'.whole =>
          /\ Triples(live'.commit) >= MinTriples
          /\ Triples(live'.commit) >= (Triples(live.commit) * 8) \div 10]_vars

\* A push whose delivery was accepted is never forgotten: it is live, or its sync
\* was reported as failed, or the rerun flag is set, or a run will still take it.
\* Only what a thread alone knew of goes with its process; the flag stays.
\* (orchestrator.py:565-576, "that commit would be stranded", and the docstrings
\* that promise that a coalesced rerun is never lost.)
NothingForgotten == accepted \subseteq Remembered(Run)

\* When the database fails as well, a push is forgotten only by a run that could
\* not log that it failed, or could neither queue a rerun nor log that it was
\* skipped: no other way leads from an accepted delivery to silence.
ForgottenIsUnlogged == \A c \in accepted \ Remembered(Run) : c <= unlogged

\* A push that was queued while a run held the lock is synced, or reported as
\* failed, in the end: that run drains the flag after it has released the lock,
\* and whoever then takes the lock first clones the push (orchestrator.py:402-443).
QueuedPushIsSynced ==
    \A c \in Commit : (c \in accepted /\ rerun /\ lock # NoRun) ~> Settled(c)

\* webhook.py:82-87: a spawned run "acquires the lock and runs" or "durably queues
\* a coalesced rerun [...] so the push's commit is never lost".
AcceptedPushIsSynced == \A c \in Commit : (c \in accepted) ~> Settled(c)

\* The live graph as its readers see it: it is replaced by one refresh at a time,
\* and only by a later tree of the ontology repository.
Graph == INSTANCE LiveGraph WITH busy <- lock # NoRun
ImplementsLiveGraph == Graph!Spec
=============================================================================
