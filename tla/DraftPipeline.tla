---------------------------- MODULE DraftPipeline ----------------------------
(***************************************************************************)
(* One draft on its way through app/docs: the requests that create it, add *)
(* a version, retry, reanalyze or delete it; the jobs parse_draft,         *)
(* extract_entities, analyze_impact, export_report and draft_cleanup that  *)
(* workers run for it; and the reaper's finalisation of a job that nobody  *)
(* lived to report.                                                        *)
(*                                                                         *)
(* A content is known by the number of the version whose file it comes     *)
(* from: text k is the text of version k's file, entities k were extracted *)
(* from text k.  The status of the draft is kept twice, as in the code: in *)
(* the drafts row and in the row of every version.                         *)
(*                                                                         *)
(* The queue is the one of JobQueue.tla, reduced to what its theorems      *)
(* promise: a job is held by one live worker, a job whose holder is gone   *)
(* is reaped, every lost or failed attempt is counted.  Any pending job    *)
(* may be claimed next, since backoff lets a younger job overtake.         *)
(***************************************************************************)
EXTENDS Integers, Sequences, FiniteSets

CONSTANTS
    Worker,         \* worker threads
    Tab,            \* requests that can be in progress at once
    Slot,           \* bound: unfinished jobs at once
    SpareSlots,     \* bound: a worker dies only while this many slots are free
    MaxVersions,    \* bound: versions of the draft
    MaxAttempts,    \* background_jobs.max_attempts
    Op,             \* which requests users make
    Env             \* which faults happen: see below

\* "crash" a worker dies, or its last call to the queue fails
\* "db"    a handler's database calls fail
\* "reap"  a worker dies between giving a job up and failing its draft
\* "enq"   a request ends after its commit without having enqueued its job
\* "race"  others take steps between what a request reads and what it writes
ASSUME BoundsAssumption ==
    MaxVersions \in Nat \ {0} /\ MaxAttempts \in Nat \ {0} /\ SpareSlots \in Nat
ASSUME ChoicesAssumption ==
    /\ Op \subseteq {"upload", "retry", "reanalyze", "report", "download", "export", "delete"}
    /\ Env \subseteq {"crash", "db", "reap", "enq", "race"}

VARIABLES
    draft,        \* the drafts row, with the entities of draft_entities
    versions,     \* the draft_versions rows, by version_number
    reports,      \* the impact_reports rows
    files,        \* versions whose encrypted file is on disk
    graphs,       \* versions whose named graph is in Fuseki
    exported,     \* is a rendering of one of its reports in EXPORT_DIR?
    jobs,         \* the unfinished background_jobs rows of this draft
    workers,      \* what each worker holds in its local variables
    requests      \* what each request in progress holds

vars == <<draft, versions, reports, files, graphs, exported, jobs, workers, requests>>
tables == <<draft, versions, reports>>
artifacts == <<files, graphs, exported>>

----------------------------------------------------------------------------
(* Rows *)

InProgress == {"uploaded", "parsing", "extracting", "analyzing"}
DraftStatus == InProgress \cup {"ready", "failed"}

Version == 1 .. MaxVersions
Content == 0 .. MaxVersions          \* 0: NULL, or no rows

Present == draft.status \in DraftStatus
Latest == Len(versions)
\* get_draft reads status and text of the latest version through a join; the
\* text falls back to the drafts column, which keeps that of an older version.
StatusRead == IF Present THEN versions[Latest].status ELSE draft.status
TextRead == IF Present /\ versions[Latest].text # 0 THEN versions[Latest].text ELSE draft.text

Pipeline == {"parse", "extract", "analyze"}
Stage == Pipeline \cup {"export", "cleanup"}
\* A row that is done with is forgotten, but for a cleanup that failed for good.
Job == [stage : Stage, state : {"pending", "held", "failed"}, attempts : 0 .. MaxAttempts - 1,
        paths : SUBSET Version]
NoJob == [state |-> "none"]
Unfinished(s) == jobs[s].state \in {"pending", "held"}

Idle == [pc |-> "idle"]
Holds(w, s) == workers[w].pc \notin {"idle", "finalize", "finalizing"} /\ workers[w].slot = s
At(w, pc) == workers[w].pc = pc
Step(w, pc) == workers' = [workers EXCEPT ![w].pc = pc]
Rest(w) == workers' = [workers EXCEPT ![w] = Idle]
Doing(w, stages) == workers[w].stage \in stages

\* A new row of background_jobs; its number is one that nobody remembers.
FreeSlots == {s \in Slot : jobs[s] = NoJob /\ \A w \in Worker : ~Holds(w, s)}
Enqueue(stage, paths) == \E s \in FreeSlots : jobs' =
    [jobs EXCEPT ![s] = [stage |-> stage, state |-> "pending", attempts |-> 0, paths |-> paths]]

\* DELETE FROM background_jobs ... status IN ('pending', 'claimed', 'running')
Purged == [s \in Slot |-> IF Unfinished(s) THEN NoJob ELSE jobs[s]]

\* update_draft_status: the latest version's row without a guard, then the
\* drafts row if it still has one of the expected statuses.
SetStatus(status, expected) ==
    /\ versions' = IF Present THEN [versions EXCEPT ![Latest].status = status] ELSE versions
    /\ draft' = IF draft.status \in expected THEN [draft EXCEPT !.status = status] ELSE draft

----------------------------------------------------------------------------
Init ==
    /\ draft = [status |-> "none", text |-> 0, entities |-> 0]
    /\ versions = <<>>
    /\ reports = {} /\ files = {} /\ graphs = {} /\ exported = FALSE
    /\ jobs = [s \in Slot |-> NoJob]
    /\ workers = [w \in Worker |-> Idle]
    /\ requests = [t \in Tab |-> Idle]

(* Requests.  A request reads, then writes in one transaction, then enqueues. *)

\* Mutant: a new version may be uploaded while the previous one is in progress.
StartsFromAnyButFailed(op) ==
    CASE op = "upload" -> {"none", "ready"} \cup InProgress
      [] op = "retry" -> {"failed"}
      [] op = "reanalyze" -> {"ready", "failed"}
      [] OTHER -> DraftStatus

\* The statuses in which the handler goes on.
StartsFrom(op) ==
    CASE op = "upload" -> {"none", "ready"}
      [] op = "retry" -> {"failed"}
      [] op = "reanalyze" -> {"ready", "failed"}
      [] OTHER -> DraftStatus

\* Unless "race" is among the faults, a request gets from its check to its
\* commit undisturbed.
Undisturbed(t) ==
    "race" \in Env \/ \A u \in Tab \ {t} : requests[u].pc \notin {"checked", "collected"}
Quiet == "race" \in Env \/ \A u \in Tab : requests[u].pc \notin {"checked", "collected"}

\* The read; a request that fails the check ends without effect.  The tab of an
\* upload into a new draft is the first one: there is one draft.
Check(t, op) ==
    /\ requests[t].pc = "idle" /\ op \in Op /\ StatusRead \in StartsFrom(op)
    /\ op \in {"report", "download", "export"} => reports # {}   \* they are on the report's page
    /\ op = "upload" /\ draft.status = "none" => \A u \in Tab : requests[u].pc = "idle"
    /\ op = "upload" => Latest < MaxVersions
    /\ requests' = [requests EXCEPT ![t] =
                       [pc |-> "checked", op |-> op, seen |-> StatusRead, paths |-> {}]]
    /\ UNCHANGED <<tables, artifacts, jobs, workers>>

Committing(t, op) == requests[t].pc = "checked" /\ requests[t].op = op
Then(t, pc) == requests' = [requests EXCEPT ![t] = IF pc = "idle" THEN Idle ELSE [@ EXCEPT !.pc = pc]]

\* Mutant: the drafts row is left as it was.
UploadOverMirror(t) ==
    /\ Committing(t, "upload") /\ draft.status # "deleted" /\ Latest < MaxVersions
    /\ versions' = Append(versions, [status |-> "uploaded", text |-> 0])
    /\ draft' = IF draft.status = "none" THEN [draft EXCEPT !.status = "uploaded"] ELSE draft
    /\ files' = files \cup {Latest + 1}
    /\ Then(t, "committed")
    /\ UNCHANGED <<reports, graphs, exported, jobs, workers>>

\* handle_upload: _create_new_draft or _create_new_version.  The version number
\* is taken under an advisory lock; text and entities stay those of the last one.
Upload(t) ==
    /\ Committing(t, "upload") /\ draft.status # "deleted" /\ Latest < MaxVersions
    /\ versions' = Append(versions, [status |-> "uploaded", text |-> 0])
    /\ draft' = [draft EXCEPT !.status = "uploaded"]
    /\ files' = files \cup {Latest + 1}
    /\ Then(t, "committed")
    /\ UNCHANGED <<reports, graphs, exported, jobs, workers>>

\* _reset_draft_for_retry and the reanalyze handler: the jobs are purged and a
\* new one is enqueued only if the drafts row was still as it was read.
Restart(t, op, status, expected) ==
    /\ Committing(t, op)
    /\ SetStatus(status, {expected})
    /\ IF draft.status = expected
       THEN jobs' = Purged /\ Then(t, "committed")
       ELSE jobs' = jobs /\ Then(t, "idle")
    /\ UNCHANGED <<reports, artifacts, workers>>

Retry(t) == Restart(t, "retry", "uploaded", "failed")
Reanalyze(t) == Restart(t, "reanalyze", "analyzing", requests[t].seen)

\* reanalyze_report_handler writes nothing: it goes on to its enqueue.
ReportReanalyze(t) ==
    /\ Committing(t, "report")
    /\ Then(t, "committed")
    /\ UNCHANGED <<tables, artifacts, jobs, workers>>

ExportUnderWay == \E s \in Slot : Unfinished(s) /\ jobs[s].stage = "export"

\* export_draft_report_handler: an export that is under way is used again, unless
\* the query for it fails.  (One format: an export into another has its own job.)
Export(t) ==
    /\ Committing(t, "export")
    /\ \/ ExportUnderWay /\ jobs' = jobs
       \/ (~ExportUnderWay \/ "db" \in Env) /\ Enqueue("export", {})
    /\ Then(t, "idle")
    /\ UNCHANGED <<tables, artifacts, workers>>

\* report_full_download_handler and executive_summary_download_handler render what
\* they have read into EXPORT_DIR, in a thread of the web server.
Download(t) ==
    /\ Committing(t, "download")
    /\ exported' = TRUE
    /\ Then(t, "idle")
    /\ UNCHANGED <<tables, files, graphs, jobs, workers>>

\* delete_draft_handler, the SELECT of get_draft_artifact_paths (to which the
\* code adds the graph of the version it has checked, once more) ...
Collect(t) ==
    /\ Committing(t, "delete")
    /\ requests' = [requests EXCEPT ![t] = [@ EXCEPT !.pc = "collected", !.paths = DOMAIN versions]]
    /\ UNCHANGED <<tables, artifacts, jobs, workers>>

\* ... and the rest of that transaction.
Delete(t) ==
    /\ requests[t].pc = "collected"
    /\ draft' = [status |-> "deleted", text |-> 0, entities |-> 0]
    /\ versions' = <<>> /\ reports' = {}
    /\ jobs' = Purged
    /\ Then(t, "committed")
    /\ UNCHANGED <<artifacts, workers>>

FirstStage(op) ==
    CASE op \in {"upload", "retry"} -> "parse"
      [] op \in {"reanalyze", "report"} -> "analyze"
      [] op = "delete" -> "cleanup"

EnqueueFirst(t) ==
    /\ requests[t].pc = "committed"
    /\ Enqueue(FirstStage(requests[t].op), requests[t].paths)
    /\ Then(t, "idle")
    /\ UNCHANGED <<tables, artifacts, workers>>

\* The enqueue fails, or the process dies before it; every caller only logs it.
EnqueueLost(t) ==
    /\ "enq" \in Env /\ requests[t].pc = "committed"
    /\ Then(t, "idle")
    /\ UNCHANGED <<tables, artifacts, jobs, workers>>

\* The transaction fails, or finds the draft gone; the stored file is deleted.
Refused(t) ==
    /\ requests[t].pc = "checked"
    /\ Then(t, "idle")
    /\ UNCHANGED <<tables, artifacts, jobs, workers>>

Request(t) ==
    /\ Undisturbed(t)
    /\ \/ \E op \in Op : Check(t, op)
       \/ Upload(t) \/ Retry(t) \/ Reanalyze(t) \/ ReportReanalyze(t)
       \/ Export(t) \/ Download(t) \/ Collect(t) \/ Delete(t)
       \/ EnqueueFirst(t) \/ EnqueueLost(t) \/ Refused(t)

----------------------------------------------------------------------------
(* Workers *)

Claim(w, s) ==
    /\ At(w, "idle") /\ jobs[s].state = "pending"
    /\ jobs' = [jobs EXCEPT ![s].state = "held"]
    /\ workers' = [workers EXCEPT ![w] =
                      [pc |-> "claimed", slot |-> s, stage |-> jobs[s].stage,
                       last |-> jobs[s].attempts + 1 >= MaxAttempts,
                       ver |-> 0, from |-> 0, paths |-> jobs[s].paths]]
    /\ UNCHANGED <<tables, artifacts, requests>>

\* An exception inside the handler's try marks the draft failed if this attempt
\* is the last one; one before the try (parse_draft loads and marks there), and
\* any of draft_cleanup, goes straight to the worker.
Raise(w, pc) == Step(w, pc) /\ UNCHANGED <<tables, artifacts, jobs, requests>>

Load(w) ==
    /\ At(w, "claimed") /\ Doing(w, Pipeline) /\ Present
    /\ Doing(w, {"extract"}) => TextRead # 0
    /\ workers' = [workers EXCEPT ![w] =
                      [@ EXCEPT !.pc = IF Doing(w, {"analyze"}) THEN "working" ELSE "loaded",
                                !.ver = Latest,
                                !.from = CASE Doing(w, {"parse"}) -> 0
                                           [] Doing(w, {"extract"}) -> TextRead
                                           [] OTHER -> draft.entities]]
    /\ UNCHANGED <<tables, artifacts, jobs, requests>>

\* The draft is gone, there is no text, or the read fails.
LoadFails(w) ==
    /\ At(w, "claimed") /\ Doing(w, Pipeline)
    /\ \/ ~Present
       \/ Doing(w, {"extract"}) /\ TextRead = 0
       \/ "db" \in Env
    /\ Raise(w, IF Doing(w, {"parse"}) THEN "aborted" ELSE "raised")

\* Mutant: every handler writes the status the first one does.
MarkParsing(w) ==
    /\ At(w, "loaded")
    /\ SetStatus("parsing", DraftStatus)
    /\ Step(w, "working")
    /\ UNCHANGED <<reports, artifacts, jobs, requests>>

\* "parsing" or "extracting", in a transaction of its own.
Mark(w) ==
    /\ At(w, "loaded")
    /\ SetStatus(IF Doing(w, {"parse"}) THEN "parsing" ELSE "extracting", DraftStatus)
    /\ Step(w, "working")
    /\ UNCHANGED <<reports, artifacts, jobs, requests>>

MarkFails(w) ==
    /\ "db" \in Env /\ At(w, "loaded")
    /\ Raise(w, IF Doing(w, {"parse"}) THEN "aborted" ELSE "raised")

\* Tika, the language model, Fuseki, the file or the database let it down.
WorkFails(w) ==
    /\ \/ At(w, "working")
       \/ At(w, "loading")
       \/ At(w, "committed") /\ "db" \in Env
    /\ Raise(w, "raised")

\* parse_draft: the text of the file that was loaded, on the latest version.
Parsed(w) ==
    /\ At(w, "working") /\ Doing(w, {"parse"}) /\ workers[w].ver \in files
    /\ IF Present
       THEN /\ versions' = [versions EXCEPT ![Latest] =
                               [status |-> "extracting", text |-> workers[w].ver]]
            /\ draft' = [draft EXCEPT !.status = "extracting", !.text = workers[w].ver]
       ELSE UNCHANGED <<draft, versions>>
    /\ Step(w, "committed")
    /\ UNCHANGED <<reports, artifacts, jobs, requests>>

\* extract_entities: draft_entities are replaced; the rows need the draft's.
Extracted(w) ==
    /\ At(w, "working") /\ Doing(w, {"extract"}) /\ Present
    /\ versions' = [versions EXCEPT ![Latest].status = "analyzing"]
    /\ draft' = [draft EXCEPT !.status = "analyzing", !.entities = workers[w].from]
    /\ Step(w, "committed")
    /\ UNCHANGED <<reports, artifacts, jobs, requests>>

\* Mutant: the next stage is not enqueued.
NothingNext(w) ==
    /\ At(w, "committed")
    /\ Step(w, "returned")
    /\ UNCHANGED <<tables, artifacts, jobs, requests>>

EnqueueNext(w) ==
    /\ At(w, "committed")
    /\ Enqueue(IF Doing(w, {"parse"}) THEN "extract" ELSE "analyze", {})
    /\ Step(w, "returned")
    /\ UNCHANGED <<tables, artifacts, requests>>

\* analyze_impact: the named graph of the version that was loaded ...
PutGraph(w) ==
    /\ At(w, "working") /\ Doing(w, {"analyze"})
    /\ graphs' = graphs \cup {workers[w].ver}
    /\ Step(w, "loading")
    /\ UNCHANGED <<tables, files, exported, jobs, requests>>

\* ... and the report, bound to the version that is the latest by now.
Analyzed(w) ==
    /\ At(w, "loading") /\ Present
    /\ reports' = reports \cup {[version |-> Latest, loaded |-> workers[w].ver,
                                 from |-> workers[w].from]}
    /\ SetStatus("ready", DraftStatus)
    /\ Step(w, "returned")
    /\ UNCHANGED <<artifacts, jobs, requests>>

\* export_report: the draft and its report, read in one transaction ...
LoadReport(w) ==
    /\ At(w, "claimed") /\ Doing(w, {"export"}) /\ Present /\ reports # {}
    /\ Step(w, "rendering")
    /\ UNCHANGED <<tables, artifacts, jobs, requests>>

\* ... and the file.  A failure is the job's alone: the draft stays as it is.
Rendered(w) ==
    /\ At(w, "rendering")
    /\ exported' = TRUE
    /\ Step(w, "returned")
    /\ UNCHANGED <<tables, files, graphs, jobs, requests>>

ExportFails(w) ==
    /\ \/ At(w, "rendering")
       \/ At(w, "claimed") /\ Doing(w, {"export"}) /\ (~Present \/ reports = {} \/ "db" \in Env)
    /\ Raise(w, "aborted")

\* Mutant: the renderings of a draft outlive it.
CleanupOfPaths(w) ==
    /\ At(w, "claimed") /\ Doing(w, {"cleanup"})
    /\ \E F \in SUBSET workers[w].paths, G \in SUBSET workers[w].paths :
        /\ files' = files \ F /\ graphs' = graphs \ G
        /\ Step(w, IF F \cap G = workers[w].paths THEN "returned" ELSE "aborted")
    /\ UNCHANGED <<tables, exported, jobs, requests>>

\* draft_cleanup tries every path, and every rendering it finds; one step of it
\* that fails fails the attempt.
Cleanup(w) ==
    /\ At(w, "claimed") /\ Doing(w, {"cleanup"})
    /\ \E F \in SUBSET workers[w].paths, G \in SUBSET workers[w].paths, kept \in {exported, FALSE} :
        /\ files' = files \ F /\ graphs' = graphs \ G /\ exported' = kept
        /\ Step(w, IF F \cap G = workers[w].paths /\ ~kept THEN "returned" ELSE "aborted")
    /\ UNCHANGED <<tables, jobs, requests>>

\* _mark_draft_failed, which swallows its own failure.
MarkFailed(w) ==
    /\ At(w, "raised")
    /\ \/ workers[w].last /\ SetStatus("failed", DraftStatus)
       \/ (~workers[w].last \/ "db" \in Env) /\ UNCHANGED <<draft, versions>>
    /\ Step(w, "aborted")
    /\ UNCHANGED <<reports, artifacts, jobs, requests>>

\* Mutant: one attempt more than allowed.
SpentOneMore(s) ==
    IF jobs[s].attempts < MaxAttempts
    THEN [jobs EXCEPT ![s].state = "pending", ![s].attempts = @ + 1]
    ELSE [jobs EXCEPT ![s] = NoJob]

\* An attempt is spent: the job is pending again, or failed for good.
Spent(s) ==
    IF jobs[s].attempts + 1 < MaxAttempts
    THEN [jobs EXCEPT ![s].state = "pending", ![s].attempts = @ + 1]
    ELSE [jobs EXCEPT ![s] = IF @.stage = "cleanup" THEN [@ EXCEPT !.state = "failed"] ELSE NoJob]

\* mark_success and mark_failed, on a row that may have been deleted.
FinishJob(w) ==
    /\ At(w, "returned") \/ At(w, "aborted")
    /\ jobs' = IF ~Unfinished(workers[w].slot) THEN jobs
               ELSE IF At(w, "returned") THEN [jobs EXCEPT ![workers[w].slot] = NoJob]
               ELSE Spent(workers[w].slot)
    /\ Rest(w)
    /\ UNCHANGED <<tables, artifacts, requests>>

Crash(w) ==
    /\ \/ "crash" \in Env /\ workers[w].pc \notin {"idle", "finalize", "finalizing"}
       \/ "reap" \in Env /\ workers[w].pc \in {"finalize", "finalizing"}
    /\ Cardinality(FreeSlots) >= SpareSlots
    /\ Rest(w)
    /\ UNCHANGED <<tables, artifacts, jobs, requests>>

----------------------------------------------------------------------------
(* The reaper *)

Orphaned(s) == jobs[s].state = "held" /\ \A w \in Worker : ~Holds(w, s)

\* Mutant: a job that is given up has no consequence for its draft.
ReapOnly(w, s) ==
    /\ At(w, "idle") /\ Orphaned(s)
    /\ jobs' = Spent(s)
    /\ UNCHANGED <<tables, artifacts, workers, requests>>

Reap(w, s) ==
    /\ At(w, "idle") /\ Orphaned(s)
    /\ jobs' = Spent(s)
    /\ workers' = IF jobs[s].attempts + 1 < MaxAttempts THEN workers
                  ELSE [workers EXCEPT ![w] = [pc |-> "finalize"]]
    /\ UNCHANGED <<tables, artifacts, requests>>

\* _finalize_draft_for_lost_job: a SELECT of drafts.status ...
FinalizeRead(w) ==
    /\ At(w, "finalize")
    /\ workers' = [workers EXCEPT ![w] =
                      IF draft.status \in InProgress
                      THEN [pc |-> "finalizing", seen |-> draft.status] ELSE Idle]
    /\ UNCHANGED <<tables, artifacts, jobs, requests>>

\* Mutant: only the drafts row is failed.
FinalizeRowOnly(w) ==
    /\ At(w, "finalizing")
    /\ draft' = IF draft.status = workers[w].seen THEN [draft EXCEPT !.status = "failed"] ELSE draft
    /\ Rest(w)
    /\ UNCHANGED <<versions, reports, artifacts, jobs, requests>>

\* ... and an UPDATE guarded by it.
FinalizeWrite(w) ==
    /\ At(w, "finalizing")
    /\ SetStatus("failed", {workers[w].seen})
    /\ Rest(w)
    /\ UNCHANGED <<reports, artifacts, jobs, requests>>

----------------------------------------------------------------------------
Progress(w) ==
    \/ Load(w) \/ LoadFails(w) \/ Mark(w) \/ MarkFails(w) \/ WorkFails(w)
    \/ Parsed(w) \/ Extracted(w) \/ EnqueueNext(w) \/ PutGraph(w) \/ Analyzed(w)
    \/ LoadReport(w) \/ Rendered(w) \/ ExportFails(w)
    \/ Cleanup(w) \/ MarkFailed(w) \/ FinishJob(w)
    \/ FinalizeRead(w) \/ FinalizeWrite(w)

Take(w) == \E s \in Slot : Claim(w, s) \/ Reap(w, s)

Next ==
    \/ \E t \in Tab : Request(t)
    \/ \E w \in Worker : Quiet /\ (Progress(w) \/ Take(w) \/ Crash(w))

Spec == Init /\ [][Next]_vars

\* A worker gets on with its job, and one that keeps dying still claims and reaps
\* in between; that a worker waits for Quiet is the model's doing and must not stop
\* it.  A request that has begun ends; nobody has to begin one.
Fairness ==
    /\ \A w \in Worker : SF_vars(Quiet /\ Progress(w)) /\ SF_vars(Quiet /\ Take(w))
    /\ \A t \in Tab : WF_vars(Request(t) /\ requests[t].pc # "idle")

FairSpec == Spec /\ Fairness

----------------------------------------------------------------------------
(* Properties *)

ReportRow == [version : Version, loaded : Version, from : Content]

WorkerState ==
    {Idle, [pc |-> "finalize"]}
    \cup [pc : {"finalizing"}, seen : InProgress]
    \cup [pc : {"claimed", "loaded", "working", "committed", "loading", "rendering",
                "returned", "raised", "aborted"},
          slot : Slot, stage : Stage, last : BOOLEAN, ver : Content, from : Content,
          paths : SUBSET Version]

RequestState ==
    {Idle} \cup [pc : {"checked", "collected", "committed"}, op : Op,
                 seen : DraftStatus \cup {"none"}, paths : SUBSET Version]

TypeOK ==
    /\ draft \in [status : DraftStatus \cup {"none", "deleted"}, text : Content, entities : Content]
    /\ versions \in Seq([status : DraftStatus, text : Content]) /\ Latest \in Content
    /\ Present <=> versions # <<>>
    /\ reports \subseteq ReportRow
    /\ files \subseteq Version /\ graphs \subseteq Version /\ exported \in BOOLEAN
    /\ jobs \in [Slot -> Job \cup {NoJob}]
    /\ workers \in [Worker -> WorkerState]
    /\ requests \in [Tab -> RequestState]

\* status.py:211-213, "Writes the new ``status`` to BOTH the latest draft_versions
\* row AND drafts.status in the same transaction": whoever reads either copy sees
\* the same status.
MirrorAgrees == Present => draft.status = StatusRead

\* A draft that is in progress is in somebody's hands: a job of its pipeline is
\* queued, a worker is at it, or a request is about to enqueue one.  Otherwise
\* the page offers neither retry nor reanalyze, and it stays so for ever.
Stranded ==
    /\ Present /\ StatusRead \in InProgress
    /\ \A s \in Slot : Unfinished(s) => jobs[s].stage \notin Pipeline
    /\ \A w \in Worker : ~At(w, "idle") => ~At(w, "finalize") /\ ~At(w, "finalizing")
                                            /\ ~Doing(w, Pipeline)
    /\ \A t \in Tab : requests[t].pc # "committed"
NeverStranded == ~Stranded

\* Only the latest version is worked on: each older one was ready when it was
\* superseded, and stays so, whatever late jobs still write.
OlderVersionsAreReady == \A v \in 1 .. Latest - 1 : versions[v].status = "ready"

\* A report is bound to the version whose row, graph and entities the analysis
\* has loaded (analyze_handler.py:264-266: "a v3 parallel upload mid-analyze
\* cannot retro-attach this report to the wrong version").
ReportIsOfItsVersion == \A r \in reports : r.version = r.loaded

\* What a report says of a version comes from the text of that version's file.
ReportHasItsText == \A r \in reports : r.version = r.from

\* Both, for every report there is: what a reader takes a report for, it is.
ReportsAreTrue == ReportIsOfItsVersion /\ ReportHasItsText

\* Everything about a deleted draft has come to rest, and no cleanup job is there
\* as failed.
Forgotten ==
    /\ draft.status = "deleted"
    /\ \A s \in Slot : jobs[s] = NoJob
    /\ \A w \in Worker : At(w, "idle")
    /\ \A t \in Tab : requests[t].pc = "idle"

\* Rendered reports are "plaintext derivatives of the encrypted draft and must die
\* with it" (cleanup_handler.py:178-180).
RenderingsDieToo == Forgotten => ~exported

\* A draft is forgotten only when none of its encrypted files, named graphs and
\* rendered reports is left.
NothingLeftBehind == RenderingsDieToo /\ (Forgotten => files = {} /\ graphs = {})

\* The draft as its page shows it: its status moves along the documented machine,
\* without skipping or repeating a stage, whatever jobs are attempted again, purged
\* or overtaken, and "observers never see a status='ready' row without its report"
\* (analyze_handler.py).
Lifecycle == INSTANCE DraftLifecycle WITH
    status <- StatusRead, version <- Latest, reported <- {r.version : r \in reports}
ImplementsLifecycle == Lifecycle!Spec

\* Every draft that is in progress gets to ready or failed, or is deleted, unless
\* exports, which have the higher priority, are asked for without end.
PipelineEnds ==
    <>[]~ExportUnderWay =>
        (Present /\ StatusRead \in InProgress ~> ~(Present /\ StatusRead \in InProgress))
=============================================================================
