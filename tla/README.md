# Seadusloome in TLA+

Seadusloome is a web service for people who draft Estonian law.  It keeps a copy
of the Estonian legal ontology in an RDF store (Jena Fuseki), lets a user upload
a draft (a `.docx` or `.pdf`), analyses the draft against the ontology in the
background, and adds a chat, a step-by-step drafter, annotations and reports.
One Python process serves the web requests (FastHTML on Starlette, sync handlers
in a thread pool), and by default also runs the background worker thread
(`WORKER_MODE=inproc`); `scripts/run_worker.py` runs a worker in a process of
its own.  All durable state is in PostgreSQL, in Fuseki, and in encrypted files.

This directory specifies the parts of it whose correctness depends on the order
in which threads, processes, transactions and external services take their
steps.  Paths below are those of the repository, without the leading `src/`.

- [1. Inventory](#1-inventory): the components, their state and their hazards
- [2. Plan](#2-plan): the modules, in order, and what each is to establish
- [3. The modules](#3-the-modules): how state and actions correspond to the code
- [4. The runs](#4-the-runs): what is checked, with which bounds and fairness
- [5. The proofs](#5-the-proofs): what holds for every value of the constants
- [6. What is not modelled](#6-what-is-not-modelled)
- [7. Findings](#7-findings)

## 1. Inventory

### 1.1 Job queue and worker - `app/jobs/queue.py`, `app/jobs/worker.py`, `app/admin/job_monitor.py`

State: the table `background_jobs` (status, attempts, priority, timestamps) and,
per worker thread, the job it holds in local variables, the attempts count it
was given with it, and the time of its next reaper pass.

Operations: `enqueue`; `claim_next` (`FOR UPDATE SKIP LOCKED`, by priority, then
age); `mark_running`, `mark_success`, `mark_failed` (with backoff); the reaper
`reap_stale_jobs`, which each worker runs from its own loop; the admin's retry
and purge; the deletion of a draft's unfinished jobs by the draft's retry,
reanalyze and delete.

Interactions: every handler of the draft, export, drafter and archive components
is called by the worker, and is told whether this attempt is the last.  When
that last attempt fails it marks the draft failed.  The reaper does the same for
an attempt nobody lives to report (`_finalize_draft_for_lost_job`).

What is hard: workers die at any point; no call of the queue checks who owns a
row, so exclusion rests on thresholds (10 and 30 minutes) against the time a
handler takes; `mark_failed` reads and writes the counter in two statements; the
reaper, an admin and a dying worker may all write the same row.

Correct means: no two live workers on one job; a live worker's job is not taken
away; each attempt is charged once; the retry budget bounds the tries; a verdict
stands; every job is settled in the end; orphans are recovered.

### 1.2 Draft pipeline - `app/docs/*_handler.py`, `app/docs/status.py`, `app/docs/upload.py`, `app/docs/version_model.py`, `app/docs/routes/_lifecycle.py`

State: per draft a row of `drafts` (status and a mirror of the latest version's
columns), the rows of `draft_versions` (each with its file, graph URI, parsed
text and status), `draft_entities`, `impact_reports`, the draft's jobs, and the
encrypted files, exports and named graphs that the database rows name.

Operations: upload of a draft, upload of a new version, the handlers
`parse_draft`, `extract_entities`, `analyze_impact`, which enqueue each other,
the user's retry, reanalyze and delete, the cleanup job, and the finalisation by
the reaper.

Interactions: the routes run concurrently with the handlers of the same draft;
both write the status through `update_draft_status`, which writes the latest
version's row and then the draft's row, with or without a guard on the latter.

What is hard: a handler reads the draft, works for minutes, and writes to
"the latest version", which may be another one by then; enqueueing the next
stage comes after the commit and may fail, or be repeated by a retry; the parent
check of a version upload comes before the advisory lock; a retry deletes jobs
that a live handler is still working on; cleanup fails half-way.

Correct means: the draft's row and its latest version agree; a draft that is not
in a terminal state has a job that will move it; a report is attached to the
version whose text it was computed from; at most one version is in progress; a
deleted draft leaves nothing behind.

### 1.3 Ontology sync - `app/sync/`, `app/admin/sync.py`, `scripts/sync.py`, `app/main.py`

State: the commit at the head of the ontology repository, the table `sync_log`,
the dedup table `webhook_deliveries`, the one-row flag `sync_rerun_request`, a
PostgreSQL advisory lock held by one connection for a whole run, the admin
page's in-memory flag, Fuseki's staging graph and its default graph.

Operations: the webhook (dedup, recency check, flag or spawn), the admin's
button, the command line, the run itself (lock, row, clone, convert, validate,
staging upload, verification against a floor, promotion by COPY, cleanup, log,
RAG ingestion, release, drain of the flag, rerun), and startup cleanup.

Interactions: pushes, redeliveries and clicks race with running syncs, with the
30-minute bound on what counts as running, and with restarts.

What is hard: the flag is written by those who believe a run is going on and
read once by that run; the lock is lost with the connection; staging is one graph shared by all
runs; a failed count reads as zero; each of Fuseki, git and the database fails
at any step.

Correct means: one run at a time between lock and release; what is promoted is
what was uploaded and verified by the same run; a success row means that the
live graph holds that commit; the live graph does not shrink below the floor; an
accepted push is synced or reported, not forgotten, unless the database fails so
that nothing can be queued or reported.

### 1.4 Reports as files - `app/docs/report_routes.py`, `app/docs/export_handler.py`, `app/docs/docx_export.py`

State: the files in `EXPORT_DIR`, one name per draft, report and format.
Operations: the synchronous downloads (`full.docx`, `full.pdf`, `summary.docx`),
which render in a thread of the web server and send the file; the older export
job with its polled fragment and progress socket; their removal by the cleanup
job.  Hard: a download reads the draft and the report, renders for a while, and
writes although the draft may have been deleted since.  Correct means: the
plaintext renderings of a draft die with it; an export in progress is reused.

### 1.5 Chat - `app/chat/`, `static/js/chat.js`

State: conversations and their messages, per-socket tasks, the browser's
streaming flag, the hourly count of messages and the month's recorded cost.
Operations: send, stream with rounds of tools, stop, disconnect, regenerate,
edit; limits that are checked before the spend.  Hard: a stop cancels a turn
wherever it awaits; an event to a slow client times out while its socket is open; a thread the turn stopped waiting for still commits; a
regeneration races a stream; a placeholder row must be updated, deleted or
inserted by whichever way the turn ends; the count is read in one transaction and
used up in another.  Correct means: whatever happens, the thread is a dialogue; a
locked input has a turn that will try to unlock it; every turn ends; the limits hold up
to what is in progress.

### 1.6 Drafter - `app/drafter/`

State: a `drafting_sessions` row (step, status, the material of each step in JSON
columns), its jobs, the draft made for the integrated review.  Operations: seven
step forms, clause edits and regenerations, review, export; five kinds of jobs.
Hard: a form handler reads the session, awaits the form's body, and writes back
what it read; a job reads at its start and writes minutes later; forms are sent
twice, or from a page that is no longer current; the step is committed before its
job is enqueued.  Correct means: a step is earned by what the steps before it must
produce; a step that waits has a job; answers and verdicts are not undone; one
review draft, one notice.

### 1.7 Notifications - `app/notifications/`

State: the `notifications` table and a process-wide registry of sockets.
Operations: budget alerts to every administrator of an organisation, once a day
and kind, under an advisory lock; notices about drafts, sessions and annotations;
marking as read.  Hard: check and insert in one transaction among many checks; a
statement that fails aborts a transaction that goes on.  Correct means: all
administrators are told or none, once.

### 1.8 Channels - `app/docs/websocket.py`, `app/docs/status_events.py`, `app/docs/ws_export_progress.py`, `app/explorer/websocket.py`

State: registries of sockets, the event loop captured for other threads.  The
pages poll as well; nothing that is kept depends on a message.

### 1.9 Archive warnings - `app/jobs/archive_warning.py`

A daily scan by one thread warns the owners of drafts and sessions nobody has
touched; each row is read and warned in transactions of its own.

### 1.10 Authentication - `app/auth/`

Users with a token version, sessions with a rotated refresh token, login
attempts, reset tokens; the middleware that refreshes on the fly.

### 1.11 Other components

- LLM access (`app/llm/`): retries, cost records.
- Encrypted storage (`app/storage/`), RAG index (`app/rag/`), ontology queries
  (`app/ontology/`), impact analysis (`app/impact/`), evidence analyses
  (`app/analyysikeskus/`), explorer (`app/explorer/`), annotations
  (`app/annotations/`), dashboard, admin pages, e-mail, metrics, UI components:
  request/response code over the database and Fuseki with no protocol of its
  own.
- Database pool (`app/db.py`): every `get_connection()` takes a pooled
  connection; `close()` gives it back.  The limit is shared by all threads.
- Startup and shutdown (`app/main.py`): migration check, worker thread, stale
  sync rows, scheduled loops.


## 2. Plan

Done, in this order: the job queue, because everything asynchronous goes through
it; the ontology sync, because its triggers race by design; the draft pipeline,
because it is the product, and because it rests on what the queue promises; then
the two other long-running conversations between a user and the server, the chat
and the drafting wizard, and the limits both of them spend from.  Each of the six
then got its proofs: types, the safety and action properties the runs check, and
the two refinements.

| module | what it is |
| --- | --- |
| `JobQueue` | the table, the worker loop, the reaper, the admin's and the producers' writes |
| `SyncPipeline` | triggers, lock, run, promotion, rerun flag, restart |
| `LiveGraph` | the abstract specification that `SyncPipeline` implements |
| `DraftPipeline` | requests, handlers, renderings, cleanup and finalisation of one draft, over a reduced queue |
| `DraftLifecycle` | the abstract specification that `DraftPipeline` implements: the status as its reader sees it |
| `ChatTurn` | browser tabs, socket frames, turns and the rows of one conversation |
| `DraftWizard` | the forms and jobs of one drafting session |
| `CostBudget` | the hourly message limit, the monthly budget and its alerts |
| `X_proofs` | the theorems about each `X` of the six large modules, and their proofs |
| `MC*` | what TLC needs besides: symmetry sets, sizes |

To come, most important first:

1. `NeverStranded` and `ReportsAreTrue` for one worker that may die at any point:
   the token of section 5.4 is then also carried by an orphan until the reaper
   has repeated or finalised it.
2. An abstract job board (enqueue, lend to one worker, charge, settle) that
   `JobQueue` implements and whose steps the queues of `DraftPipeline` and
   `DraftWizard` take, so that the reductions are themselves checked.
3. `DraftPipeline`: an admin's retry of a draft's failed job, and the file that is
   stored before its row is committed.

## 3. The modules

### 3.1 JobQueue

State.  `jobs[j]` is the row of job `j`, `absent` before it is inserted and after
it is deleted; `nextId` the sequence; `workers[w]` the local variables of the
loop: how far it is (`pc`), the job, the attempts count of the snapshot
`claim_next` returned (`seen`), the count `mark_failed` has read (`read`), and
the time left to the next reaper pass.  `claims` and `grants` are history.

Time.  The code compares timestamps with `now()`.  A row carries its *age* since
the timestamp the code would compare (up to one more than its limit) and the
*wait* left until `scheduled_for`; `Tick` moves both, and does not move beyond
the bound a live worker is assumed to keep (`ClaimBound`, `HandlerBound`).

| action | code |
| --- | --- |
| `Enqueue`, `Cancel` | `JobQueue.enqueue`; the `DELETE` of retry, reanalyze and delete |
| `AdminRetry`, `Purge` | `_retry_job`, `_purge_completed` of the job monitor |
| `Reap`, `ReapError`, `NotYet` | `_maybe_reap`: a batch is reaped, fails, or is not due |
| `Claim`, `Idle` | `claim_next`: the oldest of the highest priority, or nothing |
| `MarkRunning`, `HandlerReturns`, `HandlerRaises` | `_tick`; a type without handler raises at once |
| `MarkFailedRead`, `MarkFailedWrite` | the two statements of `mark_failed` |
| `MarkSuccess`, `QueueError` | the last call; any call that raises ends the tick in `run_forever` |
| `Crash` | the process ends at any point and starts again |

Abstracted: `claimed_by` (written and never read by the queue), messages and
results; `created_at` order is id order; a transaction is one step, so `SKIP
LOCKED` is serialisation; jobs are due when they are enqueued, which is how every
producer calls `enqueue`; `max_attempts` is one number.

### 3.2 SyncPipeline and LiveGraph

State.  `head` is the last commit on main; a commit is its number and a graph the
commit whose triples it holds.  `requests[c]` says how far the webhook handler is
with the delivery of push `c`, `recorded` is `webhook_deliveries`, `rerun` the
row of `sync_rerun_request`, `adminFlag` the process's `_sync_in_progress`,
`lock` the run whose connection holds the advisory lock.  `runs[r]` is a thread
in `run_sync`: where it is, what it cloned, its row of `sync_log`, who started
it, and in which process.  `phantom` stands for a running row whose run is gone;
`accepted`, `reported` and `unlogged` are history: a push whose 200 was sent, one
whose failure a row of `sync_log` shows, and one that was given up without such a
row: the run failed and so did the update of its row, or it lost the lock, could
not queue a rerun (`"unqueued"`) and left no note, which a rerun never does
(`QueueRerun`, `NoteSkip`, `Fail`, `GivesUp`).  When a process ends, `accepted` is struck of
what only its threads knew (`Restart`, `CliExit`), so that `NothingForgotten` says
what it says of everybody else.

Actions.  `Deliver` splits on `has_recent_running_row` as the handler does;
`QueueDelivery` and `StoreDelivery` with `StartFromWebhook` are its two branches.
`AdminClick`, `AdminQueue`, `AdminStart` are `trigger_sync`; `CliStart` and
`CliExit` are `scripts/sync.py`.  `RunStep` is `run_sync` from `AcquireLock` to
`ReleaseLock`, `Drain` and `SpawnRerun`, one action per call that changes a table
or a graph, each with its failing outcomes; `Restart` is the process's death with
the clean-up of `main.py`, and `RowAges` the passing of 30 minutes.

Abstracted: conversion and SHACL validation are local to the clone and are one
step, `Clone`, that may raise; `AdminClick` reads the memory flag and the rows in
one step; the rerun thread takes over the slot of the thread that drains.

`LiveGraph` says what readers of the default graph may rely on: refreshes come
one at a time and publish a commit that is not older than the one that is live.
`SyncPipeline` implements it with `busy` mapped to `lock # NoRun`.

### 3.3 DraftPipeline

State.  `draft` is the row of `drafts` (with the entities of `draft_entities`),
`versions` the rows of `draft_versions`, `reports` those of `impact_reports`,
`files` and `graphs` the versions whose encrypted file and named graph exist,
`exported` whether a rendering of one of its reports does.  A
content is the number of the version whose file it comes from, so that "the
report of version 2 was computed from the text of version 1" can be said.
`requests[t]` is a request between its read, its transaction and its enqueue;
`workers[w]` what a handler holds.

The queue is reduced to what `JobQueue` establishes: a job is held by one live
worker (`NoDoubleRun`, `LiveJobKept`), attempts are charged, and a job whose
holder is gone is reaped.  Any pending job may be claimed next, because backoff
lets a younger job overtake; claimed and running are one state, `held`; a job
that is done is forgotten unless it is a cleanup that failed for good.

Actions.  `Check` is the handler's read and early return.  `Upload`, `Retry`,
`Reanalyze`, `ReportReanalyze`, `Collect` and `Delete` are the transactions,
`EnqueueFirst` or `EnqueueLost` what follows.  `Download` is what the report
page's buttons run, `Export` the click that enqueues (or reuses) an export job,
and `LoadReport`, `Rendered`, `ExportFails` that job.  A handler is `Load`, `Mark`, its
outside work (`PutGraph` for the analysis; otherwise it is the time between two
steps), its final transaction (`Parsed`, `Extracted`, `Analyzed`), `EnqueueNext`
and `FinishJob`; `LoadFails`, `MarkFails`, `WorkFails` and `MarkFailed` are its
error paths.  `SetStatus` is `update_draft_status`: the latest version's row
first, unguarded, then the drafts row, guarded.  `Reap`, `FinalizeRead` and
`FinalizeWrite` are the reaper's pass over one orphan.

`Env` says which faults an instance has.  Without `"race"`, nothing falls between
what a request has read and what it writes (`Undisturbed`, `Quiet`).

`DraftLifecycle` is the status machine of migration 005 with the promise that
`ready` comes with the report of the version that is ready.  `DraftPipeline`
implements it with the status a reader gets through the version join.

### 3.4 ChatTurn

State.  `messages` is the set of rows of one conversation, ordered by `at` as the
history query orders them by `created_at`, and `now` gives the next `id` and
`at`; `turns[t]` the locals of a `handle_message` task (its phase, the user row
it answers, its placeholder, whether text has come, the tool rounds);
`tasks[b]` the entry of the socket's registry; `ui[b]` what the tab's input is
waiting for, `"lost"` when the event it waits for was not delivered; `frames[b]`
what the tab has sent and no handler has taken.

| action | code |
| --- | --- |
| `Send`, `ClickStop`, `Rewind`, `Drop` | `chat.js`; `regenerate_handler`, `edit_message_handler`; a closed socket |
| `StartTurn`, `StopTurn` | `_drive_orchestrator`, `_handle_stop_generation` |
| `Load`, `Persist`, `LatePersist`, `Prepare` | the phases before the stream, with their refusals and timeouts |
| `Delta`, `CallTools`, `RunTool`, `Complete`, `After` | `_run_stream_loop`, the terminal events, the follow-ups |
| `Break`, `SocketDies`, `Stopped` | the three ways a stream is cut off, each through `_persist_partial_assistant` |

Abstracted: what is said; the sources and the encryption of rows; an event takes
effect in the tab in the step that sends it, or never.  `Tell` is `_safe_send` of a
turn's last event: it unlocks the tab, or times out (`"send"` in `Faults`) and the
exception is swallowed.  An event that is not the last and times out ends the turn
without another (`Unsendable`: `SocketDies`, and the last branches of `Prepare` and
`Complete`); so does one to a closed socket (`Gone`), whose tab has loaded the page
again and waits for nothing.  Frames of one socket are handled
side by side, as `tests/test_chat_websocket.py` drives the handler: the stop frame
is served while the turn of an earlier frame streams.  `Cancelled` is
`task.cancel()` at the await the turn is suspended in; only the streaming phase
catches it.  A user row whose insert a thread still carries out is `late`.

### 3.5 DraftWizard

State.  `session` is the `drafting_sessions` row with each JSON column reduced to
what the guards and the handlers tell apart (which questions have answers, which
outline the clauses were written for, which clause was edited or regenerated
last); `jobs` the session's jobs; `requests[r]` a form request between its read of
the session and the rest of its handler, which runs without another `await`;
`drafts` the drafts made for the review; `notices` the notifications.

`Receive` is the read, `SubmitIntent` to `Notify` the rest, one action per form.
`Leave` is the transaction of a step form with `advance_step`'s guard and the
enqueue that follows the commit.  `StartJob`, `FinishJob`, `FailJob` are the five
handlers of `handlers.py`; `Retried` is the worker's verdict.  `Again` names the
forms that may be sent twice or from an old page; `Faults` adds a failing enqueue
and a job that is repeated after it has committed (both violate `StepHasItsJob`
or repeat what a job has done, and are in no regular run).  A download is two
steps, `Export` and `Notify`, and two downloads may overlap, since `export_docx`
runs in the thread pool; the regular run has them one after another, and
`WizardNotice.cfg` at once (section 7).

Abstracted: the text; the law variant, intent notes, sharing and the list of
sessions; a worker holds a job until it ends (see `JobQueue`).

### 3.6 CostBudget

State.  `messages` and `usage` are what the two checks sum, split by whether it
`passed` a check or was let through because the check could not be made;
`budgetLock` and `alertLocks` the advisory locks; `alerts` counts notification
rows per type, day and administrator; `calls[c]` a turn, or a wizard's job, and
the thread that checks the budget for it, which may outlive the turn's patience
(`StopWaiting`).

`StartTurn`, `SaveMessage`, `SumLocked`, `SumFails`, `Decide` (which is `Passed` or
`Refused`), `Talk` are
`check_message_rate`, the insert, `check_org_cost_budget` and the recording of a
call's cost; `StartJob` is the wizard's check, which takes no lock.  `OpenAlert`,
`TakeAlertLock`, `FindAlert`, `InsertAlerts`, `CommitAlerts` are the statements of
`_fan_out_cost_alert`, among them what PostgreSQL does with a transaction in which
a statement has failed.  `Sent` is the query `created_at >= date_trunc('day',
now())`: rows since the day on which its transaction began, those of the next day
included when midnight has passed meanwhile.  `DayPasses` is midnight, and may end
the month or the hour.  The push to open sockets after the commit is left out.

## 4. The runs

`tlc -config X.cfg M` with the module named in `PROJECT.json`.  States are
distinct states, after symmetry.

| run | states | asks |
| --- | --- | --- |
| `queue_timely` | 358,954 | two workers that keep the thresholds: no double run, exact charges, verdicts that stand |
| `queue_live` | 14,948 | one worker that does not keep them: every job is settled |
| `sync_faults` | 111,097 | two pushes, redelivery, every call may fail, slow syncs |
| `sync_crash` | 1,083,069 | restarts, the command line, the admin's clicks, failing counts, forgotten deliveries |
| `sync_live` | 20,054 | a queued push is synced or reported |
| `drafts_serial` | 208,431 | two workers, up to three versions, uploads, retries and deletes; implements `DraftLifecycle` |
| `drafts_faults` | 2,134,183 | one worker, every request but delete and the downloads, every fault |
| `drafts_live` | 573,913 | one worker that may die anywhere, downloads and exports: drafts end, deleted ones leave nothing |
| `drafts_mirror` | violation | two retries at once |
| `chat_turns` | 192,719 | stops, timeouts, lost sockets, failing writes and undelivered events at every point of a turn |
| `wizard_steps` | 134,895 | the steps with their jobs, forms sent twice or late |
| `budget` | 1,795,146 | limits and alerts under concurrent turns and jobs |

**Bounds of the queue.**  Two jobs let one overtake the other by priority,
age or backoff and let a reaper's batch (of one) leave one behind; two workers
give every interleaving of two holders of one row; two attempts give a first, a
last, and after an admin's retry one beyond the budget.  Timeouts, backoff unit
and handler bounds are one tick, so that "just within", "just beyond" and
"much later" all occur.  The unregistered job type is the path without handler.

**Bounds of the sync.**  A run slot is a thread in `run_sync`; with two, one can
hold the lock while the other loses it, drains, or starts.  Two pushes give an
older and a newer commit; `Sizes` (5, 4, 3 triples) make the second commit pass the
80% floor of the first and fail that of the initial graph, and `MinTriples` 2
sits below them.  The instances differ in `Env`, which names what may go wrong.
`NothingForgotten` counts a push as forgotten when something survived that knew of
it: a run that has been spawned and dies with its process before it clones loses
its push (a hazard listed in `PROJECT.json`), and such pushes are struck from
`accepted`.  `sync_faults` has failing database calls, with which a push can be
forgotten (section 7); its `ForgottenIsUnlogged` says that this takes a run that gave
the push up and could not write a row of `sync_log` either.  `NothingForgotten` itself
is checked in `sync_crash`, where the database answers.  `sync_crash` has one push, with which a crash, a command-line sync, a
click and a redelivery fit into one behaviour.  A startup clean-up that fails
(`Env = {"crash", "cli", "db", "admin"}`, 8.7 million states) was checked
without error too (with `ForgottenIsUnlogged`), and takes too long for a regular run.

**Bounds of the drafts.**  Three versions are what it takes for a version to be
superseded while the one before it is already old.  Three slots hold a pipeline
job, its repeated predecessor, and a restart's; a fourth, in `drafts_live`, an
export.  Two attempts (the code has three) give a first and a last one.  In
`drafts_live` a worker dies only while `SpareSlots` slots are free: otherwise
orphans could fill the slots, which in the code are table rows without limit.
The instance has no retry, which multiplies its states beyond reach; retries are
in `drafts_serial`, where `NeverStranded` says that something will move the draft.
Without `"race"` a download is not overtaken by a delete (section 7 has the
instance where it is).  With several workers a live draft's job can
be reaped beside its own repetition, and `MirrorAgrees` and `NothingLeftBehind`
do not hold under crashes; crashes are therefore checked for the default
deployment, one worker.  `drafts_faults` leaves `NeverStranded` out because some
of its faults do strand a draft (section 7).

**Bounds of the chat.**  One tab, two turns, two rounds of tools each: a round
that follows a round, and a turn that follows one that was cut off.  One socket
is lost; every write fails, and every event times out, at will (`Faults`), so
`WaitIsJustified` says that a tab waits for something that is to come or has lost
an event; that it has lost none (`LockIsJustified`) is section 7's.  One message
is regenerated or edited, while nothing streams (section 7 has the instance where
something does).

**Bounds of the wizard.**  Two requests are two copies of a form, or a form and a
later one; one clause and two questions, of which one must be answered; one
worker with two attempts; six jobs, which is every step's job and one repetition;
two drafts, so that a second review draft could be made.  `Again` has the clause,
the drafting and the review forms sent twice.

**Bounds of the limits.**  Two turns and one job share one organisation with two
administrators.  `Budget` 5 and a cost of 4 put the first call below the warning
at 80%, which is 4, at it, and over the budget; one message an hour makes the
second turn's check matter; two days see midnight between check and alert, and
between the two steps of an alert that finds the other check's rows of the new
day: such a refusal has no alert of its own day, and is announced on the day
after.  No turn starts above `MaxUsage`, one database call fails.

**Deadlock** is checked in every run of the queue and the sync.  The others say
`CHECK_DEADLOCK FALSE`, because their instances do end: a draft after its delete
and cleanup, or with all versions used up; a conversation whose turns are used
up; a finished drafting session; an organisation after its last day.

**Fairness.**  `JobQueue`: time passes and a worker's loop goes on (weak); a
reaper pass that is due and a claim that is possible again and again are taken in
the end although crashes and failing queries get in between (strong: the loop
tries both on every round).  Crashes, database errors, cancellations and admins
owe nothing.
`SyncPipeline`: weak fairness for each thread in `run_sync`, each webhook handler
that has a request, and the admin's handler; nobody has to push, click or
redeliver, and no timeout is assumed to fire.  `DraftPipeline`: strong fairness
for a worker's steps and claims, since the window of a request (an artefact of
`Quiet`) and a death in between do not stop it for ever; weak fairness for a
request that has begun.  `PipelineEnds` is about users who do not click export for
ever: exports have a higher priority than the pipeline, and the queue has no
ageing, so endless exports would starve it.  `ChatTurn`: weak fairness for the
steps of a turn that has begun, each of which is bounded by a deadline of its
phase; what the language model answers is its choice.  `DraftWizard`: weak fairness for
the worker, none for the forms.  `CostBudget` has no liveness property, and needs
no fairness.

Each property has a mutated definition in its module, marked `Mutant:`, that
makes the run fail: an omitted guard, a missing charge, a lock not kept, a stage
not enqueued.

## 5. The proofs

`tlapm` checks six modules, each beside the module it is about.  A theorem holds
for every value of the constants that satisfies the module's assumptions (numbers
are natural, sets of names do not meet) and the hypotheses named below; the runs
show the same property on a small instance.  Every safety property and every
action property that a regular run checks is stated by a theorem.

A hypothesis that the code itself does not guarantee is one that TLC shows to be
needed: without it there is an instance, named here or in section 7, that violates
the property.

### 5.1 JobQueue

No hypothesis besides `DeploymentAssumption`: either every live worker is done
within the reaper's thresholds (`Timely`), or there is one worker (`Solo`).  The
backoff is any natural number, because exponentiation is beyond the SMT backend.

- `TypeCorrect` (`TypeOK`), `NoDoubleRun` (`ExclusiveExecution`), `LiveJobKept`
  (`LiveJobIsNotTaken`).  No call of the queue checks who holds a row, so
  exclusion is not inductive by itself.  What carries it is `IndInv`: ids that
  were not handed out have no row (`FutureIsAbsent`), and the row of a live
  worker, if it is still there, has the status of the worker's phase and *is no
  older than the work* (`WorkIsMarked`).  `LiveIsNotStale` is the argument the
  thresholds were chosen for: a worker that reaps is idle; another's row is no
  older than its work, which is within the bound, which is within the threshold.
- `AttemptsAreExact` (`ClaimsAreCounted`), `PoisonIsGivenUp` (`BudgetIsRespected`),
  `LastAttemptTold` (`LastAttemptIsAnnounced`), `VerdictsAreFinal`
  (`VerdictsStand`).  On top of `IndInv`, `ReadingsHold` says that the attempts
  count a busy worker has read is still the row's, although it was read in an
  earlier transaction; `LifeOfAJob` reduces every action to one of six things that
  can happen to a row, and `Accounted` is the ledger they keep: claims are the
  attempts charged, plus the one under way, and a pending job has tries left.

### 5.2 SyncPipeline

No hypothesis for `TypeCorrect` (`TypeOK`), `OwnStagingPromoted`
(`PromotesOwnStaging`), `SuccessTrue` (`SuccessIsLive`), `PushesRemembered`
(`ForgottenIsUnlogged`), `Refinement` (`ImplementsLiveGraph`) and
`LiveGraphIsNotTiny`: any number of runs and pushes, any sizes, every fault.

`IndInv`: the lock is the run's that is between `AcquireLock` and `ReleaseLock`
(`LockIsHeld`, which the code never says: it compares nothing); only pushes that
have happened are delivered and synced (`PastIsKnown`); and `HolderInv`,
what a run may rely on phase by phase (its commit is not older than the live one;
from the verification on the staging graph is its own; from the COPY on the live
graph is).  The refinement follows: the only step that makes the live graph whole
is the holder's, and its commit is not older.

- `NoPushForgotten` (`NothingForgotten`) supposes that the database does not fail
  (`"db" \notin Env`); then every run that gives up says so in `sync_log`
  (`AllLogged`), and `ForgottenIsUnlogged` leaves no push to be forgotten.
- `RegressionProtection` (`LiveGraphDoesNotShrink`) supposes that the SPARQL
  counts do not fail (`"count" \notin Env`); section 7 has the instance where one
  does.  It needs that the graph whose size was compared stays live until the
  COPY (`Verified`), which the lock gives.

### 5.3 CostBudget

No hypothesis: `TypeCorrect` (`TypeOK`), `LocksReturned` (`LocksAreGivenBack`),
`AlertsWhole` (`AlertsAreWhole`), `OvershootsBounded` (`OvershootsAreBounded`).

`IndInv` ties each call to its check (`Phase`), each advisory lock to the call
between its taking and its release (`LocksAgree`), and says what a transaction
that inserts alerts may rely on (`AlertInv`): from the deduplication to the COMMIT
nobody else writes rows of that alert, and a check that goes on without sending
leaves the alert announced (`Announced`), on its day or on a later one.  The bound on the overshoot counts, for the
messages, the turns that have passed and not yet saved (`RateInv`), and for the
money a set of tokens, one per call of the model that is still due (`CostInv`):
every step spends a token or keeps them, and a call passes only below the limit.
The sets are finite; `FiniteSetTheorems` gives what is needed of their sizes.

### 5.4 DraftPipeline

- `TypeCorrect` (`TypeOK`): no hypothesis.  `TypeInv` adds what handlers and
  requests know in each phase.
- `OlderVersionsStayReady` (`OlderVersionsAreReady`): undisturbed requests
  (`"race" \notin Env`) under every fault, or `Serial`.
- `CopiesAgree` (`MirrorAgrees`): undisturbed requests with one worker or without
  crashes, or `Serial`.  `drafts_mirror` is the run in which two requests at once
  violate it.
- `NobodyStrands` (`NeverStranded`): `Serial`, and no enqueue fails.
- `ReportsStayTrue` (`ReportsAreTrue`) and `Refinement` (`ImplementsLifecycle`):
  `Serial`.
- `NothingIsLeft` (`NothingLeftBehind`): one worker, which may die anywhere, no
  failing enqueue, and requests that are not in each other's way (`Orderly`).

`Serial` is one request at a time (jobs run in between), no lost attempt, a
database that answers, and no use of the two reanalyze buttons.  No part of it can
go: change `DraftsSerial.cfg` as follows and TLC finds

- with two tabs: `OlderVersionsAreReady` violated;
- with `"db"` in `Env`: `NeverStranded` violated;
- with `"crash"` in `Env`: each of the five violated (two workers
  run copies of one job);
- with `"report"` or `"reanalyze"` in `Op`: `ReportsAreTrue` and
  `ImplementsLifecycle` violated (a report page's reanalysis of version 1 that an
  upload overtakes marks version 2 ready before it is parsed).

`SerialInv` is a token argument: as long as a draft is in progress exactly one of
its requests, jobs or handlers `Carries` it (`OneCarrier`), the status fits the
carrier's stage (`CarriersFit`), and what the next stage will read is of the
latest version (`DataFit`).  Each stage hands the token on: the transaction that
moves the status, then the enqueue, then the end of the job.  The slot of a job
stays its worker's even when its row is deleted meanwhile (`SlotsAgree`).
`LeftInv` is about deleted drafts: from the delete on, somebody has *custody* of
the list of all that is left (the request, the cleanup job or its handler), or
nothing is left and no handler can write any more.

### 5.5 ChatTurn

- `TypeCorrect` (`TypeOK`) and `WaitJustified` (`WaitIsJustified`): no hypothesis.
  `WaitInv` follows the last frame of a locked tab: it asks for a turn, or has
  become one that is generating.  A tab that an event did not reach is excepted.
- `LockJustified` (`LockIsJustified`): the exception goes when no event to an open
  socket times out (`"send" \notin Faults`), since then no tab is ever `"lost"`.
- `RepliesAreWhole`: the part of `ThreadIsADialogue` that holds however often and
  whenever the thread is rewound: one assistant row per turn at most, a complete
  reply behind its tools, no empty bubble after an interruption.
- `DialogueHolds` (`ThreadIsADialogue`): no rewind is asked for while a turn runs
  (`~RewindsAnytime`); `ChatRewind.cfg` is the instance where one is.

`ThreadInv` names a turn's assistant row by the id the turn remembers
(`ReplyIsKnown`), which is what makes "at most one row" survive the rows that
rewinds delete, and keeps the prompt of a turn under way (`PromptIsThere`).

### 5.6 DraftWizard

- `TypeCorrect` (`TypeOK`) and `ReviewHasOneDraft`: no hypothesis.
- `SessionHolds` (`SessionHangsTogether`) and `NothingUndone` (`NothingIsUndone`):
  `Orderly`, that is, only the clause, drafting and review forms are sent twice or
  from old pages, and no job is repeated after it has committed.  Enqueues may
  fail.
- `StepsHaveJobs` (`StepHasItsJob`): `Orderly`, and no enqueue fails.

`Orderly` cannot be weakened by a single form: with `Again` the set of just one
other form, or with `"rerun"` in `Faults`, TLC finds one of the three properties
violated in the instance of `wizard_steps` with two workers (intent, clarified and
researched violate `StepHasItsJob`, outline and export `SessionHangsTogether`,
answer `NothingIsUndone`).

`SessionInv`: each step has one job at most, which has succeeded when, and only
when, its result is there (`JobIs`); so a step's job that runs is the *current*
step's, and its page waits (`RunningIs`).  An abandoned session stays at the step
whose job has failed (`EndsHold`), which is why an export cannot follow; an early
form that is open is of the current page and alone (`FormsHold`); and what a job
or a clause form has read of the outline is still so when it writes (`ReadsHold`),
because the outline is written only before there are clauses.

### 5.7 What stays with TLC

- Liveness: `EveryJobIsSettled`, `QueuedPushIsSynced`, `PipelineEnds`, `TurnEnds`
  and `WaitEnds` rest on fairness, and so on `ENABLED`, which this version of the
  prover does not reason about.
- The properties of the instances in section 7, which are there to be violated.
- The properties of the drafts outside the hypotheses above, as far as the runs
  show them: `MirrorAgrees` and `OlderVersionsAreReady` are proved for
  `drafts_faults` too; `NeverStranded` with one worker that may die
  (`Env = {"crash"}` in `DraftsFaults.cfg`, 1.3 million states) is only checked.
- That the queues of `DraftPipeline` and `DraftWizard` are reductions of
  `JobQueue`: an argument in section 3, not a theorem.

## 6. What is not modelled

- Sessions and authentication: what one would state about them are security
  properties, which this project does not treat.
- Archive warnings: each row is read and warned on its own, by one thread of one
  process; several processes would each warn (a deployment the code does not
  have).
- Of the chat: forks, titles (the automatic title is written without looking
  whether the user has renamed the conversation meanwhile), the sources of an
  answer, export of a conversation.
- Of the wizard: the law variant, sharing, and the export of a finished text.
- Of the reports: layout, the polled fragment and the progress socket; two
  threads that write the same path side by side.
- Of the drafts: stale flags, similarity and notifications after a report;
  reviews, linking, keep; the admin's retry of a draft's failed job.
- The WebSocket channels, and the pushes of notifications: best-effort, nothing
  kept depends on them.
- Conversion, validation, impact scoring, ontology queries, rendering:
  functions of their input without shared state.
- The connection pool, and with it a session that loses its advisory lock while
  its run goes on, or keeps it when a connection goes back to the pool.
- Fuseki applying an update after it has reported a failure and a later update
  has been made.
- A file stored by an upload whose process dies before the commit.
- Starvation of low priorities: the code has no ageing; `EveryJobIsSettled`
  is checked with one priority, and `PipelineEnds` for users who stop exporting.
- Annotations, explorer, dashboard, evidence analyses, admin pages, e-mail:
  requests that read, or write one row.

## 7. Findings

One promise of the repository is refuted by a regular run, `drafts_mirror`, and
`PROJECT.json` quotes it: `update_draft_status` guards the `drafts` row by
`expected_status` and not the version's row.  The loser of a race is told that
nothing was changed, and has set the version's status.

The following instances are kept beside the runs; TLC finds each of them violated.

| instance | fails | against |
| --- | --- | --- |
| `SyncStranded.cfg` | `AcceptedPushIsSynced`: a push that loses the lock queues a rerun, which the running sync has already drained; nobody looks at it until some unrelated trigger | `webhook.py:82-87` "so the push's commit is never lost" |
| `DraftsAttach.cfg` | `ReportIsOfItsVersion`: the version is looked up when the report is written, minutes after the draft was loaded; one uploaded in between gets its predecessor's report, and is ready before it is parsed | `analyze_handler.py:262-266` "so a v3 parallel upload mid-analyze cannot retro-attach this report to the wrong version" |
| `DraftsExport.cfg` | `RenderingsDieToo`: a download that has read the report writes its file after the cleanup has looked for files (`report_routes.py:2530`) | `cleanup_handler.py:178-180` "plaintext derivatives of the encrypted draft and must die with it" |
| `ChatStop.cfg` | `StopIsAnswered`: only the streaming phase catches the cancellation (`orchestrator.py:1712`); a turn that is stopped before it streams says nothing, and the tab stays locked | `websocket.py:283-284` "The actual ``stopped`` event is emitted by the orchestrator's ``CancelledError`` branch" |
| `ChatLost.cfg` | `LockIsJustified`: `_safe_send` gives up an event after five seconds also when the client is there and merely slow, and the turn's last event (`orchestrator.py:977`, 1708, 1893) is then swallowed; the tab stays locked until its user presses stop or reloads | `orchestrator.py:28-29` "so streaming aborts cleanly when the client has gone away" |
| `ChatGate.cfg` | `OneTurnPerTab`: a turn takes itself off the registry by its conversation's name (`websocket.py:259`), which is the next turn's entry by then; a stop does not find that one, and a third runs beside it | `chat.js:1041-1046` "no path can bypass it" |
| `ChatRewind.cfg` | `ReplyHasPrompt`: a regeneration deletes messages while a turn streams, which then inserts its reply behind them | `chat/handlers.py:764-765` "it cannot race against an in-flight stream" |
| `WizardStuck.cfg` | `StepHasItsJob`: a second copy of a form overwrites what the step's job has produced (`drafter/routes.py:625`), and no job is left that would produce it again | `_step_renderers.py:239` "No job enqueued yet -- shouldn't happen" |
| `WizardNotice.cfg` | `OneNotice`: two downloads at once, which the thread pool runs side by side (`drafter/routes.py:1341`), both find no notice and insert one each | `wire.py:231` "Deduped per session" |
| `WizardEdit.cfg` | `EditsAreKept`: a clause's regeneration writes back all clauses as they were minutes ago | `drafter/handlers.py:1063` "Regenerate a single clause via LLM and update the session." |

The same modules show more when an instance is widened; each item names the
change that makes TLC find it.

- `SyncFaults.cfg` with `NothingForgotten`: it fails.  A rerun that loses the lock
  and cannot queue itself again writes no row (`sync/orchestrator.py:584-600`, against
  376-379 "so operators can see in the admin history that a concurrent trigger was
  correctly skipped rather than silently dropped"); the other losers' note, and the
  row of a run that fails, can be lost to the same database failure.
- `SyncFaults.cfg` with `"count"` in `Env`: `LiveGraphDoesNotShrink` fails.  A
  count that fails reads as zero and switches the 80% floor off
  (`jena_loader.py:488-509`, against `orchestrator.py:710-712`).
- `DraftsSerial.cfg` with `"enq"` in `Env`: `NeverStranded` fails.  After a failed
  enqueue the draft stays `uploaded` or `analyzing`; no button and no admin page
  brings it on (`upload.py:548-550`, `retry_handler.py:195-197`,
  `_lifecycle.py:412-413` say otherwise).  `"db"` strands one too, and so do
  `"crash"` and `"reap"` together (`DraftsFaults.cfg`).
- `DraftsSerial.cfg` with `"reanalyze"` in `Op`: `ReportsAreTrue` fails.
  Reanalyze is offered for a draft that failed in parsing, and analyses it with
  the entities of its previous version (`_lifecycle.py:331`, against 400-403).
- `DraftsSerial.cfg` with two tabs and `OlderVersionsAreReady` alone: it fails.
  The parent's status is read before the lock that numbers the versions
  (`upload.py:694`, against 692-693).
- `DraftsLive.cfg` with two tabs, `Op = {"upload", "delete"}` and `"race"` in
  `Env`: `NothingLeftBehind` fails.
  The second of two deletes purges the cleanup job of the first
  (`_lifecycle.py:132`).
- `DraftsSerial.cfg` with `NothingLeftBehind`: it fails.  With two workers the
  cleanup can overtake a running analysis, which then puts the deleted draft's
  graph back (`analyze_handler.py:193`).

And one without an instance, since nothing that is kept depends on it: the alert
fan-out announces rows "now durable" (`notifications/wire.py`, around 587) that
PostgreSQL has rolled back when an earlier statement of the transaction failed.
