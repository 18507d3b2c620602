------------------------------ MODULE JobQueue ------------------------------
(***************************************************************************)
(* The PostgreSQL-backed job queue of app/jobs/queue.py and the worker     *)
(* loop of app/jobs/worker.py that drains it, with the three other parties *)
(* that write the background_jobs table: producers that cancel the jobs of *)
(* a draft, the admin's retry button and the admin's purge.                *)
(*                                                                         *)
(* One action is one committed transaction, or one step of a worker        *)
(* between two transactions.  mark_failed is two actions, because it reads *)
(* the attempts counter with a plain SELECT and writes it back later.      *)
(*                                                                         *)
(* Time is discrete.  The code compares timestamps with now(); here a row  *)
(* carries its age since the timestamp the code would compare, and the     *)
(* time left until scheduled_for.  Tick advances them together.            *)
(***************************************************************************)
EXTENDS Integers, FiniteSets

CONSTANTS
    Worker,           \* worker threads, of one process or of several
    MaxJobs,          \* bound: how many jobs are ever enqueued
    JobType,          \* job_type values
    Registered,       \* those with a handler in _HANDLERS
    Priority,         \* priorities the producers use
    MaxAttempts,      \* the max_attempts column, one default for every row
    ClaimedTimeout,   \* claimed_timeout_s
    RunningTimeout,   \* running_timeout_s
    ReapInterval,     \* reap_interval
    BatchLimit,       \* _REAP_BATCH_LIMIT
    Minute,           \* length of the backoff's unit
    Retention,        \* age after which the purge deletes a success row
    ClaimBound,       \* longest stay of a live worker between claim and mark_running
    HandlerBound,     \* longest stay of a live worker between mark_running and its verdict
    AdminRetryBound   \* bound: admin retries of one job

JobId == 1 .. MaxJobs
NoJob == 0

Backoff(attempts) == Minute * 2 ^ attempts

ASSUME SizesAssumption ==
    /\ MaxJobs \in Nat
    /\ MaxAttempts \in Nat \ {0}
    /\ {ClaimedTimeout, RunningTimeout, ReapInterval, BatchLimit, Minute,
        Retention, ClaimBound, HandlerBound, AdminRetryBound} \subseteq Nat

ASSUME BackoffAssumption == \A n \in 1 .. MaxAttempts : Backoff(n) \in Nat

ASSUME TypesAssumption == Registered \subseteq JobType /\ JobType # {} /\ Priority # {}

\* The two deployments the reaper's thresholds are chosen for: every live
\* worker is done within the threshold, or there is one worker only.
Timely == ClaimBound <= ClaimedTimeout /\ HandlerBound <= RunningTimeout
Solo == \A v, w \in Worker : v = w
ASSUME DeploymentAssumption == Timely \/ Solo

VARIABLES
    jobs,      \* the background_jobs table; a row that is not there is "absent"
    nextId,    \* the id sequence
    workers,   \* what each worker thread holds in its local variables
    claims,    \* history: how often each job was claimed
    grants     \* history: how often an admin retried each job

vars == <<jobs, nextId, workers, claims, grants>>

----------------------------------------------------------------------------
(* Rows and workers *)

InFlight == {"claimed", "running"}
Settled == {"success", "failed"}
Status == {"absent", "pending"} \cup InFlight \cup Settled

\* What the age of a row is compared with: the reaper's timeouts, and the
\* retention of finished jobs.  An age counts up to one more than its limit.
Limit(status) ==
    CASE status = "claimed" -> ClaimedTimeout
      [] status = "running" -> RunningTimeout
      [] status = "success" -> Retention
      [] OTHER -> 0

Row == [status : Status, type : JobType, priority : Priority,
        attempts : Nat, age : Nat, wait : Nat]

Blank == [status |-> "absent", type |-> CHOOSE t \in JobType : TRUE,
          priority |-> CHOOSE p \in Priority : TRUE,
          attempts |-> 0, age |-> 0, wait |-> 0]

Present(j) == jobs[j].status # "absent"

\* UPDATE ... WHERE id = j: a row that is gone is not matched.
Updated(j, row) == IF Present(j) THEN [jobs EXCEPT ![j] = row] ELSE jobs

WorkerState ==
    [pc : {"loop", "tick", "claimed", "running", "raised", "failing", "returned"},
     job : JobId \cup {NoJob},
     began : BOOLEAN,     \* mark_running has been committed for this job
     seen : Nat,          \* attempts in the snapshot claim_next returned
     read : Nat,          \* attempts as mark_failed has read it
     elapsed : Nat,       \* since the claim, then since mark_running
     reapIn : Nat]        \* until _next_reap_at

Started == [pc |-> "loop", job |-> NoJob, began |-> FALSE, seen |-> 0, read |-> 0,
            elapsed |-> 0, reapIn |-> 0]

Busy(w) == workers[w].pc \notin {"loop", "tick"}
Bound(w) == IF workers[w].began THEN HandlerBound ELSE ClaimBound

\* The worker drops its job and goes back to the top of run_forever.
Released(w) == [Started EXCEPT !.reapIn = workers[w].reapIn]
Release(w) == workers' = [workers EXCEPT ![w] = Released(w)]

----------------------------------------------------------------------------
Init ==
    /\ jobs = [j \in JobId |-> Blank]
    /\ nextId = 1
    /\ workers = [w \in Worker |-> Started]
    /\ claims = [j \in JobId |-> 0]
    /\ grants = [j \in JobId |-> 0]

(* Producers and admins *)

\* JobQueue.enqueue; no caller passes scheduled_for, so the row is due at once.
Enqueue(t, p) ==
    /\ nextId \in JobId
    /\ jobs' = [jobs EXCEPT ![nextId] =
                   [Blank EXCEPT !.status = "pending", !.type = t, !.priority = p]]
    /\ nextId' = nextId + 1
    /\ UNCHANGED <<workers, claims, grants>>

Deleted(S) == [j \in JobId |->
    IF j \in S THEN [jobs[j] EXCEPT !.status = "absent", !.attempts = 0,
                                    !.age = 0, !.wait = 0]
               ELSE jobs[j]]

\* A retry, reanalyze or delete of a draft deletes the draft's unfinished jobs.
Cancel(S) ==
    /\ S # {}
    /\ \A j \in S : jobs[j].status \in {"pending"} \cup InFlight
    /\ jobs' = Deleted(S)
    /\ UNCHANGED <<nextId, workers, claims, grants>>

\* Mutants: the retry that resets attempts, and the one that takes any row.
ResettingRetry(j) ==
    /\ jobs[j].status = "failed"
    /\ grants[j] < AdminRetryBound
    /\ jobs' = [jobs EXCEPT ![j] = [@ EXCEPT !.status = "pending", !.wait = 0, !.attempts = 0]]
    /\ grants' = [grants EXCEPT ![j] = @ + 1]
    /\ UNCHANGED <<nextId, workers, claims>>
UnguardedRetry(j) ==
    /\ Present(j)
    /\ grants[j] < AdminRetryBound
    /\ jobs' = [jobs EXCEPT ![j] = [@ EXCEPT !.status = "pending", !.wait = 0]]
    /\ grants' = [grants EXCEPT ![j] = @ + 1]
    /\ UNCHANGED <<nextId, workers, claims>>

\* job_monitor._retry_job: attempts is deliberately kept.
AdminRetry(j) ==
    /\ jobs[j].status = "failed"
    /\ grants[j] < AdminRetryBound
    /\ jobs' = [jobs EXCEPT ![j] = [@ EXCEPT !.status = "pending", !.wait = 0]]
    /\ grants' = [grants EXCEPT ![j] = @ + 1]
    /\ UNCHANGED <<nextId, workers, claims>>

\* job_monitor._purge_completed
Expired == {j \in JobId : jobs[j].status = "success" /\ jobs[j].age > Retention}
Purge ==
    /\ Expired # {}
    /\ jobs' = Deleted(Expired)
    /\ UNCHANGED <<nextId, workers, claims, grants>>

----------------------------------------------------------------------------
(* The reaper: JobQueue.reap_stale_jobs, run by _maybe_reap *)

\* Mutant: the cutoff is one instant early.
StaleTooEarly == {j \in JobId : jobs[j].status \in InFlight
                                /\ jobs[j].age >= Limit(jobs[j].status)}
Stale == {j \in JobId : jobs[j].status \in InFlight
                        /\ jobs[j].age > Limit(jobs[j].status)}
\* ORDER BY id LIMIT BatchLimit
Batch == {j \in Stale : Cardinality({i \in Stale : i < j}) < BatchLimit}

\* Mutant: a failed job is parked in a status that claim_next does not look at.
ParkedAfterAttempt(spent) == IF spent < MaxAttempts THEN "retrying" ELSE "failed"

\* The retry policy of mark_failed and of the reaper: one more attempt is spent.
AfterAttempt(spent) == IF spent < MaxAttempts THEN "pending" ELSE "failed"
Spent(row, spent, backoff) ==
    [row EXCEPT !.status = AfterAttempt(spent), !.attempts = spent, !.age = 0,
                !.wait = IF spent < MaxAttempts THEN backoff ELSE 0]

\* Mutants: the lost attempt is not counted, or given back.
UncountedReap(row) == Spent(row, row.attempts, 0)
RefundingReap(row) == Spent(row, row.attempts - 1, 0)

Reaped(row) == Spent(row, row.attempts + 1, 0)

ReapDue(w) == workers[w].pc = "loop" /\ workers[w].reapIn = 0

NextReap(w) == workers' =
    [workers EXCEPT ![w] = [@ EXCEPT !.pc = "tick", !.reapIn = ReapInterval]]

Reap(w) ==
    /\ ReapDue(w)
    /\ jobs' = [j \in JobId |-> IF j \in Batch THEN Reaped(jobs[j]) ELSE jobs[j]]
    /\ NextReap(w)
    /\ UNCHANGED <<nextId, claims, grants>>

\* The deadline was advanced before the pass, so a failed pass is not repeated.
ReapError(w) ==
    /\ ReapDue(w)
    /\ NextReap(w)
    /\ UNCHANGED <<jobs, nextId, claims, grants>>

NotYet(w) ==
    /\ workers[w].pc = "loop" /\ workers[w].reapIn > 0
    /\ workers' = [workers EXCEPT ![w].pc = "tick"]
    /\ UNCHANGED <<jobs, nextId, claims, grants>>

----------------------------------------------------------------------------
(* The worker: JobWorker._tick *)

Due == {j \in JobId : jobs[j].status = "pending" /\ jobs[j].wait = 0}

\* ORDER BY priority DESC, created_at ASC; ids are handed out in creation order.
Before(i, j) ==
    \/ jobs[i].priority > jobs[j].priority
    \/ jobs[i].priority = jobs[j].priority /\ i < j

Claim(w, j) ==
    /\ workers[w].pc = "tick"
    /\ j \in Due
    /\ \A i \in Due \ {j} : Before(j, i)
    /\ jobs' = [jobs EXCEPT ![j] = [@ EXCEPT !.status = "claimed", !.age = 0]]
    /\ workers' = [workers EXCEPT ![w] =
                      [@ EXCEPT !.pc = "claimed", !.job = j, !.began = FALSE,
                                !.seen = jobs[j].attempts, !.elapsed = 0]]
    /\ claims' = [claims EXCEPT ![j] = @ + 1]
    /\ UNCHANGED <<nextId, grants>>

\* Nothing is due: back to the loop after a pause.
Idle(w) ==
    /\ workers[w].pc = "tick" /\ Due = {}
    /\ workers' = [workers EXCEPT ![w].pc = "loop"]
    /\ UNCHANGED <<jobs, nextId, claims, grants>>

HasHandler(w) == jobs[workers[w].job].type \in Registered

\* Mutant: started_at is not set, so the row goes on ageing from the claim.
MarkRunningKeepsAge(w) ==
    LET j == workers[w].job IN
    /\ workers[w].pc = "claimed" /\ HasHandler(w)
    /\ jobs' = Updated(j, [jobs[j] EXCEPT !.status = "running"])
    /\ workers' = [workers EXCEPT ![w] =
                      [@ EXCEPT !.pc = "running", !.began = TRUE, !.elapsed = 0]]
    /\ UNCHANGED <<nextId, claims, grants>>

\* mark_running: by id alone, whatever the row's status and owner are now.
MarkRunning(w) ==
    LET j == workers[w].job IN
    /\ workers[w].pc = "claimed" /\ HasHandler(w)
    /\ jobs' = Updated(j, [jobs[j] EXCEPT !.status = "running", !.age = 0])
    /\ workers' = [workers EXCEPT ![w] =
                      [@ EXCEPT !.pc = "running", !.began = TRUE, !.elapsed = 0]]
    /\ UNCHANGED <<nextId, claims, grants>>

HandlerEnds(w, outcome) ==
    /\ workers[w].pc = "running"
    /\ workers' = [workers EXCEPT ![w].pc = outcome]
    /\ UNCHANGED <<jobs, nextId, claims, grants>>
HandlerReturns(w) == HandlerEnds(w, "returned")
HandlerRaises(w) == HandlerEnds(w, "raised")

\* Mutant: the handler is told how many attempts were spent, not which one this is.
ToldSpent(w) == workers[w].seen >= MaxAttempts

\* What the handler was told: this attempt is the last one.
ToldLast(w) == workers[w].seen + 1 >= MaxAttempts

\* mark_failed, the SELECT.  A job without a handler comes here from "claimed".
MarkFailedRead(w) ==
    LET j == workers[w].job IN
    /\ \/ workers[w].pc = "raised"
       \/ workers[w].pc = "claimed" /\ ~HasHandler(w)
    /\ IF Present(j)
       THEN workers' = [workers EXCEPT ![w] = [@ EXCEPT !.pc = "failing", !.read = jobs[j].attempts]]
       ELSE Release(w)
    /\ UNCHANGED <<jobs, nextId, claims, grants>>

\* mark_failed, the UPDATE: it writes back the counter it has read.
MarkFailedWrite(w) ==
    LET j == workers[w].job
        spent == workers[w].read + 1
    IN
    /\ workers[w].pc = "failing"
    /\ jobs' = Updated(j, Spent(jobs[j], spent, Backoff(spent)))
    /\ Release(w)
    /\ UNCHANGED <<nextId, claims, grants>>

\* mark_success: by id alone.
MarkSuccess(w) ==
    LET j == workers[w].job IN
    /\ workers[w].pc = "returned"
    /\ jobs' = Updated(j, [jobs[j] EXCEPT !.status = "success", !.age = 0])
    /\ Release(w)
    /\ UNCHANGED <<nextId, claims, grants>>

----------------------------------------------------------------------------
(* Failures and time *)

\* A queue call raised: run_forever logs it and goes on; the row stays as it is.
QueueError(w) ==
    /\ workers[w].pc \in {"tick", "claimed", "raised", "failing", "returned"}
    /\ Release(w)
    /\ UNCHANGED <<jobs, nextId, claims, grants>>

\* The process dies, wherever its worker is, and is started again.
Crash(w) ==
    /\ workers' = [workers EXCEPT ![w] = Started]
    /\ UNCHANGED <<jobs, nextId, claims, grants>>

Countdown(n) == IF n > 0 THEN n - 1 ELSE 0

Ages(row) == row.status \in InFlight \cup {"success"} /\ row.age <= Limit(row.status)
NextAge(row) == IF Ages(row) THEN row.age + 1 ELSE row.age

Older(row) == [row EXCEPT !.age = NextAge(row), !.wait = Countdown(@)]

Later(w) ==
    [workers[w] EXCEPT !.elapsed = IF Busy(w) THEN @ + 1 ELSE 0,
                       !.reapIn = Countdown(@)]

\* Time passes; a live worker gets on with its job before its bound is up.
Tick ==
    /\ \A w \in Worker : Busy(w) => workers[w].elapsed < Bound(w)
    /\ jobs' = [j \in JobId |-> Older(jobs[j])]
    /\ workers' = [w \in Worker |-> Later(w)]
    /\ UNCHANGED <<nextId, claims, grants>>

----------------------------------------------------------------------------
Producers ==
    \/ \E t \in JobType, p \in Priority : Enqueue(t, p)
    \/ \E S \in SUBSET JobId : Cancel(S)
    \/ \E j \in JobId : AdminRetry(j)
    \/ Purge

\* The steps of a worker that make progress.
Step(w) ==
    \/ Reap(w) \/ NotYet(w) \/ Idle(w)
    \/ \E j \in JobId : Claim(w, j)
    \/ MarkRunning(w) \/ HandlerReturns(w) \/ HandlerRaises(w)
    \/ MarkFailedRead(w) \/ MarkFailedWrite(w) \/ MarkSuccess(w)

Fault(w) == ReapError(w) \/ QueueError(w) \/ Crash(w)

Next ==
    \/ Producers
    \/ \E w \in Worker : Step(w) \/ Fault(w)
    \/ Tick

Spec == Init /\ [][Next]_vars

\* A live worker keeps running its loop, its handlers end, and time passes.
\* Strong fairness of the queue calls says that a database that fails, or a
\* process that is restarted, again and again, still gets through now and then.
Fairness ==
    /\ WF_vars(Tick)
    /\ \A w \in Worker :
        /\ WF_vars(NotYet(w) \/ Idle(w) \/ HandlerReturns(w) \/ HandlerRaises(w)
                   \/ MarkRunning(w) \/ MarkFailedRead(w) \/ MarkFailedWrite(w)
                   \/ MarkSuccess(w))
        /\ SF_vars(Reap(w))
        /\ SF_vars(\E j \in JobId : Claim(w, j))

FairSpec == Spec /\ Fairness

----------------------------------------------------------------------------
(* Properties *)

TypeOK ==
    /\ jobs \in [JobId -> Row]
    /\ nextId \in 1 .. MaxJobs + 1
    /\ workers \in [Worker -> WorkerState]
    /\ \A w \in Worker : Busy(w) => workers[w].job \in JobId
    /\ claims \in [JobId -> Nat]
    /\ grants \in [JobId -> Nat]

\* The status a row has while a live worker is at work on it.
Expected(w) == IF workers[w].began THEN "running" ELSE "claimed"

\* While a live worker is at work on a job, the row says so, unless the job was
\* cancelled: neither the reaper, nor an admin, nor another worker's late
\* mark_* call has put it back or settled it.  (queue.py:56-66, the threshold
\* rationale, and the mark_* UPDATEs, which check neither status nor owner.)
LiveJobIsNotTaken ==
    \A w \in Worker : Busy(w) =>
        LET j == workers[w].job IN Present(j) => jobs[j].status = Expected(w)

\* No job is being worked on by two workers at once (claim_next's SKIP LOCKED,
\* and the reaper's promise not to double-run a slow but live job).
ExclusiveExecution ==
    \A v, w \in Worker : v # w /\ Busy(v) /\ Busy(w) => workers[v].job # workers[w].job

\* Every claim of a job that is still there is charged to its retry budget,
\* except the one in progress and the one that succeeded: no crash, reap or
\* lost database call lets an attempt go uncounted or be counted twice.
ClaimsAreCounted ==
    \A j \in JobId : Present(j) =>
        claims[j] = jobs[j].attempts
                    + (IF jobs[j].status \in InFlight \cup {"success"} THEN 1 ELSE 0)

\* A poison job is tried max_attempts times, plus once for each admin retry.
BudgetIsRespected == \A j \in JobId : claims[j] <= MaxAttempts + grants[j]

\* A handler is told the truth about its attempt: the queue gives a job up after
\* a handler's exception exactly when the handler was told that attempt is the
\* last.  The handlers of app/docs mark the draft failed on that word alone.
LastAttemptIsAnnounced ==
    [][\A w \in Worker :
        LET j == workers[w].job IN
        MarkFailedWrite(w) /\ workers[w].began /\ Present(j)
            => (jobs'[j].status = "failed" <=> ToldLast(w))]_vars

\* A verdict stands: a successful job only leaves the table, and a failed one
\* comes back only because an admin asked for it.
VerdictsStand ==
    [][\A j \in JobId :
        /\ jobs[j].status = "success" => jobs'[j].status \in {"success", "absent"}
        /\ jobs[j].status = "failed" =>
               \/ jobs'[j].status = "failed"
               \/ jobs'[j].status = "pending" /\ grants'[j] = grants[j] + 1]_vars

\* Every job that is enqueued is settled or cancelled in the end, whatever
\* crashes: no row is stranded in claimed or running, and no job is retried
\* for ever.
EveryJobIsSettled ==
    \A j \in JobId :
        jobs[j].status \in {"pending"} \cup InFlight ~> jobs[j].status \in Settled \cup {"absent"}
=============================================================================
