--------------------------- MODULE JobQueue_proofs ---------------------------
(***************************************************************************)
(* Proofs about JobQueue, for any number of workers and jobs, any timeouts *)
(* and any retry budget that satisfy the module's assumptions.             *)
(***************************************************************************)
EXTENDS JobQueue, TLAPS

\* The facts about the constants that the provers need, in one place.
LEMMA Sizes ==
    /\ MaxJobs \in Nat /\ MaxAttempts \in Nat \ {0}
    /\ ClaimedTimeout \in Nat /\ RunningTimeout \in Nat /\ ReapInterval \in Nat
    /\ Retention \in Nat /\ ClaimBound \in Nat /\ HandlerBound \in Nat
BY SizesAssumption

LEMMA BlankIsRow == Blank \in Row
BY TypesAssumption DEF Blank, Row, Status

LEMMA StartedIsState == Started \in WorkerState
BY DEF Started, WorkerState

----------------------------------------------------------------------------
(* Type correctness *)

LEMMA ReleaseType ==
    ASSUME TypeOK, NEW w \in Worker, Release(w)
    PROVE  /\ workers' \in [Worker -> WorkerState]
           /\ \A v \in Worker : Busy(v)' => v # w /\ Busy(v) /\ workers'[v] = workers[v]
BY DEF TypeOK, Release, Released, Started, WorkerState, Busy

LEMMA NextReapType ==
    ASSUME TypeOK, NEW w \in Worker, workers[w].pc = "loop", NextReap(w)
    PROVE  /\ workers' \in [Worker -> WorkerState]
           /\ \A v \in Worker : Busy(v)' => Busy(v) /\ workers'[v] = workers[v]
BY Sizes DEF TypeOK, NextReap, WorkerState, Busy

LEMMA UpdatedType ==
    ASSUME TypeOK, NEW j, NEW row, Present(j) => row \in Row
    PROVE  Updated(j, row) \in [JobId -> Row]
BY DEF TypeOK, Updated

LEMMA SpentType ==
    ASSUME NEW row \in Row, NEW spent \in Nat, NEW backoff,
           spent < MaxAttempts => backoff \in Nat
    PROVE  Spent(row, spent, backoff) \in Row
<1> DEFINE wait == IF spent < MaxAttempts THEN backoff ELSE 0
<1>1. AfterAttempt(spent) \in Status
  BY DEF AfterAttempt, Status, Settled
<1>2. wait \in Nat
  OBVIOUS
<1> HIDE DEF wait
<1>3. [row EXCEPT !.status = AfterAttempt(spent), !.attempts = spent, !.age = 0,
                  !.wait = wait] \in Row
  BY <1>1, <1>2 DEF Row
<1> QED
  BY <1>3 DEF Spent, wait

LEMMA CountdownType == \A n \in Nat : Countdown(n) \in Nat
BY DEF Countdown

\* Time changes nothing of a row but its age and its wait.
LEMMA OlderType ==
    ASSUME NEW row \in Row
    PROVE  /\ Older(row) \in Row
           /\ Older(row).status = row.status
           /\ Older(row).attempts = row.attempts
           /\ Older(row).age \in {row.age, row.age + 1}
<1>1. NextAge(row) \in {row.age, row.age + 1} /\ NextAge(row) \in Nat
  BY DEF NextAge, Row
<1>2. Countdown(row.wait) \in Nat
  BY CountdownType DEF Row
<1> QED
  BY <1>1, <1>2 DEF Older, Row

LEMMA LaterType ==
    ASSUME NEW w \in Worker, workers[w] \in WorkerState
    PROVE  /\ Later(w) \in WorkerState
           /\ Later(w).pc = workers[w].pc
           /\ Later(w).job = workers[w].job
           /\ Later(w).began = workers[w].began
           /\ Later(w).seen = workers[w].seen
           /\ Later(w).read = workers[w].read
           /\ Busy(w) => Later(w).elapsed = workers[w].elapsed + 1
<1> DEFINE elapsed == IF Busy(w) THEN workers[w].elapsed + 1 ELSE 0
<1>1. elapsed \in Nat /\ (Busy(w) => elapsed = workers[w].elapsed + 1)
  BY DEF WorkerState
<1>2. Countdown(workers[w].reapIn) \in Nat
  BY CountdownType DEF WorkerState
<1> HIDE DEF elapsed
<1>3. Later(w) = [workers[w] EXCEPT !.elapsed = elapsed,
                                    !.reapIn = Countdown(workers[w].reapIn)]
  BY DEF Later, elapsed
<1> QED
  BY <1>1, <1>2, <1>3 DEF WorkerState

LEMMA DeletedType ==
    ASSUME TypeOK, NEW S
    PROVE  Deleted(S) \in [JobId -> Row]
BY DEF TypeOK, Deleted, Row, Status

LEMMA DeletedKeeps ==
    ASSUME TypeOK, NEW S, NEW j \in JobId, Deleted(S)[j].status # "absent"
    PROVE  Deleted(S)[j] = jobs[j]
BY DEF TypeOK, Deleted, Row

\* The job a busy worker holds is a row of the table, as far as types go.
LEMMA TypeOKStep == TypeOK /\ [Next]_vars => TypeOK'
<1> SUFFICES ASSUME TypeOK, [Next]_vars
             PROVE  TypeOK'
  OBVIOUS
<1> USE Sizes
<1>1. CASE UNCHANGED vars
  BY <1>1 DEF TypeOK, vars, Busy
<1>2. ASSUME NEW t \in JobType, NEW p \in Priority, Enqueue(t, p)
      PROVE  TypeOK'
  <2>1. [Blank EXCEPT !.status = "pending", !.type = t, !.priority = p] \in Row
    BY BlankIsRow DEF Row, Status
  <2> QED
    BY <1>2, <2>1 DEF Enqueue, TypeOK, Busy, JobId
<1>3. ASSUME NEW S \in SUBSET JobId, Cancel(S)
      PROVE  TypeOK'
  BY <1>3, DeletedType DEF Cancel, TypeOK, Busy
<1>4. ASSUME NEW j \in JobId, AdminRetry(j)
      PROVE  TypeOK'
  <2>1. [jobs[j] EXCEPT !.status = "pending", !.wait = 0] \in Row
    BY DEF TypeOK, Row, Status
  <2> QED
    BY <1>4, <2>1 DEF AdminRetry, TypeOK, Busy
<1>5. CASE Purge
  BY <1>5, DeletedType DEF Purge, TypeOK, Busy
<1>6. ASSUME NEW w \in Worker, Reap(w)
      PROVE  TypeOK'
  <2>1. \A row \in Row : Reaped(row) \in Row
    BY SpentType DEF Reaped, Row
  <2>2. jobs' \in [JobId -> Row]
    BY <1>6, <2>1 DEF Reap, TypeOK
  <2> QED
    BY <1>6, <2>2, NextReapType DEF Reap, TypeOK, ReapDue
<1>7. ASSUME NEW w \in Worker, ReapError(w) \/ NotYet(w) \/ Idle(w)
      PROVE  TypeOK'
  <2>1. CASE ReapError(w)
    BY <2>1, NextReapType DEF ReapError, TypeOK, ReapDue
  <2>2. CASE NotYet(w) \/ Idle(w)
    BY <2>2 DEF NotYet, Idle, TypeOK, WorkerState, Busy
  <2> QED
    BY <1>7, <2>1, <2>2
<1>8. ASSUME NEW w \in Worker, NEW j \in JobId, Claim(w, j)
      PROVE  TypeOK'
  <2>1. jobs' \in [JobId -> Row]
    BY <1>8 DEF Claim, TypeOK, Row, Status, InFlight
  <2>2. workers' \in [Worker -> WorkerState]
    <3>1. jobs[j].attempts \in Nat
      BY DEF TypeOK, Row
    <3>2. [workers[w] EXCEPT !.pc = "claimed", !.job = j, !.began = FALSE,
                             !.seen = jobs[j].attempts, !.elapsed = 0] \in WorkerState
      BY <3>1 DEF TypeOK, WorkerState
    <3> QED
      BY <1>8, <3>2 DEF Claim, TypeOK
  <2>3. claims' \in [JobId -> Nat]
    BY <1>8 DEF Claim, TypeOK
  <2>4. \A v \in Worker : Busy(v)' => workers'[v].job \in JobId
    BY <1>8 DEF Claim, TypeOK, WorkerState, Busy
  <2> QED
    BY <1>8, <2>1, <2>2, <2>3, <2>4 DEF Claim, TypeOK
<1>9. ASSUME NEW w \in Worker, HandlerReturns(w) \/ HandlerRaises(w)
      PROVE  TypeOK'
  BY <1>9 DEF HandlerReturns, HandlerRaises, HandlerEnds, TypeOK, WorkerState, Busy
<1>10. ASSUME NEW w \in Worker, MarkRunning(w)
       PROVE  TypeOK'
  <2>1. jobs' \in [JobId -> Row]
    BY <1>10 DEF MarkRunning, TypeOK, Updated, Row, Status, InFlight
  <2>2. workers' \in [Worker -> WorkerState]
    BY <1>10 DEF MarkRunning, TypeOK, WorkerState
  <2>3. \A v \in Worker : Busy(v)' => workers'[v].job \in JobId
    BY <1>10 DEF MarkRunning, TypeOK, WorkerState, Busy
  <2> QED
    BY <1>10, <2>1, <2>2, <2>3 DEF MarkRunning, TypeOK
<1>11. ASSUME NEW w \in Worker, MarkFailedRead(w)
       PROVE  TypeOK'
  <2>1. workers[w].job \in JobId
    BY <1>11 DEF MarkFailedRead, TypeOK, Busy
  <2>2. CASE Present(workers[w].job)
    <3> DEFINE state == [workers[w] EXCEPT !.pc = "failing",
                                           !.read = jobs[workers[w].job].attempts]
    <3>1. jobs[workers[w].job].attempts \in Nat
      BY <2>1 DEF TypeOK, Row
    <3>2. state \in WorkerState /\ state.job \in JobId
      BY <2>1, <3>1 DEF TypeOK, WorkerState
    <3>3. workers' = [workers EXCEPT ![w] = state]
      BY <1>11, <2>2 DEF MarkFailedRead
    <3> HIDE DEF state
    <3> QED
      BY <1>11, <3>2, <3>3 DEF MarkFailedRead, TypeOK, Busy
  <2>3. CASE ~Present(workers[w].job)
    BY <1>11, <2>3, ReleaseType DEF MarkFailedRead, TypeOK
  <2> QED
    BY <2>2, <2>3
<1>12. ASSUME NEW w \in Worker, MarkFailedWrite(w)
       PROVE  TypeOK'
  <2> DEFINE j == workers[w].job
             spent == workers[w].read + 1
  <2>1. spent \in Nat \ {0}
    BY DEF TypeOK, WorkerState
  <2>2. jobs[j] \in Row
    BY <1>12 DEF MarkFailedWrite, TypeOK, Busy
  <2>3. spent < MaxAttempts => Backoff(spent) \in Nat
    BY <2>1, BackoffAssumption
  <2>4. Spent(jobs[j], spent, Backoff(spent)) \in Row
    BY <2>1, <2>2, <2>3, SpentType
  <2>5. Updated(j, Spent(jobs[j], spent, Backoff(spent))) \in [JobId -> Row]
    BY <2>4, UpdatedType
  <2> QED
    BY <1>12, <2>5, ReleaseType DEF MarkFailedWrite, TypeOK
<1>13. ASSUME NEW w \in Worker, MarkSuccess(w)
       PROVE  TypeOK'
  <2>1. jobs[workers[w].job] \in Row
    BY <1>13 DEF MarkSuccess, TypeOK, Busy
  <2>2. [jobs[workers[w].job] EXCEPT !.status = "success", !.age = 0] \in Row
    BY <2>1 DEF Row, Status, Settled
  <2> QED
    BY <1>13, <2>2, UpdatedType, ReleaseType DEF MarkSuccess, TypeOK
<1>14. ASSUME NEW w \in Worker, QueueError(w) \/ Crash(w)
       PROVE  TypeOK'
  <2>1. CASE QueueError(w)
    BY <2>1, ReleaseType DEF QueueError, TypeOK
  <2>2. CASE Crash(w)
    BY <2>2, StartedIsState DEF Crash, TypeOK, Started, Busy
  <2> QED
    BY <1>14, <2>1, <2>2
<1>15. CASE Tick
  <2>1. \A j \in JobId : Older(jobs[j]) \in Row
    BY OlderType DEF TypeOK
  <2>2. \A w \in Worker : /\ Later(w) \in WorkerState
                         /\ Later(w).pc = workers[w].pc
                         /\ Later(w).job = workers[w].job
    BY LaterType DEF TypeOK
  <2> QED
    BY <1>15, <2>1, <2>2 DEF Tick, TypeOK, Busy
<1> QED
  BY <1>1, <1>2, <1>3, <1>4, <1>5, <1>6, <1>7, <1>8, <1>9, <1>10, <1>11, <1>12,
     <1>13, <1>14, <1>15 DEF Next, Producers, Step, Fault

\* Every variable keeps its type, and a busy worker always holds a job.
THEOREM TypeCorrect == Spec => []TypeOK
<1>1. Init => TypeOK
  BY Sizes, BlankIsRow, StartedIsState DEF Init, TypeOK, Busy, Started
<1> QED
  BY <1>1, TypeOKStep, PTL DEF Spec

----------------------------------------------------------------------------
(* A job under way is left alone *)

\* Ids that have not been handed out have no row.
FutureIsAbsent == \A j \in JobId : j >= nextId => ~Present(j)

\* A live worker is within its bound, and the row it works on carries its mark
\* and is no older than its work.
Marked(w) ==
    LET j == workers[w].job IN
    /\ j < nextId
    /\ workers[w].elapsed <= Bound(w)
    /\ Present(j) => jobs[j].status = Expected(w) /\ jobs[j].age <= workers[w].elapsed
WorkIsMarked == \A w \in Worker : Busy(w) => Marked(w)

IndInv == TypeOK /\ FutureIsAbsent /\ WorkIsMarked /\ ExclusiveExecution

\* The threshold argument: the reaper, run by an idle worker, finds no row stale
\* that a live worker is at work on.
LEMMA LiveIsNotStale ==
    ASSUME IndInv, NEW v \in Worker, ~Busy(v), NEW w \in Worker, Busy(w)
    PROVE  workers[w].job \notin Stale
<1> DEFINE j == workers[w].job
<1>1. SUFFICES ASSUME j \in Stale
               PROVE  FALSE
  OBVIOUS
<1>2. Present(j) /\ j \in JobId
  BY <1>1 DEF Stale, InFlight, Present
<1>3. jobs[j].status = Expected(w) /\ jobs[j].age <= workers[w].elapsed
      /\ workers[w].elapsed <= Bound(w)
  BY <1>2 DEF IndInv, WorkIsMarked, Marked
<1>4. jobs[j].age > Limit(Expected(w))
  BY <1>1, <1>3 DEF Stale
<1>5. jobs[j].age \in Nat /\ workers[w].elapsed \in Nat
  BY <1>2 DEF IndInv, TypeOK, Row, WorkerState
<1>6. CASE Timely
  <2>1. Bound(w) <= Limit(Expected(w)) /\ Bound(w) \in Nat /\ Limit(Expected(w)) \in Nat
    BY <1>6, Sizes DEF Timely, Bound, Limit, Expected
  <2> QED
    BY <1>3, <1>4, <1>5, <2>1
<1>7. CASE Solo
  BY <1>7 DEF Solo
<1> QED
  BY <1>6, <1>7, DeploymentAssumption

\* What most steps have in common: no worker takes up a job, and the rows of the
\* jobs under way keep their status and age or go away.
LEMMA Frame ==
    ASSUME IndInv, nextId' >= nextId, nextId' \in Nat,
           \A j \in JobId : Present(j)' => Present(j) \/ j < nextId',
           \A w \in Worker : Busy(w)' =>
               /\ Busy(w)
               /\ workers'[w].job = workers[w].job
               /\ workers'[w].began = workers[w].began
               /\ workers'[w].elapsed = workers[w].elapsed
               /\ Present(workers[w].job)' =>
                     /\ jobs'[workers[w].job].status = jobs[workers[w].job].status
                     /\ jobs'[workers[w].job].age = jobs[workers[w].job].age
    PROVE  FutureIsAbsent' /\ WorkIsMarked' /\ ExclusiveExecution'
<1>1. FutureIsAbsent'
  BY Sizes DEF IndInv, FutureIsAbsent, TypeOK, JobId
<1>2. ExclusiveExecution'
  BY DEF IndInv, ExclusiveExecution
<1>3. WorkIsMarked'
  <2> SUFFICES ASSUME NEW w \in Worker, Busy(w)'
               PROVE  Marked(w)'
    BY DEF WorkIsMarked
  <2>1. Marked(w) /\ workers[w].job \in Nat /\ nextId \in Nat
    BY Sizes DEF IndInv, WorkIsMarked, TypeOK, JobId
  <2>2. Bound(w)' = Bound(w) /\ Expected(w)' = Expected(w)
    BY DEF Bound, Expected
  <2>3. Present(workers[w].job)' => Present(workers[w].job)
    BY DEF Present
  <2> QED
    BY <2>1, <2>2, <2>3 DEF Marked
<1> QED
  BY <1>1, <1>2, <1>3

LEMMA IndInvStep == IndInv /\ [Next]_vars => IndInv'
<1> SUFFICES ASSUME IndInv, [Next]_vars
             PROVE  IndInv'
  OBVIOUS
<1> USE Sizes
<1>0. TypeOK' /\ TypeOK
  BY TypeOKStep DEF IndInv
<1>n. nextId \in Nat /\ nextId' \in Nat
  BY <1>0 DEF TypeOK
<1> DEFINE Rest == FutureIsAbsent /\ WorkIsMarked /\ ExclusiveExecution
<1>1. CASE UNCHANGED vars
  BY <1>1 DEF IndInv, TypeOK, FutureIsAbsent, WorkIsMarked, Marked, ExclusiveExecution,
              vars, Busy, Bound, Expected, Present
<1>2. ASSUME NEW t \in JobType, NEW p \in Priority, Enqueue(t, p)
      PROVE  Rest'
  <2>1. ASSUME NEW w \in Worker, Busy(w)
        PROVE  workers[w].job # nextId
    <3>1. Marked(w) /\ workers[w].job \in JobId
      BY <1>0, <2>1 DEF IndInv, WorkIsMarked, TypeOK
    <3> QED
      BY <1>n, <3>1 DEF Marked, JobId
  <2> QED
    BY <1>0, <1>n, <1>2, <2>1, Frame DEF Enqueue, Busy, Present, TypeOK
<1>3. ASSUME NEW S \in SUBSET JobId, Cancel(S)
      PROVE  Rest'
  <2>1. \A j \in JobId : Present(j)' => jobs'[j] = jobs[j]
    BY <1>0, <1>3, DeletedKeeps DEF Cancel, Present
  <2> QED
    BY <1>0, <1>n, <1>3, <2>1, Frame DEF Cancel, Busy, Present, TypeOK
<1>4. ASSUME NEW j \in JobId, AdminRetry(j)
      PROVE  Rest'
  <2>1. \A w \in Worker : Busy(w) => workers[w].job # j
    BY <1>4 DEF IndInv, WorkIsMarked, Marked, AdminRetry, Expected, Present
  <2> QED
    BY <1>0, <1>n, <1>4, <2>1, Frame DEF AdminRetry, Busy, Present, TypeOK
<1>5. ASSUME Purge
      PROVE  Rest'
  <2>1. \A j \in JobId : Present(j)' => jobs'[j] = jobs[j]
    BY <1>0, <1>5, DeletedKeeps DEF Purge, Present
  <2> QED
    BY <1>0, <1>n, <1>5, <2>1, Frame DEF Purge, Busy, Present, TypeOK
<1>6. ASSUME NEW w \in Worker, Reap(w)
      PROVE  Rest'
  <2>1. ~Busy(w)
    BY <1>6 DEF Reap, ReapDue, Busy
  <2>2. \A v \in Worker : Busy(v) => workers[v].job \notin Batch
    BY <2>1, LiveIsNotStale DEF Batch
  <2>3. \A v \in Worker : Busy(v)' => Busy(v) /\ workers'[v] = workers[v]
    BY <1>0, <1>6, NextReapType DEF Reap, ReapDue
  <2>4. \A j \in JobId : j \in Batch => Present(j)
    BY DEF Batch, Stale, InFlight, Present
  <2>5. \A v \in Worker : Busy(v) => jobs'[workers[v].job] = jobs[workers[v].job]
    BY <1>0, <1>6, <2>2 DEF Reap, TypeOK
  <2> QED
    BY <1>0, <1>n, <1>6, <2>3, <2>4, <2>5, Frame DEF Reap, Present
<1>7. ASSUME NEW w \in Worker, ReapError(w) \/ NotYet(w) \/ Idle(w)
      PROVE  Rest'
  <2>1. \A v \in Worker : Busy(v)' => Busy(v) /\ workers'[v] = workers[v]
    BY <1>0, <1>7, NextReapType
       DEF ReapError, NotYet, Idle, ReapDue, TypeOK, WorkerState, Busy
  <2> QED
    BY <1>0, <1>n, <1>7, <2>1, Frame DEF ReapError, NotYet, Idle, Present
<1>8. ASSUME NEW w \in Worker, NEW j \in JobId, Claim(w, j)
      PROVE  Rest'
  <2>1. Present(j) /\ jobs[j].status = "pending"
    BY <1>8 DEF Claim, Due, Present
  <2>2. \A v \in Worker : Busy(v) => workers[v].job # j
    BY <2>1 DEF IndInv, WorkIsMarked, Marked, Expected
  <2>3. ~Busy(w) /\ j < nextId
    BY <1>8, <1>n, <2>1 DEF Claim, Busy, IndInv, FutureIsAbsent, JobId
  <2>4. \A v \in Worker : v # w => workers'[v] = workers[v]
    BY <1>0, <1>8 DEF Claim, TypeOK
  <2>5. \A i \in JobId : i # j => jobs'[i] = jobs[i]
    BY <1>0, <1>8 DEF Claim, TypeOK
  <2>6. /\ workers'[w].job = j /\ workers'[w].began = FALSE /\ workers'[w].elapsed = 0
        /\ jobs'[j].status = "claimed" /\ jobs'[j].age = 0
    BY <1>0, <1>8 DEF Claim, TypeOK, WorkerState, Row
  <2>7. FutureIsAbsent'
    BY <1>8, <1>n, <2>3, <2>5 DEF Claim, IndInv, FutureIsAbsent, Present, JobId
  <2>8. ExclusiveExecution'
    BY <2>2, <2>4, <2>6 DEF IndInv, ExclusiveExecution, Busy
  <2>9. ASSUME NEW v \in Worker, Busy(v)'
        PROVE  Marked(v)'
    <3>1. CASE v = w
      BY <1>8, <1>n, <2>3, <2>6, <3>1 DEF Claim, Marked, Bound, Expected
    <3>2. CASE v # w
      <4>1. Busy(v) /\ workers[v].job \in JobId /\ workers[v].job # j
        BY <1>0, <2>2, <2>4, <2>9, <3>2 DEF Busy, TypeOK
      <4> QED
        BY <1>8, <2>4, <2>5, <3>2, <4>1
           DEF Claim, IndInv, WorkIsMarked, Marked, Bound, Expected, Present
    <3> QED
      BY <3>1, <3>2
  <2> QED
    BY <2>7, <2>8, <2>9 DEF WorkIsMarked
<1>9. ASSUME NEW w \in Worker, HandlerReturns(w) \/ HandlerRaises(w)
      PROVE  Rest'
  BY <1>0, <1>n, <1>9, Frame
     DEF HandlerReturns, HandlerRaises, HandlerEnds, Busy, Present, TypeOK, WorkerState
<1>10. ASSUME NEW w \in Worker, MarkRunning(w)
       PROVE  Rest'
  <2> DEFINE j == workers[w].job
  <2>1. Busy(w) /\ j \in JobId
    BY <1>0, <1>10 DEF MarkRunning, Busy, TypeOK
  <2>2. \A v \in Worker : v # w => workers'[v] = workers[v]
    BY <1>0, <1>10 DEF MarkRunning, TypeOK
  <2>3. \A i \in JobId : i # j => jobs'[i] = jobs[i]
    BY <1>0, <1>10 DEF MarkRunning, Updated, TypeOK
  <2>4. /\ workers'[w].job = j /\ workers'[w].began = TRUE /\ workers'[w].elapsed = 0
    BY <1>0, <1>10 DEF MarkRunning, TypeOK, WorkerState
  <2>5. /\ Present(j)' => Present(j)
        /\ jobs'[j].status # "absent" => jobs'[j].status = "running" /\ jobs'[j].age = 0
    BY <1>0, <1>10, <2>1, <2>4 DEF MarkRunning, Updated, TypeOK, Row, Present
  <2>6. FutureIsAbsent'
    BY <1>10, <2>3, <2>4, <2>5 DEF MarkRunning, IndInv, FutureIsAbsent, Present
  <2>7. ExclusiveExecution'
    BY <2>1, <2>2, <2>4 DEF IndInv, ExclusiveExecution, Busy
  <2>8. ASSUME NEW v \in Worker, Busy(v)'
        PROVE  Marked(v)'
    <3>1. CASE v = w
      <4>1. Marked(w)
        BY <2>1 DEF IndInv, WorkIsMarked
      <4> QED
        BY <1>10, <2>4, <2>5, <3>1, <4>1
           DEF MarkRunning, Marked, Bound, Expected, Present
    <3>2. CASE v # w
      <4>1. Busy(v) /\ workers[v].job \in JobId /\ workers[v].job # j
        BY <1>0, <2>1, <2>2, <2>8, <3>2 DEF Busy, TypeOK, IndInv, ExclusiveExecution
      <4> QED
        BY <1>10, <2>2, <2>3, <3>2, <4>1
           DEF MarkRunning, IndInv, WorkIsMarked, Marked, Bound, Expected, Present
    <3> QED
      BY <3>1, <3>2
  <2> QED
    BY <2>6, <2>7, <2>8 DEF WorkIsMarked
<1>11. ASSUME NEW w \in Worker, MarkFailedRead(w)
       PROVE  Rest'
  <2>1. CASE Present(workers[w].job)
    <3>1. \A v \in Worker : Busy(v)' =>
              /\ Busy(v)
              /\ workers'[v].job = workers[v].job
              /\ workers'[v].began = workers[v].began
              /\ workers'[v].elapsed = workers[v].elapsed
      <4> DEFINE state == [workers[w] EXCEPT !.pc = "failing",
                                             !.read = jobs[workers[w].job].attempts]
      <4>1. /\ state.job = workers[w].job
            /\ state.began = workers[w].began
            /\ state.elapsed = workers[w].elapsed
        BY <1>0 DEF TypeOK, WorkerState
      <4>2. workers' = [workers EXCEPT ![w] = state] /\ Busy(w)
        BY <1>11, <2>1 DEF MarkFailedRead, Busy
      <4> HIDE DEF state
      <4> QED
        BY <1>0, <4>1, <4>2 DEF TypeOK, Busy
    <3> QED
      BY <1>0, <1>n, <1>11, <3>1, Frame DEF MarkFailedRead, Present
  <2>2. CASE ~Present(workers[w].job)
    BY <1>0, <1>n, <1>11, <2>2, ReleaseType, Frame DEF MarkFailedRead, Present
  <2> QED
    BY <2>1, <2>2
<1>12. ASSUME NEW w \in Worker, MarkFailedWrite(w) \/ MarkSuccess(w)
       PROVE  Rest'
  <2> DEFINE j == workers[w].job
  <2>1. Busy(w) /\ j \in JobId
    BY <1>0, <1>12 DEF MarkFailedWrite, MarkSuccess, Busy, TypeOK
  <2>2. \A v \in Worker : Busy(v)' => v # w /\ Busy(v) /\ workers'[v] = workers[v]
    BY <1>0, <1>12, ReleaseType DEF MarkFailedWrite, MarkSuccess
  <2>3. /\ \A i \in JobId : i # j => jobs'[i] = jobs[i]
        /\ ~Present(j) => jobs' = jobs
    BY <1>0, <1>12 DEF MarkFailedWrite, MarkSuccess, Updated, TypeOK
  <2>4. \A i \in JobId : Present(i)' => Present(i)
    BY <2>3 DEF Present
  <2>5. \A v \in Worker : Busy(v)' =>
            workers[v].job \in JobId /\ jobs'[workers[v].job] = jobs[workers[v].job]
    BY <1>0, <2>1, <2>2, <2>3 DEF IndInv, ExclusiveExecution, TypeOK
  <2>6. nextId' = nextId
    BY <1>12 DEF MarkFailedWrite, MarkSuccess
  <2> QED
    BY <1>n, <2>2, <2>4, <2>5, <2>6, Frame
<1>14. ASSUME NEW w \in Worker, QueueError(w) \/ Crash(w)
       PROVE  Rest'
  <2>1. \A v \in Worker : Busy(v)' => Busy(v) /\ workers'[v] = workers[v]
    BY <1>0, <1>14, ReleaseType DEF QueueError, Crash, TypeOK, Started, Busy
  <2> QED
    BY <1>0, <1>n, <1>14, <2>1, Frame DEF QueueError, Crash, Present
<1>15. ASSUME Tick
       PROVE  Rest'
  <2>1. \A j \in JobId : /\ jobs'[j].status = jobs[j].status
                        /\ jobs'[j].age \in {jobs[j].age, jobs[j].age + 1}
                        /\ jobs[j].age \in Nat
    BY <1>0, <1>15, OlderType DEF Tick, TypeOK, Row
  <2>2. \A w \in Worker : Busy(w)' =>
            /\ Busy(w)
            /\ workers'[w].job = workers[w].job
            /\ workers'[w].began = workers[w].began
            /\ workers'[w].elapsed = workers[w].elapsed + 1
    BY <1>0, <1>15, LaterType DEF Tick, TypeOK, Busy
  <2>3. ASSUME NEW w \in Worker, Busy(w)'
        PROVE  Marked(w)'
    <3>1. Busy(w) /\ Marked(w) /\ workers[w].job \in JobId
      BY <1>0, <2>2, <2>3 DEF IndInv, WorkIsMarked, TypeOK
    <3>2. workers[w].elapsed < Bound(w) /\ workers[w].elapsed \in Nat
          /\ Bound(w) \in Nat
      BY <1>0, <1>15, <3>1 DEF Tick, Bound, TypeOK, WorkerState
    <3>3. Bound(w)' = Bound(w) /\ Expected(w)' = Expected(w)
      BY <2>2, <2>3 DEF Bound, Expected
    <3> QED
      BY <1>15, <2>1, <2>2, <2>3, <3>1, <3>2, <3>3 DEF Tick, Marked, Present
  <2>4. FutureIsAbsent'
    BY <1>15, <2>1 DEF Tick, IndInv, FutureIsAbsent, Present
  <2>5. ExclusiveExecution'
    BY <2>2 DEF IndInv, ExclusiveExecution
  <2> QED
    BY <2>3, <2>4, <2>5 DEF WorkIsMarked
<1>16. CASE Next
  BY <1>0, <1>2, <1>3, <1>4, <1>5, <1>6, <1>7, <1>8, <1>9, <1>10, <1>11, <1>12,
     <1>14, <1>15, <1>16 DEF Next, Producers, Step, Fault, IndInv
<1> QED
  BY <1>1, <1>16

LEMMA IndInvInit == Init => IndInv
<1> SUFFICES ASSUME Init
             PROVE  IndInv
  OBVIOUS
<1>1. TypeOK
  BY Sizes, BlankIsRow, StartedIsState DEF Init, TypeOK, Busy, Started
<1>2. \A w \in Worker : ~Busy(w)
  BY DEF Init, Started, Busy
<1>3. \A j \in JobId : ~Present(j)
  BY DEF Init, Blank, Present
<1> QED
  BY <1>1, <1>2, <1>3 DEF IndInv, FutureIsAbsent, WorkIsMarked, ExclusiveExecution

LEMMA Invariance == Spec => []IndInv
BY IndInvInit, IndInvStep, PTL DEF Spec

\* No job is ever in the hands of two live workers, however many workers, jobs,
\* crashes, failed queue calls and reaper passes there are.
THEOREM NoDoubleRun == Spec => []ExclusiveExecution
<1>1. IndInv => ExclusiveExecution
  BY DEF IndInv
<1> QED
  BY <1>1, Invariance, PTL

\* A row that a live worker is at work on keeps the status the worker gave it.
THEOREM LiveJobKept == Spec => []LiveJobIsNotTaken
<1>1. IndInv => LiveJobIsNotTaken
  BY DEF IndInv, WorkIsMarked, Marked, LiveJobIsNotTaken
<1> QED
  BY <1>1, Invariance, PTL

----------------------------------------------------------------------------
(* The life of a job, one step at a time *)

\* What any step may do to the row, the claims and the grants of one job.
Kept(j) == jobs'[j].status = jobs[j].status /\ jobs'[j].attempts = jobs[j].attempts
Moved(j, from, to) ==
    jobs[j].status \in from /\ jobs'[j].status \in to /\ jobs'[j].attempts = jobs[j].attempts
Created(j) ==
    /\ j = nextId /\ nextId' = nextId + 1
    /\ jobs'[j].status = "pending" /\ jobs'[j].attempts = 0
Charged(j) ==
    /\ jobs[j].status \in InFlight
    /\ jobs'[j].attempts = jobs[j].attempts + 1
    /\ jobs'[j].status = AfterAttempt(jobs'[j].attempts)

JobStep(j) ==
    \/ /\ \/ Kept(j) \/ Created(j) \/ Charged(j)
          \/ jobs[j].status # "failed" /\ jobs'[j].status = "absent"
          \/ Moved(j, InFlight, {"running", "success"})
       /\ claims'[j] = claims[j] /\ grants'[j] = grants[j]
    \/ Moved(j, {"pending"}, {"claimed"}) /\ claims'[j] = claims[j] + 1 /\ grants'[j] = grants[j]
    \/ Moved(j, {"failed"}, {"pending"}) /\ claims'[j] = claims[j] /\ grants'[j] = grants[j] + 1

\* What a busy worker has read of its job is still so: nobody else counts attempts
\* of a job under way.
Reading(w) ==
    LET j == workers[w].job IN
    Present(j) => /\ workers[w].seen = jobs[j].attempts
                  /\ workers[w].pc = "failing" => workers[w].read = jobs[j].attempts
ReadingsHold == \A w \in Worker : Busy(w) => Reading(w)

LEMMA SpentFields ==
    ASSUME NEW row \in Row, NEW spent, NEW backoff
    PROVE  /\ Spent(row, spent, backoff).status = AfterAttempt(spent)
           /\ Spent(row, spent, backoff).attempts = spent
BY DEF Spent, Row

LEMMA DeletedRow ==
    ASSUME TypeOK, NEW S, NEW j \in JobId
    PROVE  (j \in S /\ Deleted(S)[j].status = "absent") \/ Deleted(S)[j] = jobs[j]
BY DEF TypeOK, Deleted, Row

\* A step that changes at most the row of the job worker w holds.
LEMMA UpdatedRow ==
    ASSUME TypeOK, NEW i \in JobId, NEW row, jobs' = Updated(i, row), NEW j \in JobId
    PROVE  jobs'[j] = jobs[j] \/ (j = i /\ Present(i) /\ jobs'[j] = row)
BY DEF TypeOK, Updated

LEMMA LifeOfAJob ==
    ASSUME IndInv, ReadingsHold, [Next]_vars, NEW j \in JobId
    PROVE  JobStep(j) /\ nextId' >= nextId
<1> USE DEF JobStep, Kept
<1>0. TypeOK /\ jobs[j] \in Row /\ nextId \in Nat
  BY Sizes DEF IndInv, TypeOK
<1>1. CASE UNCHANGED vars
  BY <1>0, <1>1 DEF vars
<1>2. ASSUME NEW t \in JobType, NEW p \in Priority, Enqueue(t, p)
      PROVE  JobStep(j) /\ nextId' >= nextId
  <2>1. [Blank EXCEPT !.status = "pending", !.type = t, !.priority = p].attempts = 0
        /\ [Blank EXCEPT !.status = "pending", !.type = t, !.priority = p].status = "pending"
    BY DEF Blank
  <2> QED
    BY <1>0, <1>2, <2>1 DEF Enqueue, TypeOK, Created
<1>3. ASSUME NEW S, jobs' = Deleted(S), \A i \in S : jobs[i].status # "failed",
             UNCHANGED <<nextId, workers, claims, grants>>
      PROVE  JobStep(j) /\ nextId' >= nextId
  BY <1>0, <1>3, DeletedRow
<1>4. ASSUME NEW i \in JobId, AdminRetry(i)
      PROVE  JobStep(j) /\ nextId' >= nextId
  <2>1. CASE j = i
    BY <1>0, <1>4, <2>1 DEF AdminRetry, TypeOK, Moved, Row
  <2>2. CASE j # i
    BY <1>0, <1>4, <2>2 DEF AdminRetry, TypeOK
  <2> QED
    BY <2>1, <2>2
<1>5. ASSUME NEW w \in Worker, Reap(w)
      PROVE  JobStep(j) /\ nextId' >= nextId
  <2>1. CASE j \in Batch
    <3>1. jobs'[j] = Spent(jobs[j], jobs[j].attempts + 1, 0) /\ jobs[j].status \in InFlight
      BY <1>5, <2>1 DEF Reap, Reaped, Batch, Stale
    <3> QED
      BY <1>0, <1>5, <3>1, SpentFields DEF Reap, Charged
  <2>2. CASE j \notin Batch
    BY <1>0, <1>5, <2>2 DEF Reap
  <2> QED
    BY <2>1, <2>2
<1>6. ASSUME UNCHANGED <<jobs, nextId, claims, grants>>
      PROVE  JobStep(j) /\ nextId' >= nextId
  BY <1>0, <1>6
<1>7. ASSUME NEW w \in Worker, NEW i \in JobId, Claim(w, i)
      PROVE  JobStep(j) /\ nextId' >= nextId
  <2>1. CASE j = i
    BY <1>0, <1>7, <2>1 DEF Claim, TypeOK, Moved, Row, Due
  <2>2. CASE j # i
    BY <1>0, <1>7, <2>2 DEF Claim, TypeOK
  <2> QED
    BY <2>1, <2>2
<1>8. ASSUME NEW w \in Worker, Busy(w),
             workers[w].job = j, Present(j)
      PROVE  jobs[j].status \in InFlight
  BY <1>8 DEF IndInv, WorkIsMarked, Marked, Expected, InFlight
<1>9. ASSUME NEW w \in Worker, MarkRunning(w) \/ MarkSuccess(w)
      PROVE  JobStep(j) /\ nextId' >= nextId
  <2> DEFINE i == workers[w].job
  <2>1. Busy(w) /\ i \in JobId /\ UNCHANGED <<nextId, claims, grants>>
    BY <1>0, <1>9 DEF MarkRunning, MarkSuccess, Busy, TypeOK
  <2>2. PICK s \in {"running", "success"} :
            jobs' = Updated(i, [jobs[i] EXCEPT !.status = s, !.age = 0])
    BY <1>9 DEF MarkRunning, MarkSuccess
  <2>3. [jobs[j] EXCEPT !.status = s, !.age = 0].status = s
        /\ [jobs[j] EXCEPT !.status = s, !.age = 0].attempts = jobs[j].attempts
    BY <1>0 DEF Row
  <2>4. CASE jobs'[j] = jobs[j]
    BY <1>0, <2>1, <2>4
  <2>5. CASE j = i /\ Present(i) /\ jobs'[j] = [jobs[i] EXCEPT !.status = s, !.age = 0]
    <3>1. jobs[j].status \in InFlight
      BY <1>8, <2>1, <2>5
    <3>2. Moved(j, InFlight, {"running", "success"})
      BY <2>3, <2>5, <3>1 DEF Moved
    <3> QED
      BY <1>0, <2>1, <3>2
  <2> QED
    BY <1>0, <2>1, <2>2, <2>4, <2>5, UpdatedRow
<1>10. ASSUME NEW w \in Worker, MarkFailedWrite(w)
       PROVE  JobStep(j) /\ nextId' >= nextId
  <2> DEFINE i == workers[w].job
             spent == workers[w].read + 1
  <2>1. Busy(w) /\ i \in JobId /\ UNCHANGED <<nextId, claims, grants>>
    BY <1>0, <1>10 DEF MarkFailedWrite, Busy, TypeOK
  <2>2. jobs' = Updated(i, Spent(jobs[i], spent, Backoff(spent)))
    BY <1>10 DEF MarkFailedWrite
  <2>3. Present(i) => workers[w].read = jobs[i].attempts
    BY <1>10, <2>1 DEF MarkFailedWrite, ReadingsHold, Reading
  <2> QED
    BY <1>0, <1>8, <2>1, <2>2, <2>3, UpdatedRow, SpentFields DEF Charged
<1>11. CASE Tick
  BY <1>0, <1>11, OlderType DEF Tick
<1>12. ASSUME NEW S \in SUBSET JobId, Cancel(S)
       PROVE  JobStep(j) /\ nextId' >= nextId
  BY <1>3, <1>12 DEF Cancel, InFlight
<1>13. CASE Purge
  BY <1>3, <1>13 DEF Purge, Expired
<1> QED
  BY <1>1, <1>2, <1>4, <1>5, <1>6, <1>7, <1>9, <1>10, <1>11, <1>12, <1>13
     DEF Next, Producers, Step, Fault, ReapError, NotYet, Idle, HandlerReturns,
         HandlerRaises, HandlerEnds, MarkFailedRead, QueueError, Crash

----------------------------------------------------------------------------
(* What the readings of the workers rest on *)

\* No worker takes up a job or reads its row, and no row of a job under way is
\* charged.
LEMMA ReadingsFrame ==
    ASSUME ReadingsHold,
           \A w \in Worker : Busy(w)' =>
               /\ Busy(w)
               /\ workers'[w].job = workers[w].job
               /\ workers'[w].seen = workers[w].seen
               /\ workers'[w].read = workers[w].read
               /\ workers'[w].pc = "failing" => workers[w].pc = "failing"
               /\ Present(workers[w].job)' =>
                     /\ Present(workers[w].job)
                     /\ jobs'[workers[w].job].attempts = jobs[workers[w].job].attempts
    PROVE  ReadingsHold'
BY DEF ReadingsHold, Reading, Present

LEMMA ReadingsStep ==
    ASSUME IndInv, ReadingsHold, [Next]_vars
    PROVE  ReadingsHold'
<1>0. TypeOK
  BY DEF IndInv
<1>j. ASSUME NEW w \in Worker, Busy(w)
      PROVE  workers[w].job \in JobId /\ workers[w].job < nextId
  BY <1>0, <1>j DEF IndInv, WorkIsMarked, Marked, TypeOK
<1>1. CASE UNCHANGED vars
  BY <1>1, ReadingsFrame DEF vars, Busy, Present
<1>2. ASSUME NEW t \in JobType, NEW p \in Priority, Enqueue(t, p)
      PROVE  ReadingsHold'
  <2>1. \A w \in Worker : Busy(w) => jobs'[workers[w].job] = jobs[workers[w].job]
    BY <1>0, <1>2, <1>j, Sizes DEF Enqueue, TypeOK, JobId
  <2> QED
    BY <1>2, <2>1, ReadingsFrame DEF Enqueue, Busy, Present
<1>3. ASSUME NEW S, jobs' = Deleted(S), UNCHANGED workers
      PROVE  ReadingsHold'
  <2>1. \A j \in JobId : jobs'[j].status = "absent" \/ jobs'[j] = jobs[j]
    BY <1>0, <1>3, DeletedRow
  <2> QED
    BY <1>3, <1>j, <2>1, ReadingsFrame DEF Busy, Present
<1>4. ASSUME NEW j \in JobId, AdminRetry(j)
      PROVE  ReadingsHold'
  <2>1. \A w \in Worker : Busy(w) => workers[w].job # j
    BY <1>4 DEF IndInv, WorkIsMarked, Marked, AdminRetry, Expected, Present
  <2> QED
    BY <1>0, <1>4, <1>j, <2>1, ReadingsFrame DEF AdminRetry, Busy, Present, TypeOK
<1>5. ASSUME NEW w \in Worker, Reap(w)
      PROVE  ReadingsHold'
  <2>1. ~Busy(w)
    BY <1>5 DEF Reap, ReapDue, Busy
  <2>2. \A v \in Worker : Busy(v) => workers[v].job \notin Batch
    BY <2>1, LiveIsNotStale DEF Batch
  <2>3. \A v \in Worker : Busy(v)' => Busy(v) /\ workers'[v] = workers[v]
    BY <1>0, <1>5, NextReapType DEF Reap, ReapDue
  <2>4. \A v \in Worker : Busy(v) => jobs'[workers[v].job] = jobs[workers[v].job]
    BY <1>5, <1>j, <2>2 DEF Reap
  <2> QED
    BY <2>3, <2>4, ReadingsFrame DEF Present
<1>6. ASSUME NEW w \in Worker,
             \/ ReapError(w) \/ NotYet(w) \/ Idle(w) \/ QueueError(w) \/ Crash(w)
      PROVE  ReadingsHold'
  <2>1. CASE ReapError(w)
    BY <1>0, <2>1, NextReapType, ReadingsFrame DEF ReapError, ReapDue, Present
  <2>2. CASE NotYet(w) \/ Idle(w) \/ Crash(w)
    <3>1. \A v \in Worker : Busy(v)' => Busy(v) /\ workers'[v] = workers[v]
      BY <1>0, <2>2 DEF NotYet, Idle, Crash, TypeOK, WorkerState, Started, Busy
    <3> QED
      BY <2>2, <3>1, ReadingsFrame DEF NotYet, Idle, Crash, Present
  <2>3. CASE QueueError(w)
    BY <1>0, <2>3, ReleaseType, ReadingsFrame DEF QueueError, Present
  <2> QED
    BY <1>6, <2>1, <2>2, <2>3
<1>7. ASSUME NEW w \in Worker, NEW j \in JobId, Claim(w, j)
      PROVE  ReadingsHold'
  <2>1. Present(j) /\ jobs[j].status = "pending"
    BY <1>7 DEF Claim, Due, Present
  <2>2. \A v \in Worker : Busy(v) => workers[v].job # j
    BY <2>1 DEF IndInv, WorkIsMarked, Marked, Expected
  <2>3. /\ \A v \in Worker : v # w => workers'[v] = workers[v]
        /\ workers'[w].job = j /\ workers'[w].seen = jobs[j].attempts
        /\ workers'[w].pc = "claimed"
    BY <1>0, <1>7 DEF Claim, TypeOK, WorkerState
  <2>4. /\ \A i \in JobId : i # j => jobs'[i] = jobs[i]
        /\ jobs'[j].attempts = jobs[j].attempts
    BY <1>0, <1>7 DEF Claim, TypeOK, Row
  <2>5. ASSUME NEW v \in Worker, Busy(v)'
        PROVE  Reading(v)'
    <3>1. CASE v = w
      BY <2>3, <2>4, <3>1 DEF Reading
    <3>2. CASE v # w
      <4>1. Busy(v) /\ workers[v].job \in JobId /\ workers[v].job # j
        BY <1>j, <2>2, <2>3, <2>5, <3>2 DEF Busy
      <4> QED
        BY <2>3, <2>4, <3>2, <4>1 DEF ReadingsHold, Reading, Present
    <3> QED
      BY <3>1, <3>2
  <2> QED
    BY <2>5 DEF ReadingsHold
<1>8. ASSUME NEW w \in Worker, HandlerReturns(w) \/ HandlerRaises(w)
      PROVE  ReadingsHold'
  BY <1>0, <1>8, ReadingsFrame
     DEF HandlerReturns, HandlerRaises, HandlerEnds, Busy, Present, TypeOK, WorkerState
<1>9. ASSUME NEW w \in Worker, MarkRunning(w)
      PROVE  ReadingsHold'
  <2> DEFINE i == workers[w].job
             row == [jobs[i] EXCEPT !.status = "running", !.age = 0]
  <2>1. Busy(w) /\ i \in JobId
    BY <1>9, <1>j DEF MarkRunning, Busy
  <2>2. jobs' = Updated(i, row)
    BY <1>9 DEF MarkRunning
  <2>3. row.attempts = jobs[i].attempts
    BY <1>0, <2>1 DEF TypeOK, Row
  <2>4. \A j \in JobId : Present(j)' => Present(j) /\ jobs'[j].attempts = jobs[j].attempts
    <3> HIDE DEF row
    <3> QED
      BY <1>0, <2>1, <2>2, <2>3, UpdatedRow DEF Present
  <2>5. \A v \in Worker : Busy(v)' =>
            /\ Busy(v)
            /\ workers'[v].job = workers[v].job
            /\ workers'[v].seen = workers[v].seen
            /\ workers'[v].read = workers[v].read
            /\ workers'[v].pc = "failing" => workers[v].pc = "failing"
    BY <1>0, <1>9 DEF MarkRunning, TypeOK, WorkerState, Busy
  <2> QED
    BY <1>j, <2>4, <2>5, ReadingsFrame
<1>10. ASSUME NEW w \in Worker, MarkFailedRead(w)
       PROVE  ReadingsHold'
  <2>1. CASE Present(workers[w].job)
    <3> DEFINE state == [workers[w] EXCEPT !.pc = "failing",
                                           !.read = jobs[workers[w].job].attempts]
    <3>1. /\ state.job = workers[w].job
          /\ state.seen = workers[w].seen
          /\ state.read = jobs[workers[w].job].attempts
      BY <1>0 DEF TypeOK, WorkerState
    <3>2. workers' = [workers EXCEPT ![w] = state] /\ Busy(w) /\ UNCHANGED jobs
      BY <1>10, <2>1 DEF MarkFailedRead, Busy
    <3> HIDE DEF state
    <3>3. workers'[w] = state /\ \A v \in Worker : v # w => workers'[v] = workers[v]
      BY <1>0, <3>2 DEF TypeOK
    <3> QED
      BY <3>1, <3>2, <3>3 DEF ReadingsHold, Reading, Busy, Present
  <2>2. CASE ~Present(workers[w].job)
    BY <1>0, <1>10, <2>2, ReleaseType, ReadingsFrame DEF MarkFailedRead, Present
  <2> QED
    BY <2>1, <2>2
<1>11. ASSUME NEW w \in Worker, MarkFailedWrite(w) \/ MarkSuccess(w)
       PROVE  ReadingsHold'
  <2> DEFINE j == workers[w].job
  <2>1. Busy(w) /\ j \in JobId
    BY <1>11, <1>j DEF MarkFailedWrite, MarkSuccess, Busy
  <2>2. \A v \in Worker : Busy(v)' => v # w /\ Busy(v) /\ workers'[v] = workers[v]
    BY <1>0, <1>11, ReleaseType DEF MarkFailedWrite, MarkSuccess
  <2>3. \A i \in JobId : i # j => jobs'[i] = jobs[i]
    BY <1>0, <1>11 DEF MarkFailedWrite, MarkSuccess, Updated, TypeOK
  <2>4. \A v \in Worker : Busy(v)' => jobs'[workers[v].job] = jobs[workers[v].job]
    BY <1>j, <2>1, <2>2, <2>3 DEF IndInv, ExclusiveExecution
  <2> QED
    BY <2>2, <2>4, ReadingsFrame DEF Present
<1>12. CASE Tick
  <2>1. \A j \in JobId : /\ jobs'[j].status = jobs[j].status
                         /\ jobs'[j].attempts = jobs[j].attempts
    BY <1>0, <1>12, OlderType DEF Tick, TypeOK
  <2>2. \A w \in Worker : workers'[w].seen = workers[w].seen
                          /\ workers'[w].read = workers[w].read
    BY <1>0, <1>12, LaterType DEF Tick, TypeOK
  <2>3. \A w \in Worker : workers'[w].pc = workers[w].pc
                          /\ workers'[w].job = workers[w].job
    BY <1>0, <1>12, LaterType DEF Tick, TypeOK
  <2> QED
    BY <1>j, <2>1, <2>2, <2>3, ReadingsFrame DEF Busy, Present
<1> QED
  BY <1>1, <1>2, <1>3, <1>4, <1>5, <1>6, <1>7, <1>8, <1>9, <1>10, <1>11, <1>12
     DEF Next, Producers, Step, Fault, Cancel, Purge

----------------------------------------------------------------------------
(* The accounts of a job *)

\* A job that may still be claimed has tries left; ids not handed out have none.
Accounted(j) ==
    /\ j >= nextId => claims[j] = 0
    /\ Present(j) =>
          claims[j] = jobs[j].attempts
                      + (IF jobs[j].status \in InFlight \cup {"success"} THEN 1 ELSE 0)
    /\ claims[j] <= MaxAttempts + grants[j]
    /\ Present(j) /\ jobs[j].status = "pending" => claims[j] < MaxAttempts + grants[j]

AccountsInv == ReadingsHold /\ \A j \in JobId : Accounted(j)

LEMMA AccountsStep ==
    ASSUME IndInv, AccountsInv, TypeOK', [Next]_vars, NEW j \in JobId
    PROVE  Accounted(j)'
<1>1. JobStep(j) /\ nextId' >= nextId
  BY LifeOfAJob DEF AccountsInv
<1>2. /\ Accounted(j)
      /\ j >= nextId => jobs[j].status = "absent"
      /\ j \in Nat /\ nextId \in Nat /\ nextId' \in Nat
      /\ MaxAttempts \in Nat \ {0}
      /\ claims[j] \in Nat /\ grants[j] \in Nat
      /\ jobs[j].attempts \in Nat /\ jobs'[j].attempts \in Nat
      /\ jobs[j].status \in Status
  BY Sizes DEF AccountsInv, IndInv, TypeOK, FutureIsAbsent, Present, JobId, Row
<1> USE DEF Accounted, Present, InFlight
<1>3. CASE claims'[j] = claims[j] /\ grants'[j] = grants[j]
  <2>1. CASE Kept(j)
    BY <1>1, <1>2, <1>3, <2>1 DEF Kept
  <2>2. CASE Created(j)
    BY <1>1, <1>2, <1>3, <2>2 DEF Created
  <2>3. CASE Charged(j)
    BY <1>1, <1>2, <1>3, <2>3 DEF Charged, AfterAttempt
  <2>4. CASE jobs[j].status # "failed" /\ jobs'[j].status = "absent"
    BY <1>1, <1>2, <1>3, <2>4
  <2>5. CASE Moved(j, InFlight, {"running", "success"})
    BY <1>1, <1>2, <1>3, <2>5 DEF Moved
  <2> QED
    BY <1>1, <1>2, <1>3, <2>1, <2>2, <2>3, <2>4, <2>5 DEF JobStep
<1>4. CASE Moved(j, {"pending"}, {"claimed"}) /\ claims'[j] = claims[j] + 1
           /\ grants'[j] = grants[j]
  BY <1>1, <1>2, <1>4 DEF Moved
<1>5. CASE Moved(j, {"failed"}, {"pending"}) /\ claims'[j] = claims[j]
           /\ grants'[j] = grants[j] + 1
  BY <1>1, <1>2, <1>5 DEF Moved
<1> QED
  BY <1>1, <1>3, <1>4, <1>5 DEF JobStep

LEMMA AccountsInvariance == Spec => []AccountsInv
<1>1. Init => AccountsInv
  BY Sizes DEF Init, AccountsInv, ReadingsHold, Busy, Started, Accounted, Present, Blank, JobId
<1>2. IndInv /\ IndInv' /\ AccountsInv /\ [Next]_vars => AccountsInv'
  BY AccountsStep, ReadingsStep DEF AccountsInv, IndInv
<1> QED
  BY <1>1, <1>2, Invariance, PTL DEF Spec

\* No crash, reap or lost call lets an attempt go uncounted, or counts it twice.
THEOREM AttemptsAreExact == Spec => []ClaimsAreCounted
<1>1. AccountsInv => ClaimsAreCounted
  BY DEF AccountsInv, Accounted, ClaimsAreCounted
<1> QED
  BY <1>1, AccountsInvariance, PTL

\* A job is claimed max_attempts times at most, and once more for each admin retry.
THEOREM PoisonIsGivenUp == Spec => []BudgetIsRespected
<1>1. AccountsInv => BudgetIsRespected
  BY DEF AccountsInv, Accounted, BudgetIsRespected
<1> QED
  BY <1>1, AccountsInvariance, PTL

\* The queue gives a job up after an exception when, and only when, the handler
\* had been told that this attempt was the last.
THEOREM LastAttemptTold == Spec => LastAttemptIsAnnounced
<1> DEFINE Told == \A w \in Worker :
               LET j == workers[w].job IN
               MarkFailedWrite(w) /\ workers[w].began /\ Present(j)
                   => (jobs'[j].status = "failed" <=> ToldLast(w))
<1>1. IndInv /\ AccountsInv /\ [Next]_vars => Told
  <2> SUFFICES ASSUME IndInv, AccountsInv,
                      NEW w \in Worker, MarkFailedWrite(w), Present(workers[w].job)
               PROVE  jobs'[workers[w].job].status = "failed" <=> ToldLast(w)
    OBVIOUS
  <2> DEFINE j == workers[w].job
             spent == workers[w].read + 1
  <2>1. /\ Busy(w) /\ j \in JobId /\ jobs[j] \in Row /\ jobs \in [JobId -> Row]
        /\ workers[w].seen \in Nat /\ workers[w].pc = "failing"
    BY DEF MarkFailedWrite, Busy, IndInv, TypeOK, WorkerState
  <2>2. workers[w].read = workers[w].seen
    BY <2>1 DEF AccountsInv, ReadingsHold, Reading
  <2>3. jobs'[j] = Spent(jobs[j], spent, Backoff(spent))
    BY <2>1 DEF MarkFailedWrite, Updated
  <2>4. jobs'[j].status = AfterAttempt(spent)
    BY <2>1, <2>3, SpentFields
  <2> QED
    BY <2>1, <2>2, <2>4, Sizes DEF AfterAttempt, ToldLast
<1>2. IndInv /\ AccountsInv /\ [Next]_vars => [Told]_vars
  BY <1>1
<1> QED
  BY <1>2, Invariance, AccountsInvariance, PTL DEF Spec, LastAttemptIsAnnounced

\* No late mark_* call, reap or claim takes a verdict back.
THEOREM VerdictsAreFinal == Spec => VerdictsStand
<1> DEFINE Stand == \A j \in JobId :
        /\ jobs[j].status = "success" => jobs'[j].status \in {"success", "absent"}
        /\ jobs[j].status = "failed" =>
               \/ jobs'[j].status = "failed"
               \/ jobs'[j].status = "pending" /\ grants'[j] = grants[j] + 1
<1>1. IndInv /\ AccountsInv /\ [Next]_vars => Stand
  <2> SUFFICES ASSUME IndInv, AccountsInv, [Next]_vars, NEW j \in JobId,
                      jobs[j].status \in Settled
               PROVE  \/ jobs'[j].status = jobs[j].status
                      \/ jobs[j].status = "success" /\ jobs'[j].status = "absent"
                      \/ /\ jobs[j].status = "failed" /\ jobs'[j].status = "pending"
                         /\ grants'[j] = grants[j] + 1
    BY DEF Settled
  <2>1. JobStep(j)
    BY LifeOfAJob DEF AccountsInv
  <2>2. ~Created(j)
    BY Sizes DEF Created, IndInv, TypeOK, FutureIsAbsent, Present, Settled, JobId
  <2> QED
    BY <2>1, <2>2 DEF JobStep, Kept, Charged, Moved, InFlight, Settled
<1>2. IndInv /\ AccountsInv /\ [Next]_vars => [Stand]_vars
  BY <1>1
<1> QED
  BY <1>2, Invariance, AccountsInvariance, PTL DEF Spec, VerdictsStand
=============================================================================
