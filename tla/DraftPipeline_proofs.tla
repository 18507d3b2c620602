------------------------ MODULE DraftPipeline_proofs ------------------------
(***************************************************************************)
(* Proofs about DraftPipeline, for any number of workers, requests, jobs,  *)
(* versions and attempts.                                                  *)
(***************************************************************************)
EXTENDS DraftPipeline, SequenceTheorems, TLAPS

\* The facts about the constants that the provers need, in one place.
LEMMA Constants ==
    /\ MaxVersions \in Nat /\ MaxVersions >= 1 /\ MaxAttempts \in Nat /\ MaxAttempts >= 1
    /\ Version \subseteq Content /\ 0 \in Content /\ 0 \notin Version
    /\ Op \subseteq {"upload", "retry", "reanalyze", "report", "download", "export", "delete"}
BY BoundsAssumption, ChoicesAssumption DEF Version, Content

-----------------------------------------------------------------------------
(* What workers and requests know: the strengthening of TypeOK *)

\* A worker at a job, with the local variables of the handler.
AtJob == {"claimed", "loaded", "working", "committed", "loading", "rendering",
          "returned", "raised", "aborted"}
JobState == [pc : AtJob, slot : Slot, stage : Stage, last : BOOLEAN, ver : Content, from : Content,
             paths : SUBSET Version]
Busy(w) == workers[w] \in JobState

\* Which handler is where, and whether it has loaded a version.
KnowsJob(k) ==
    /\ k.pc \in {"loaded", "working", "committed", "loading", "raised"} => k.stage \in Pipeline
    /\ k.pc \in {"loaded", "working", "loading", "committed"} => k.ver \in Version
    /\ k.pc \in {"loaded", "committed"} => k.stage \in {"parse", "extract"}
    /\ k.pc = "loading" => k.stage = "analyze"
    /\ k.pc = "rendering" => k.stage = "export"
WorkersKnow == \A w \in Worker : Busy(w) => KnowsJob(workers[w])

\* What a request has read, and which requests come to an enqueue.
Knows(r) ==
    /\ r.pc = "checked" => r.seen \in StartsFrom(r.op)
    /\ r.pc = "collected" => r.op = "delete"
    /\ r.pc = "committed" => r.op \in {"upload", "retry", "reanalyze", "report", "delete"}
RequestsKnow == \A t \in Tab : requests[t] # Idle => Knows(requests[t])

TypeInv == TypeOK /\ WorkersKnow /\ RequestsKnow

Row == [status : DraftStatus, text : Content]
DraftRow == [status : DraftStatus \cup {"none", "deleted"}, text : Content, entities : Content]
\* The tables, whose types hang together.
TablesOK ==
    /\ draft \in DraftRow
    /\ versions \in Seq(Row) /\ Latest \in Content
    /\ Present <=> versions # <<>>
    /\ reports \subseteq ReportRow

LEMMA TablesTyped == TypeOK <=>
    /\ TablesOK
    /\ files \subseteq Version /\ graphs \subseteq Version /\ exported \in BOOLEAN
    /\ jobs \in [Slot -> Job \cup {NoJob}]
    /\ workers \in [Worker -> WorkerState]
    /\ requests \in [Tab -> RequestState]
BY DEF TypeOK, TablesOK, Row, DraftRow

-----------------------------------------------------------------------------
(* The rows of the draft *)

LEMMA LatestRow ==
    ASSUME TablesOK
    PROVE  /\ Latest \in Nat /\ DOMAIN versions = 1 .. Latest
           /\ Present => Latest \in 1 .. Latest /\ Latest \in Version /\ versions[Latest] \in Row
           /\ ~Present => Latest = 0 /\ versions = <<>>
           /\ \A v \in 1 .. Latest : versions[v] \in Row
<1>1. versions \in Seq(Row)
  BY DEF TablesOK
<1>2. Latest \in Nat /\ DOMAIN versions = 1 .. Latest
  BY <1>1, LenProperties DEF Latest
<1>3. \A v \in 1 .. Latest : versions[v] \in Row
  BY <1>1, ElementOfSeq DEF Latest
<1>4. Present => Latest > 0
  BY <1>1, <1>2, EmptySeq DEF TablesOK, Latest
<1>5. ~Present => Latest = 0 /\ versions = <<>>
  BY <1>1, EmptySeq DEF TablesOK, Latest
<1> QED
  BY <1>2, <1>3, <1>4, <1>5, Constants DEF TablesOK, Version, Content

\* The latest row of versions is replaced.
LEMMA RowReplaced ==
    ASSUME TablesOK, Present, NEW row \in Row, versions' = [versions EXCEPT ![Latest] = row]
    PROVE  /\ versions' \in Seq(Row) /\ Latest' = Latest /\ versions' # <<>>
           /\ versions'[Latest] = row
           /\ \A v \in 1 .. Latest : v # Latest => versions'[v] = versions[v]
<1>1. Latest \in 1 .. Len(versions) /\ versions \in Seq(Row) /\ Latest \in Nat
  BY LatestRow DEF TablesOK, Latest
<1>2. /\ versions' \in Seq(Row) /\ Len(versions') = Len(versions)
      /\ \A v \in 1 .. Len(versions) : versions'[v] = IF v = Latest THEN row ELSE versions[v]
  <2> DEFINE i == Latest
  <2>1. i \in 1 .. Len(versions)
    BY <1>1
  <2> HIDE DEF i
  <2>2. /\ [versions EXCEPT ![i] = row] \in Seq(Row)
        /\ Len([versions EXCEPT ![i] = row]) = Len(versions)
        /\ \A v \in 1 .. Len(versions) :
              [versions EXCEPT ![i] = row][v] = IF v = i THEN row ELSE versions[v]
    BY <1>1, <2>1, ExceptSeq
  <2> QED
    BY <2>2 DEF i
<1>3. versions' # <<>>
  BY <1>1, <1>2, EmptySeq
<1> QED
  BY <1>1, <1>2, <1>3 DEF Latest

\* update_draft_status
LEMMA SetStatusTables ==
    ASSUME TablesOK, NEW status \in DraftStatus, NEW expected \in SUBSET DraftStatus,
           SetStatus(status, expected), UNCHANGED reports
    PROVE  /\ TablesOK' /\ Latest' = Latest /\ Present' = Present
           /\ draft'.text = draft.text /\ draft'.entities = draft.entities
           /\ draft'.status = IF draft.status \in expected THEN status ELSE draft.status
           /\ Present => versions'[Latest] = [versions[Latest] EXCEPT !.status = status]
           /\ ~Present => draft' = draft /\ versions' = versions
           /\ \A v \in 1 .. Latest : v # Latest => versions'[v] = versions[v]
<1>1. /\ draft' \in DraftRow /\ draft'.text = draft.text /\ draft'.entities = draft.entities
      /\ draft'.status = IF draft.status \in expected THEN status ELSE draft.status
  BY DEF SetStatus, TablesOK, DraftRow
<1>2. Present' = Present
  BY <1>1 DEF Present
<1>3. CASE Present
  <2>1. [versions[Latest] EXCEPT !.status = status] \in Row
    BY <1>3, LatestRow DEF Row
  <2>2. versions' = [versions EXCEPT ![Latest] = [versions[Latest] EXCEPT !.status = status]]
    <3>1. Latest \in DOMAIN versions /\ versions' = [versions EXCEPT ![Latest].status = status]
      BY <1>3, LatestRow DEF SetStatus
    <3> QED
      BY <3>1
  <2>3. /\ versions' \in Seq(Row) /\ Latest' = Latest /\ versions' # <<>>
        /\ versions'[Latest] = [versions[Latest] EXCEPT !.status = status]
        /\ \A v \in 1 .. Latest : v # Latest => versions'[v] = versions[v]
    BY <1>3, <2>1, <2>2, RowReplaced
  <2> QED
    BY <1>1, <1>2, <1>3, <2>3 DEF TablesOK
<1>4. CASE ~Present
  <2>1. versions' = versions /\ draft' = draft /\ Latest' = Latest
    BY <1>4 DEF SetStatus, Present, Latest
  <2> QED
    BY <1>1, <1>2, <1>4, <2>1 DEF TablesOK
<1> QED
  BY <1>3, <1>4

-----------------------------------------------------------------------------
(* The records of workers and requests *)

\* A worker's pc tells which fields its record has.
LEMMA WorkerShape ==
    ASSUME NEW k \in WorkerState
    PROVE  /\ k.pc \in AtJob => k \in JobState
           /\ k.pc = "idle" => k = Idle
           /\ k.pc = "finalizing" => k.seen \in InProgress
           /\ k.pc \in AtJob \cup {"idle", "finalize", "finalizing"}
           /\ k \in JobState => k.pc \in AtJob
BY DEF WorkerState, JobState, Idle, AtJob

LEMMA JobStateIsState == JobState \subseteq WorkerState /\ Idle \in WorkerState /\ [pc |-> "finalize"] \in WorkerState
BY DEF WorkerState, JobState, AtJob

LEMMA RequestShape ==
    ASSUME NEW r \in RequestState
    PROVE  /\ r.pc # "idle" => /\ r.pc \in {"checked", "collected", "committed"} /\ r.op \in Op
                               /\ r.seen \in DraftStatus \cup {"none"} /\ r.paths \in SUBSET Version
           /\ r.pc = "idle" <=> r = Idle
BY DEF RequestState, Idle

\* Step: the handler goes on.
LEMMA StepKnows ==
    ASSUME workers \in [Worker -> WorkerState], WorkersKnow, NEW w \in Worker, Busy(w), NEW pc \in AtJob,
           Step(w, pc), KnowsJob([workers[w] EXCEPT !.pc = pc])
    PROVE  /\ workers' \in [Worker -> WorkerState] /\ WorkersKnow'
           /\ workers'[w] = [workers[w] EXCEPT !.pc = pc]
           /\ \A v \in Worker : v # w => workers'[v] = workers[v]
<1>1. [workers[w] EXCEPT !.pc = pc] \in JobState
  BY DEF Busy, JobState
<1>2. workers' = [workers EXCEPT ![w] = [workers[w] EXCEPT !.pc = pc]]
  BY DEF Step
<1> DEFINE k == [workers[w] EXCEPT !.pc = pc]
<1> HIDE DEF k
<1>3. /\ workers' \in [Worker -> WorkerState] /\ workers'[w] = k
      /\ \A v \in Worker : v # w => workers'[v] = workers[v]
  BY <1>1, <1>2, JobStateIsState DEF k
<1>4. WorkersKnow'
  BY <1>3 DEF WorkersKnow, Busy, k
<1> QED
  BY <1>3, <1>4 DEF k

\* The record of one worker is replaced.
LEMMA WorkerReplaced ==
    ASSUME workers \in [Worker -> WorkerState], WorkersKnow, NEW w \in Worker, NEW k \in WorkerState,
           k \in JobState => KnowsJob(k), workers' = [workers EXCEPT ![w] = k]
    PROVE  /\ workers' \in [Worker -> WorkerState] /\ WorkersKnow'
           /\ workers'[w] = k
           /\ \A v \in Worker : v # w => workers'[v] = workers[v]
BY DEF WorkersKnow, Busy

LEMMA RestKnows ==
    ASSUME workers \in [Worker -> WorkerState], WorkersKnow, NEW w \in Worker, Rest(w)
    PROVE  /\ workers' \in [Worker -> WorkerState] /\ WorkersKnow'
           /\ workers'[w] = Idle
           /\ \A v \in Worker : v # w => workers'[v] = workers[v]
<1>1. Idle \notin JobState
  BY DEF Idle, JobState, AtJob
<1> QED
  BY <1>1, JobStateIsState, WorkerReplaced DEF Rest

LEMMA ThenKnows ==
    ASSUME requests \in [Tab -> RequestState], RequestsKnow, NEW t \in Tab, requests[t].pc # "idle",
           NEW pc, Then(t, pc),
           \/ pc = "idle"
           \/ pc = "committed" /\ requests[t].op \in {"upload", "retry", "reanalyze", "report", "delete"}
    PROVE  /\ requests' \in [Tab -> RequestState] /\ RequestsKnow'
           /\ requests'[t] = IF pc = "idle" THEN Idle ELSE [requests[t] EXCEPT !.pc = pc]
           /\ \A u \in Tab : u # t => requests'[u] = requests[u]
<1> DEFINE r == IF pc = "idle" THEN Idle ELSE [requests[t] EXCEPT !.pc = pc]
<1>1. requests' = [requests EXCEPT ![t] = r]
  BY DEF Then
<1>2. r \in RequestState
  BY DEF RequestState, Idle
<1>3. r # Idle => Knows(r)
  BY DEF RequestState, Idle, Knows
<1> HIDE DEF r
<1>4. /\ requests' \in [Tab -> RequestState] /\ requests'[t] = r
      /\ \A u \in Tab : u # t => requests'[u] = requests[u]
  BY <1>1, <1>2
<1>5. RequestsKnow'
  BY <1>3, <1>4 DEF RequestsKnow
<1> QED
  BY <1>4, <1>5 DEF r

-----------------------------------------------------------------------------
(* The queue *)

LEMMA EnqueueType ==
    ASSUME jobs \in [Slot -> Job \cup {NoJob}], NEW stage \in Stage, NEW paths \in SUBSET Version,
           Enqueue(stage, paths)
    PROVE  /\ jobs' \in [Slot -> Job \cup {NoJob}]
           /\ \E s \in FreeSlots :
                 /\ jobs' = [jobs EXCEPT ![s] = [stage |-> stage, state |-> "pending",
                                                 attempts |-> 0, paths |-> paths]]
<1>1. 0 \in 0 .. MaxAttempts - 1
  BY Constants
<1>2. [stage |-> stage, state |-> "pending", attempts |-> 0, paths |-> paths] \in Job
  BY <1>1 DEF Job
<1>3. FreeSlots \subseteq Slot
  BY DEF FreeSlots
<1> QED
  BY <1>2, <1>3 DEF Enqueue

LEMMA PurgedType ==
    ASSUME jobs \in [Slot -> Job \cup {NoJob}]
    PROVE  Purged \in [Slot -> Job \cup {NoJob}]
BY DEF Purged

\* mark_failed and the reaper: what becomes of a job whose attempt is spent.
LEMMA SpentType ==
    ASSUME jobs \in [Slot -> Job \cup {NoJob}], NEW s \in Slot, Unfinished(s)
    PROVE  /\ Spent(s) \in [Slot -> Job \cup {NoJob}]
           /\ \A r \in Slot : r # s => Spent(s)[r] = jobs[r]
           /\ jobs[s].attempts + 1 < MaxAttempts =>
                 Spent(s)[s] = [jobs[s] EXCEPT !.state = "pending", !.attempts = @ + 1]
           /\ ~(jobs[s].attempts + 1 < MaxAttempts) /\ jobs[s].stage # "cleanup" => Spent(s)[s] = NoJob
           /\ ~(jobs[s].attempts + 1 < MaxAttempts) => Spent(s)[s] = NoJob \/ Spent(s)[s].state = "failed"
<1>1. jobs[s] \in Job
  BY DEF Unfinished, NoJob
<1>2. CASE jobs[s].attempts + 1 < MaxAttempts
  <2> DEFINE k == [jobs[s] EXCEPT !.state = "pending", !.attempts = @ + 1]
  <2>1. k \in Job
    <3>1. jobs[s].attempts + 1 \in 0 .. MaxAttempts - 1
      BY <1>1, <1>2, Constants DEF Job
    <3> QED
      BY <1>1, <3>1 DEF Job
  <2>2. Spent(s) = [jobs EXCEPT ![s] = k]
    BY <1>2 DEF Spent
  <2> HIDE DEF k
  <2>3. Spent(s) \in [Slot -> Job \cup {NoJob}] /\ Spent(s)[s] = k
        /\ \A r \in Slot : r # s => Spent(s)[r] = jobs[r]
    BY <2>1, <2>2
  <2> QED
    BY <1>2, <2>3 DEF k
<1>3. CASE ~(jobs[s].attempts + 1 < MaxAttempts)
  <2> DEFINE k == IF jobs[s].stage = "cleanup" THEN [jobs[s] EXCEPT !.state = "failed"] ELSE NoJob
  <2>1. k \in Job \cup {NoJob} /\ (k = NoJob \/ k.state = "failed")
    BY <1>1 DEF Job
  <2>2. Spent(s) = [jobs EXCEPT ![s] = k]
    BY <1>3 DEF Spent
  <2>3. jobs[s].stage # "cleanup" => k = NoJob
    OBVIOUS
  <2> HIDE DEF k
  <2>4. Spent(s) \in [Slot -> Job \cup {NoJob}] /\ Spent(s)[s] = k
        /\ \A r \in Slot : r # s => Spent(s)[r] = jobs[r]
    BY <2>1, <2>2
  <2> QED
    BY <1>3, <2>1, <2>3, <2>4
<1> QED
  BY <1>2, <1>3

-----------------------------------------------------------------------------
(* Types *)

LEMMA InitType == Init => TypeInv
<1> SUFFICES ASSUME Init PROVE TypeInv
  OBVIOUS
<1>1. versions \in Seq(Row) /\ Latest = 0
  BY EmptySeq DEF Init, Latest
<1>2. TablesOK
  BY <1>1, Constants DEF Init, TablesOK, DraftRow, Present, DraftStatus, InProgress
<1>3. TypeOK
  BY <1>2, TablesTyped, JobStateIsState DEF Init, RequestState
<1>4. Idle \notin JobState
  BY DEF Idle, JobState, AtJob
<1> QED
  BY <1>3, <1>4 DEF Init, TypeInv, WorkersKnow, Busy, RequestsKnow

\* A step of a request: of the rows, the queue and its own record.
RequestStep(t) ==
    \/ \E op \in Op : Check(t, op)
    \/ Upload(t) \/ Retry(t) \/ Reanalyze(t) \/ ReportReanalyze(t)
    \/ Export(t) \/ Download(t) \/ Collect(t) \/ Delete(t)
    \/ EnqueueFirst(t) \/ EnqueueLost(t) \/ Refused(t)

LEMMA UploadTables ==
    ASSUME TablesOK, NEW t \in Tab, Upload(t)
    PROVE  /\ TablesOK' /\ Latest' = Latest + 1 /\ Present'
           /\ draft'.status = "uploaded" /\ draft'.text = draft.text /\ draft'.entities = draft.entities
           /\ versions'[Latest + 1] = [status |-> "uploaded", text |-> 0]
           /\ \A v \in 1 .. Latest : versions'[v] = versions[v]
<1> DEFINE row == [status |-> "uploaded", text |-> 0]
<1>1. row \in Row
  BY Constants DEF Row, DraftStatus, InProgress
<1>2. versions \in Seq(Row) /\ Latest = Len(versions) /\ Latest \in Nat
  BY LatestRow DEF TablesOK, Latest
<1>3. versions' = Append(versions, row)
  BY DEF Upload
<1> HIDE DEF row
<1>4. /\ versions' \in Seq(Row) /\ Len(versions') = Latest + 1
      /\ versions'[Latest + 1] = row /\ \A v \in 1 .. Latest : versions'[v] = versions[v]
  BY <1>1, <1>2, <1>3, AppendProperties
<1>5. Latest' = Latest + 1 /\ versions' # <<>>
  BY <1>2, <1>4, EmptySeq DEF Latest
<1>6. Latest + 1 \in Content
  BY <1>2, Constants DEF Upload, Content
<1>7. /\ draft' \in DraftRow /\ draft'.status = "uploaded"
      /\ draft'.text = draft.text /\ draft'.entities = draft.entities
  BY DEF Upload, TablesOK, DraftRow, DraftStatus, InProgress
<1>8. Present'
  BY <1>7 DEF Present, DraftStatus, InProgress
<1>9. TablesOK'
  BY <1>4, <1>5, <1>6, <1>7, <1>8 DEF TablesOK, Upload
<1> QED
  BY <1>4, <1>5, <1>7, <1>8, <1>9 DEF row

LEMMA RequestTables ==
    ASSUME TypeInv, NEW t \in Tab, RequestStep(t)
    PROVE  TablesOK'
<1>1. TablesOK
  BY TablesTyped DEF TypeInv
<1>2. ASSUME UNCHANGED <<draft, versions, reports>>
      PROVE  TablesOK'
  BY <1>1, <1>2 DEF TablesOK, Latest, Present
<1>3. CASE Upload(t)
  BY <1>1, <1>3, UploadTables
<1>4. CASE Retry(t)
  BY <1>1, <1>4, SetStatusTables DEF Retry, Restart, DraftStatus, InProgress
<1>5. CASE Reanalyze(t)
  <2>1. requests[t] # Idle /\ requests[t].pc = "checked" /\ requests[t].op = "reanalyze"
    BY <1>5 DEF Reanalyze, Restart, Committing, Idle
  <2>2. requests[t].seen \in DraftStatus
    BY <2>1 DEF TypeInv, RequestsKnow, Knows, StartsFrom, DraftStatus, InProgress
  <2>3. {requests[t].seen} \in SUBSET DraftStatus /\ "analyzing" \in DraftStatus
    BY <2>2 DEF DraftStatus, InProgress
  <2>4. SetStatus("analyzing", {requests[t].seen}) /\ UNCHANGED reports
    BY <1>5 DEF Reanalyze, Restart
  <2> QED
    BY <1>1, <2>3, <2>4, SetStatusTables
<1>6. CASE Delete(t)
  <2>1. versions' \in Seq(Row) /\ Latest' = 0 /\ versions' = <<>>
    BY <1>6, EmptySeq DEF Delete, Latest
  <2>2. draft' \in DraftRow /\ ~Present'
    BY <1>6, Constants DEF Delete, DraftRow, Present, DraftStatus, InProgress
  <2> QED
    BY <1>6, <2>1, <2>2, Constants DEF Delete, TablesOK
<1> QED
  BY <1>2, <1>3, <1>4, <1>5, <1>6 DEF RequestStep, Check, ReportReanalyze, Export, Download, Collect,
     EnqueueFirst, EnqueueLost, Refused, tables

\* What becomes of the record of a request.
LEMMA RequestRecord ==
    ASSUME TypeInv, NEW t \in Tab, RequestStep(t)
    PROVE  /\ requests' \in [Tab -> RequestState] /\ RequestsKnow'
           /\ \A u \in Tab : u # t => requests'[u] = requests[u]
<1>1. requests \in [Tab -> RequestState] /\ RequestsKnow
  BY DEF TypeInv, TypeOK
<1>2. ASSUME NEW r \in RequestState, Knows(r), requests' = [requests EXCEPT ![t] = r]
      PROVE  /\ requests' \in [Tab -> RequestState] /\ RequestsKnow'
             /\ \A u \in Tab : u # t => requests'[u] = requests[u]
  BY <1>1, <1>2 DEF RequestsKnow
<1>3. ASSUME requests[t].pc # "idle", NEW pc, Then(t, pc),
             \/ pc = "idle"
             \/ pc = "committed" /\ requests[t].op \in {"upload", "retry", "reanalyze", "report", "delete"}
      PROVE  /\ requests' \in [Tab -> RequestState] /\ RequestsKnow'
             /\ \A u \in Tab : u # t => requests'[u] = requests[u]
  BY <1>1, <1>3, ThenKnows
<1>4. ASSUME NEW op \in Op, Check(t, op)
      PROVE  /\ requests' \in [Tab -> RequestState] /\ RequestsKnow'
             /\ \A u \in Tab : u # t => requests'[u] = requests[u]
  <2> DEFINE r == [pc |-> "checked", op |-> op, seen |-> StatusRead, paths |-> {}]
  <2>1. StatusRead \in StartsFrom(op)
    BY <1>4 DEF Check
  <2>2. StartsFrom(op) \subseteq DraftStatus \cup {"none"}
    BY DEF StartsFrom, DraftStatus, InProgress
  <2>3. requests' = [requests EXCEPT ![t] = r]
    BY <1>4 DEF Check
  <2>4. r \in RequestState /\ Knows(r)
    BY <2>1, <2>2 DEF RequestState, Knows
  <2> HIDE DEF r
  <2> QED
    BY <1>2, <2>3, <2>4
<1>5. CASE Collect(t)
  <2> DEFINE r == [requests[t] EXCEPT !.pc = "collected", !.paths = DOMAIN versions]
  <2>1. requests[t] \in RequestState /\ requests[t].pc = "checked" /\ requests[t].op = "delete"
    BY <1>1, <1>5 DEF Collect, Committing
  <2>2. DOMAIN versions \in SUBSET Version
    <3>1. TablesOK
      BY TablesTyped DEF TypeInv
    <3> QED
      BY <3>1, LatestRow, Constants DEF TablesOK, Version, Content
  <2>3. requests' = [requests EXCEPT ![t] = r]
    BY <1>5 DEF Collect
  <2>4. r \in RequestState
    <3>1. PICK paths : paths = DOMAIN versions
      OBVIOUS
    <3>2. r = [requests[t] EXCEPT !.pc = "collected", !.paths = paths] /\ paths \in SUBSET Version
      BY <2>2, <3>1
    <3> DEFINE All == [pc : {"checked", "collected", "committed"}, op : Op,
                       seen : DraftStatus \cup {"none"}, paths : SUBSET Version]
    <3>3. requests[t] \in All
      BY <2>1 DEF RequestState, Idle
    <3>4. r \in All
      BY <3>2, <3>3
    <3> QED
      BY <3>4 DEF RequestState
  <2>5. Knows(r)
    BY <2>1 DEF RequestState, Idle, Knows
  <2> HIDE DEF r
  <2> QED
    BY <1>2, <2>3, <2>4, <2>5
<1>6. CASE Upload(t)
  BY <1>3, <1>6 DEF Upload, Committing
<1>7. CASE Retry(t)
  BY <1>3, <1>7 DEF Retry, Restart, Committing
<1>8. CASE Reanalyze(t)
  BY <1>3, <1>8 DEF Reanalyze, Restart, Committing
<1>9. CASE ReportReanalyze(t)
  BY <1>3, <1>9 DEF ReportReanalyze, Committing
<1>10. CASE Export(t)
  BY <1>3, <1>10 DEF Export, Committing
<1>11. CASE Download(t)
  BY <1>3, <1>11 DEF Download, Committing
<1>12. CASE Delete(t)
  <2>1. requests[t].pc = "collected" /\ requests[t].op = "delete"
    BY <1>1, <1>12 DEF Delete, RequestsKnow, Knows, Idle
  <2> QED
    BY <1>3, <1>12, <2>1 DEF Delete
<1>13. CASE EnqueueFirst(t) \/ EnqueueLost(t) \/ Refused(t)
  BY <1>3, <1>13 DEF EnqueueFirst, EnqueueLost, Refused
<1> QED
  BY <1>4, <1>5, <1>6, <1>7, <1>8, <1>9, <1>10, <1>11, <1>12, <1>13 DEF RequestStep

LEMMA RequestJobs ==
    ASSUME TypeInv, NEW t \in Tab, RequestStep(t)
    PROVE  jobs' \in [Slot -> Job \cup {NoJob}]
<1>1. jobs \in [Slot -> Job \cup {NoJob}]
  BY DEF TypeInv, TypeOK
<1>2. CASE EnqueueFirst(t)
  <2>1. requests[t].pc = "committed" /\ requests[t] # Idle
    BY <1>2 DEF EnqueueFirst, Idle
  <2>2. requests[t].op \in {"upload", "retry", "reanalyze", "report", "delete"}
    BY <2>1 DEF TypeInv, RequestsKnow, Knows
  <2>3. FirstStage(requests[t].op) \in Stage
    BY <2>2 DEF FirstStage, Stage, Pipeline
  <2>4. requests[t].paths \in SUBSET Version
    BY <2>1, RequestShape DEF TypeInv, TypeOK
  <2> QED
    BY <1>1, <1>2, <2>3, <2>4, EnqueueType DEF EnqueueFirst
<1>3. CASE Export(t)
  <2>1. "export" \in Stage /\ {} \in SUBSET Version
    BY DEF Stage
  <2> QED
    BY <1>1, <1>3, <2>1, EnqueueType DEF Export
<1>4. CASE ~EnqueueFirst(t) /\ ~Export(t)
  <2>1. jobs' = jobs \/ jobs' = Purged
    BY <1>4 DEF RequestStep, Check, Upload, Retry, Reanalyze, Restart, ReportReanalyze, Download, Collect,
       Delete, EnqueueLost, Refused
  <2> QED
    BY <1>1, <2>1, PurgedType
<1> QED
  BY <1>2, <1>3, <1>4

LEMMA RequestType ==
    ASSUME TypeInv, NEW t \in Tab, RequestStep(t)
    PROVE  TypeInv'
<1>1. /\ files \subseteq Version /\ graphs \subseteq Version /\ exported \in BOOLEAN
      /\ workers \in [Worker -> WorkerState] /\ WorkersKnow /\ TablesOK
  BY TablesTyped DEF TypeInv, TypeOK
<1>2. workers' = workers /\ graphs' = graphs
  BY DEF RequestStep, Check, Upload, Retry, Reanalyze, Restart, ReportReanalyze, Export, Download, Collect,
     Delete, EnqueueFirst, EnqueueLost, Refused, artifacts
<1>3. exported' \in BOOLEAN
  BY <1>1 DEF RequestStep, Check, Upload, Retry, Reanalyze, Restart, ReportReanalyze, Export, Download,
     Collect, Delete, EnqueueFirst, EnqueueLost, Refused, artifacts
<1>4. files' \subseteq Version
  <2>1. CASE Upload(t)
    <3>1. Latest + 1 \in Version
      BY <1>1, <2>1, LatestRow, Constants DEF Upload, Version
    <3> QED
      BY <1>1, <2>1, <3>1 DEF Upload
  <2>2. CASE ~Upload(t)
    BY <1>1, <2>2 DEF RequestStep, Check, Retry, Reanalyze, Restart, ReportReanalyze, Export, Download,
       Collect, Delete, EnqueueFirst, EnqueueLost, Refused, artifacts
  <2> QED
    BY <2>1, <2>2
<1>5. WorkersKnow'
  BY <1>1, <1>2 DEF WorkersKnow, Busy
<1>6. TablesOK' /\ jobs' \in [Slot -> Job \cup {NoJob}] /\ requests' \in [Tab -> RequestState] /\ RequestsKnow'
  BY RequestTables, RequestJobs, RequestRecord
<1>7. TypeOK'
  BY <1>1, <1>2, <1>3, <1>4, <1>6 DEF TypeOK, TablesOK, Row, DraftRow
<1> QED
  BY <1>5, <1>6, <1>7 DEF TypeInv

\* A step of a worker.
WorkerStep(w) == Progress(w) \/ Take(w) \/ Crash(w)

\* Progress of a handler that only moves on: all but Load, FinishJob and the finalisation.
Handles(w) ==
    \/ LoadFails(w) \/ Mark(w) \/ MarkFails(w) \/ WorkFails(w)
    \/ Parsed(w) \/ Extracted(w) \/ EnqueueNext(w) \/ PutGraph(w) \/ Analyzed(w)
    \/ LoadReport(w) \/ Rendered(w) \/ ExportFails(w)
    \/ Cleanup(w) \/ MarkFailed(w)

\* Handlers change their own record only, by moving on.
LEMMA HandlesMoves ==
    ASSUME TypeInv, NEW w \in Worker, Handles(w)
    PROVE  /\ Busy(w)
           /\ \E pc \in AtJob : Step(w, pc) /\ KnowsJob([workers[w] EXCEPT !.pc = pc])
<1>1. workers[w] \in WorkerState
  BY DEF TypeInv, TypeOK
<1>2. workers[w].pc \in AtJob
  BY DEF AtJob, Handles, At, LoadFails, Mark, MarkFails, WorkFails, Parsed, Extracted, EnqueueNext,
     PutGraph, Analyzed, LoadReport, Rendered, ExportFails, Cleanup, MarkFailed
<1>3. workers[w] \in JobState /\ Busy(w) /\ KnowsJob(workers[w])
  BY <1>1, <1>2, WorkerShape DEF Busy, TypeInv, WorkersKnow
<1>4. \E pc \in {"working", "committed", "loading", "rendering", "returned", "raised", "aborted"} :
          /\ Step(w, pc)
          /\ pc \in {"working", "committed", "loading", "raised"} => workers[w].stage \in Pipeline
          /\ pc \in {"working", "committed", "loading"} =>
                workers[w].pc \in {"loaded", "working"} /\ workers[w].pc # "claimed"
          /\ pc = "committed" => workers[w].stage \in {"parse", "extract"}
          /\ pc = "loading" => workers[w].stage = "analyze"
          /\ pc = "rendering" => workers[w].stage = "export"
  <2>1. LoadFails(w) => /\ workers[w].stage \in Pipeline
                        /\ Step(w, "raised") \/ Step(w, "aborted")
    BY DEF LoadFails, Raise, Doing
  <2>2. Mark(w) => workers[w].pc = "loaded" /\ Step(w, "working")
    BY DEF Mark, At
  <2>3. MarkFails(w) => workers[w].pc = "loaded" /\ (Step(w, "raised") \/ Step(w, "aborted"))
    BY DEF MarkFails, At, Raise
  <2>4. WorkFails(w) => workers[w].pc \in {"working", "loading", "committed"} /\ Step(w, "raised")
    BY DEF WorkFails, At, Raise
  <2>5. Parsed(w) \/ Extracted(w) => /\ workers[w].pc = "working" /\ Step(w, "committed")
                                     /\ workers[w].stage \in {"parse", "extract"}
    BY DEF Parsed, Extracted, At, Doing
  <2>6. EnqueueNext(w) \/ Analyzed(w) \/ Rendered(w) => Step(w, "returned")
    BY DEF EnqueueNext, Analyzed, Rendered
  <2>7. PutGraph(w) => workers[w].pc = "working" /\ Step(w, "loading") /\ workers[w].stage = "analyze"
    BY DEF PutGraph, At, Doing
  <2>8. LoadReport(w) => Step(w, "rendering") /\ workers[w].stage = "export"
    BY DEF LoadReport, Doing
  <2>9. ExportFails(w) \/ MarkFailed(w) => Step(w, "aborted")
    BY DEF ExportFails, MarkFailed, Raise
  <2>10. Cleanup(w) => Step(w, "returned") \/ Step(w, "aborted")
    BY DEF Cleanup
  <2>11. /\ workers[w].pc \in {"loaded", "working", "committed", "loading"} => workers[w].stage \in Pipeline
    BY <1>3 DEF KnowsJob
  <2> QED
    BY <2>1, <2>2, <2>3, <2>4, <2>5, <2>6, <2>7, <2>8, <2>9, <2>10, <2>11 DEF Handles
<1>5. PICK pc \in {"working", "committed", "loading", "rendering", "returned", "raised", "aborted"} :
          /\ Step(w, pc)
          /\ pc \in {"working", "committed", "loading", "raised"} => workers[w].stage \in Pipeline
          /\ pc \in {"working", "committed", "loading"} =>
                workers[w].pc \in {"loaded", "working"} /\ workers[w].pc # "claimed"
          /\ pc = "committed" => workers[w].stage \in {"parse", "extract"}
          /\ pc = "loading" => workers[w].stage = "analyze"
          /\ pc = "rendering" => workers[w].stage = "export"
  BY <1>4
<1>6. pc \in AtJob
  BY DEF AtJob
<1>7. KnowsJob([workers[w] EXCEPT !.pc = pc])
  BY <1>3, <1>5 DEF KnowsJob, JobState
<1> QED
  BY <1>3, <1>5, <1>6, <1>7

\* The record of a worker after each of its steps.
LEMMA WorkerRecord ==
    ASSUME TypeInv, NEW w \in Worker, WorkerStep(w)
    PROVE  /\ workers' \in [Worker -> WorkerState] /\ WorkersKnow'
           /\ \A v \in Worker : v # w => workers'[v] = workers[v]
<1>1. workers \in [Worker -> WorkerState] /\ WorkersKnow /\ TablesOK
      /\ jobs \in [Slot -> Job \cup {NoJob}]
  BY TablesTyped DEF TypeInv, TypeOK
<1>2. ASSUME NEW k \in WorkerState, k \in JobState => KnowsJob(k), workers' = [workers EXCEPT ![w] = k]
      PROVE  /\ workers' \in [Worker -> WorkerState] /\ WorkersKnow'
             /\ \A v \in Worker : v # w => workers'[v] = workers[v]
  BY <1>1, <1>2, WorkerReplaced
<1>3. CASE Handles(w)
  BY <1>1, <1>3, HandlesMoves, StepKnows
<1>4. CASE Rest(w)
  BY <1>1, <1>4, RestKnows
<1>5. CASE Load(w)
  <2>1. workers[w].pc = "claimed" /\ workers[w].stage \in Pipeline /\ workers[w] \in JobState
    BY <1>1, <1>5, WorkerShape DEF Load, At, Doing, AtJob
  <2>2. Latest \in Version /\ Latest \in Content
    BY <1>1, <1>5, LatestRow DEF Load, TablesOK
  <2>3. TextRead \in Content /\ draft.entities \in Content /\ 0 \in Content
    BY <1>1, <1>5, LatestRow, Constants DEF Load, TextRead, TablesOK, Row, DraftRow
  <2>4. PICK from \in Content : from = CASE Doing(w, {"parse"}) -> 0
                                         [] Doing(w, {"extract"}) -> TextRead
                                         [] OTHER -> draft.entities
    BY <2>3 DEF Doing
  <2> DEFINE pc == IF Doing(w, {"analyze"}) THEN "working" ELSE "loaded"
             k == [workers[w] EXCEPT !.pc = pc, !.ver = Latest, !.from = from]
  <2>5. workers' = [workers EXCEPT ![w] = k]
    BY <1>5, <2>4 DEF Load
  <2>6. k \in JobState
    BY <2>1, <2>2 DEF JobState, AtJob
  <2>7. KnowsJob(k)
    BY <2>1, <2>2 DEF KnowsJob, JobState, Doing, Pipeline
  <2> HIDE DEF k
  <2> QED
    BY <1>2, <2>5, <2>6, <2>7, JobStateIsState
<1>6. ASSUME NEW s \in Slot, Claim(w, s)
      PROVE  /\ workers' \in [Worker -> WorkerState] /\ WorkersKnow'
             /\ \A v \in Worker : v # w => workers'[v] = workers[v]
  <2>1. jobs[s] \in Job
    BY <1>1, <1>6 DEF Claim, NoJob
  <2> DEFINE last == (jobs[s].attempts + 1 >= MaxAttempts)
             k == [pc |-> "claimed", slot |-> s, stage |-> jobs[s].stage, last |-> last,
                   ver |-> 0, from |-> 0, paths |-> jobs[s].paths]
  <2>2. last \in BOOLEAN
    OBVIOUS
  <2>3. workers' = [workers EXCEPT ![w] = k]
    BY <1>6 DEF Claim
  <2>4. k.pc = "claimed"
    OBVIOUS
  <2> HIDE DEF last
  <2>5. k \in JobState
    BY <2>1, <2>2, Constants DEF JobState, AtJob, Job
  <2> HIDE DEF k
  <2>6. KnowsJob(k)
    BY <2>4 DEF KnowsJob
  <2> QED
    BY <1>2, <2>3, <2>5, <2>6, JobStateIsState
<1>7. ASSUME NEW s \in Slot, Reap(w, s)
      PROVE  /\ workers' \in [Worker -> WorkerState] /\ WorkersKnow'
             /\ \A v \in Worker : v # w => workers'[v] = workers[v]
  <2>1. workers' = workers \/ workers' = [workers EXCEPT ![w] = [pc |-> "finalize"]]
    BY <1>7 DEF Reap
  <2>2. [pc |-> "finalize"] \notin JobState
    BY DEF JobState, AtJob
  <2>3. CASE workers' = workers
    BY <1>1, <2>3 DEF WorkersKnow, Busy
  <2> QED
    BY <1>2, <2>1, <2>2, <2>3, JobStateIsState
<1>8. CASE FinalizeRead(w)
  <2> DEFINE k == [pc |-> "finalizing", seen |-> draft.status]
  <2>1. (workers' = [workers EXCEPT ![w] = k] /\ draft.status \in InProgress) \/ Rest(w)
    BY <1>8 DEF FinalizeRead, Rest
  <2>2. k \notin JobState /\ (draft.status \in InProgress => k \in WorkerState)
    BY DEF JobState, AtJob, WorkerState
  <2> HIDE DEF k
  <2> QED
    BY <1>2, <1>4, <2>1, <2>2
<1> QED
  BY <1>3, <1>4, <1>5, <1>6, <1>7, <1>8 DEF WorkerStep, Progress, Take, Handles, FinishJob, Crash,
     FinalizeWrite

\* What a handler knows when it writes.
LEMMA AtWork ==
    ASSUME TypeInv, NEW w \in Worker, workers[w].pc \in AtJob
    PROVE  workers[w] \in JobState /\ KnowsJob(workers[w]) /\ Busy(w)
BY WorkerShape DEF TypeInv, TypeOK, WorkersKnow, Busy

LEMMA ParsedTables ==
    ASSUME TypeInv, NEW w \in Worker, Parsed(w), Present
    PROVE  /\ TablesOK' /\ Latest' = Latest /\ Present'
           /\ draft'.status = "extracting" /\ draft'.text = workers[w].ver /\ draft'.entities = draft.entities
           /\ versions'[Latest].status = "extracting" /\ versions'[Latest].text = workers[w].ver
           /\ \A v \in 1 .. Latest : v # Latest => versions'[v] = versions[v]
<1> DEFINE row == [status |-> "extracting", text |-> workers[w].ver]
<1>1. TablesOK /\ workers[w].ver \in Content
  <2>1. workers[w].pc = "working" /\ workers[w].pc \in AtJob
    BY DEF Parsed, At, AtJob
  <2> QED
    BY <2>1, AtWork, TablesTyped DEF JobState, TypeInv
<1>2. row \in Row
  BY <1>1 DEF Row, DraftStatus, InProgress
<1>3. versions' = [versions EXCEPT ![Latest] = row]
  BY DEF Parsed
<1>4. row.status = "extracting" /\ row.text = workers[w].ver
  OBVIOUS
<1> HIDE DEF row
<1>5. /\ versions' \in Seq(Row) /\ Latest' = Latest /\ versions' # <<>>
      /\ versions'[Latest] = row
      /\ \A v \in 1 .. Latest : v # Latest => versions'[v] = versions[v]
  BY <1>1, <1>2, <1>3, RowReplaced
<1>6. /\ draft' \in DraftRow /\ draft'.status = "extracting"
      /\ draft'.text = workers[w].ver /\ draft'.entities = draft.entities
  BY <1>1 DEF Parsed, TablesOK, DraftRow, DraftStatus, InProgress
<1>7. Present'
  BY <1>6 DEF Present, DraftStatus, InProgress
<1>8. TablesOK'
  BY <1>1, <1>5, <1>6, <1>7 DEF TablesOK, Parsed
<1> QED
  BY <1>4, <1>5, <1>6, <1>7, <1>8

LEMMA ExtractedTables ==
    ASSUME TypeInv, NEW w \in Worker, Extracted(w)
    PROVE  /\ TablesOK' /\ Latest' = Latest /\ Present'
           /\ draft'.status = "analyzing" /\ draft'.text = draft.text /\ draft'.entities = workers[w].from
           /\ versions'[Latest] = [versions[Latest] EXCEPT !.status = "analyzing"]
           /\ \A v \in 1 .. Latest : v # Latest => versions'[v] = versions[v]
<1> DEFINE row == [versions[Latest] EXCEPT !.status = "analyzing"]
<1>1. TablesOK /\ workers[w].from \in Content /\ Present
  <2>1. workers[w].pc = "working" /\ workers[w].pc \in AtJob
    BY DEF Extracted, At, AtJob
  <2> QED
    BY <2>1, AtWork, TablesTyped DEF JobState, TypeInv, Extracted
<1>2. row \in Row
  BY <1>1, LatestRow DEF Row, DraftStatus, InProgress
<1>3. versions' = [versions EXCEPT ![Latest] = row]
  BY DEF Extracted
<1> HIDE DEF row
<1>5. /\ versions' \in Seq(Row) /\ Latest' = Latest /\ versions' # <<>>
      /\ versions'[Latest] = row
      /\ \A v \in 1 .. Latest : v # Latest => versions'[v] = versions[v]
  BY <1>1, <1>2, <1>3, RowReplaced
<1>6. /\ draft' \in DraftRow /\ draft'.status = "analyzing"
      /\ draft'.text = draft.text /\ draft'.entities = workers[w].from
  BY <1>1 DEF Extracted, TablesOK, DraftRow, DraftStatus, InProgress
<1>7. Present'
  BY <1>6 DEF Present, DraftStatus, InProgress
<1>8. TablesOK'
  BY <1>1, <1>5, <1>6, <1>7 DEF TablesOK, Extracted
<1> QED
  BY <1>5, <1>6, <1>7, <1>8 DEF row

\* The report of analyze_impact, with the status that comes with it.
LEMMA AnalyzedTables ==
    ASSUME TypeInv, NEW w \in Worker, Analyzed(w)
    PROVE  /\ TablesOK' /\ Latest' = Latest /\ Present'
           /\ draft'.text = draft.text /\ draft'.entities = draft.entities
           /\ draft'.status = "ready" /\ versions'[Latest] = [versions[Latest] EXCEPT !.status = "ready"]
           /\ \A v \in 1 .. Latest : v # Latest => versions'[v] = versions[v]
           /\ reports' = reports \cup
                 {[version |-> Latest, loaded |-> workers[w].ver, from |-> workers[w].from]}
<1>1. TablesOK /\ Present /\ workers[w].ver \in Version /\ workers[w].from \in Content
  <2>1. workers[w].pc = "loading" /\ workers[w].pc \in AtJob
    BY DEF Analyzed, At, AtJob
  <2> QED
    BY <2>1, AtWork, TablesTyped DEF JobState, TypeInv, Analyzed, KnowsJob
<1>2. draft \in DraftRow /\ versions \in Seq(Row) /\ draft.status \in DraftStatus
  BY <1>1 DEF TablesOK, Present
<1>3. [versions[Latest] EXCEPT !.status = "ready"] \in Row
  BY <1>1, LatestRow DEF Row, DraftStatus
<1>4. versions' = [versions EXCEPT ![Latest] = [versions[Latest] EXCEPT !.status = "ready"]]
  BY <1>1 DEF Analyzed, SetStatus
<1>5. /\ versions' \in Seq(Row) /\ Latest' = Latest /\ versions' # <<>>
      /\ versions'[Latest] = [versions[Latest] EXCEPT !.status = "ready"]
      /\ \A v \in 1 .. Latest : v # Latest => versions'[v] = versions[v]
  BY <1>1, <1>3, <1>4, RowReplaced
<1>6. /\ draft' \in DraftRow /\ draft'.status = "ready"
      /\ draft'.text = draft.text /\ draft'.entities = draft.entities
  BY <1>2 DEF Analyzed, SetStatus, DraftRow, DraftStatus
<1>7. Present'
  BY <1>6 DEF Present, DraftStatus
<1>8. reports' \subseteq ReportRow
  BY <1>1, LatestRow DEF Analyzed, TablesOK, ReportRow
<1>9. TablesOK'
  BY <1>1, <1>5, <1>6, <1>7, <1>8 DEF TablesOK
<1> QED
  BY <1>5, <1>6, <1>7, <1>9 DEF Analyzed

\* Workers write the latest version's row, and never add or remove one.
LEMMA WorkerTables ==
    ASSUME TypeInv, NEW w \in Worker, WorkerStep(w)
    PROVE  /\ TablesOK' /\ Latest' = Latest /\ Present' = Present
           /\ \A v \in 1 .. Latest : v # Latest => versions'[v] = versions[v]
<1> DEFINE RowsKept == /\ TablesOK' /\ Latest' = Latest /\ Present' = Present
                       /\ \A v \in 1 .. Latest : v # Latest => versions'[v] = versions[v]
<1>1. TablesOK
  BY TablesTyped DEF TypeInv
<1>2. ASSUME UNCHANGED <<draft, versions, reports>>
      PROVE  RowsKept
  BY <1>1, <1>2 DEF TablesOK, Latest, Present
<1>3. ASSUME NEW status \in DraftStatus, NEW expected \in SUBSET DraftStatus,
             SetStatus(status, expected), UNCHANGED reports
      PROVE  RowsKept
  BY <1>1, <1>3, SetStatusTables
<1>4. CASE Mark(w)
  <2> DEFINE status == IF Doing(w, {"parse"}) THEN "parsing" ELSE "extracting"
  <2>1. SetStatus(status, DraftStatus) /\ UNCHANGED reports /\ status \in DraftStatus
    BY <1>4 DEF Mark, DraftStatus, InProgress
  <2> HIDE DEF status
  <2> QED
    BY <1>3, <2>1
<1>5. CASE Parsed(w)
  <2>1. CASE Present
    BY <1>5, <2>1, ParsedTables
  <2>2. CASE ~Present
    BY <1>2, <1>5, <2>2 DEF Parsed
  <2> QED
    BY <2>1, <2>2
<1>6. CASE Extracted(w)
  BY <1>6, ExtractedTables DEF Extracted
<1>7. CASE Analyzed(w)
  BY <1>7, AnalyzedTables DEF Analyzed
<1>8. CASE MarkFailed(w)
  BY <1>2, <1>3, <1>8 DEF MarkFailed, DraftStatus
<1>9. CASE FinalizeWrite(w)
  <2>1. workers[w].seen \in InProgress
    BY <1>9, WorkerShape DEF FinalizeWrite, At, TypeInv, TypeOK
  <2> QED
    BY <1>3, <1>9, <2>1 DEF FinalizeWrite, DraftStatus
<1>10. CASE ~(Mark(w) \/ Parsed(w) \/ Extracted(w) \/ Analyzed(w) \/ MarkFailed(w) \/ FinalizeWrite(w))
  <2>1. UNCHANGED <<draft, versions, reports>>
    BY <1>10 DEF WorkerStep, Progress, Take, Crash, Load, LoadFails, MarkFails, WorkFails, Raise,
       EnqueueNext, PutGraph, LoadReport, Rendered, ExportFails, Cleanup, FinishJob, FinalizeRead,
       Claim, Reap, tables
  <2> QED
    BY <1>2, <2>1
<1> QED
  BY <1>4, <1>5, <1>6, <1>7, <1>8, <1>9, <1>10

LEMMA WorkerJobs ==
    ASSUME TypeInv, NEW w \in Worker, WorkerStep(w)
    PROVE  jobs' \in [Slot -> Job \cup {NoJob}]
<1>1. jobs \in [Slot -> Job \cup {NoJob}]
  BY DEF TypeInv, TypeOK
<1>2. CASE EnqueueNext(w)
  <2> DEFINE stage == IF Doing(w, {"parse"}) THEN "extract" ELSE "analyze"
  <2>1. Enqueue(stage, {}) /\ stage \in Stage /\ {} \in SUBSET Version
    BY <1>2 DEF EnqueueNext, Stage, Pipeline
  <2> HIDE DEF stage
  <2> QED
    BY <1>1, <2>1, EnqueueType
<1>3. CASE FinishJob(w)
  <2>1. workers[w].slot \in Slot
    <3>1. workers[w].pc \in AtJob
      BY <1>3 DEF FinishJob, At, AtJob
    <3> QED
      BY <3>1, AtWork DEF JobState
  <2>2. CASE ~Unfinished(workers[w].slot) \/ jobs' = [jobs EXCEPT ![workers[w].slot] = NoJob]
    BY <1>1, <1>3, <2>2 DEF FinishJob
  <2>3. CASE Unfinished(workers[w].slot) /\ jobs' = Spent(workers[w].slot)
    BY <1>1, <2>1, <2>3, SpentType
  <2> QED
    BY <1>3, <2>2, <2>3 DEF FinishJob
<1>4. ASSUME NEW s \in Slot, Claim(w, s)
      PROVE  jobs' \in [Slot -> Job \cup {NoJob}]
  <2>1. jobs[s] \in Job /\ jobs' = [jobs EXCEPT ![s] = [jobs[s] EXCEPT !.state = "held"]]
    BY <1>1, <1>4 DEF Claim, NoJob
  <2>2. [jobs[s] EXCEPT !.state = "held"] \in Job
    BY <2>1 DEF Job
  <2> QED
    BY <1>1, <2>1, <2>2
<1>5. ASSUME NEW s \in Slot, Reap(w, s)
      PROVE  jobs' \in [Slot -> Job \cup {NoJob}]
  BY <1>1, <1>5, SpentType DEF Reap, Orphaned, Unfinished
<1>6. CASE UNCHANGED jobs
  BY <1>1, <1>6
<1> QED
  BY <1>2, <1>3, <1>4, <1>5, <1>6 DEF WorkerStep, Progress, Take, Crash, Load, LoadFails, Mark, MarkFails,
     WorkFails, Raise, Parsed, Extracted, PutGraph, Analyzed, LoadReport, Rendered, ExportFails, Cleanup,
     MarkFailed, FinalizeRead, FinalizeWrite

LEMMA WorkerType ==
    ASSUME TypeInv, NEW w \in Worker, WorkerStep(w)
    PROVE  TypeInv'
<1>1. /\ files \subseteq Version /\ graphs \subseteq Version /\ exported \in BOOLEAN
      /\ requests \in [Tab -> RequestState] /\ RequestsKnow
  BY DEF TypeInv, TypeOK
<1>2. requests' = requests
  BY DEF WorkerStep, Progress, Take, Crash, Load, LoadFails, Mark, MarkFails,
     WorkFails, Raise, Parsed, Extracted, EnqueueNext, PutGraph, Analyzed, LoadReport, Rendered, ExportFails,
     Cleanup, MarkFailed, FinishJob, FinalizeRead, FinalizeWrite, Claim, Reap
<1>3. files' \subseteq Version /\ graphs' \subseteq Version /\ exported' \in BOOLEAN
  <2>1. CASE PutGraph(w)
    <3>1. workers[w].pc \in AtJob /\ workers[w].pc = "working"
      BY <2>1 DEF PutGraph, At, AtJob
    <3>2. workers[w].ver \in Version
      BY <3>1, AtWork DEF KnowsJob
    <3> QED
      BY <1>1, <2>1, <3>2 DEF PutGraph
  <2>2. CASE Cleanup(w)
    BY <1>1, <2>2 DEF Cleanup
  <2>3. CASE Rendered(w)
    BY <1>1, <2>3 DEF Rendered
  <2> QED
    BY <1>1, <2>1, <2>2, <2>3 DEF WorkerStep, Progress, Take, Crash, Load, LoadFails, Mark, MarkFails,
     WorkFails, Raise, Parsed, Extracted, EnqueueNext, Analyzed, LoadReport, ExportFails,
     MarkFailed, FinishJob, FinalizeRead, FinalizeWrite, Claim, Reap, artifacts
<1>4. RequestsKnow'
  BY <1>1, <1>2 DEF RequestsKnow
<1>5. TablesOK' /\ jobs' \in [Slot -> Job \cup {NoJob}] /\ workers' \in [Worker -> WorkerState] /\ WorkersKnow'
  BY WorkerTables, WorkerJobs, WorkerRecord
<1>6. TypeOK'
  BY <1>1, <1>2, <1>3, <1>5 DEF TypeOK, TablesOK, Row, DraftRow
<1> QED
  BY <1>4, <1>5, <1>6 DEF TypeInv

LEMMA TypeStep == TypeInv /\ [Next]_vars => TypeInv'
<1> SUFFICES ASSUME TypeInv, [Next]_vars PROVE TypeInv'
  OBVIOUS
<1>1. CASE UNCHANGED vars
  BY <1>1 DEF vars, TypeInv, TypeOK, WorkersKnow, RequestsKnow, Busy, Latest, Present
<1> QED
  BY <1>1, RequestType, WorkerType DEF Next, Request, RequestStep, WorkerStep

\* The variables have their types.
THEOREM TypeCorrect == Spec => []TypeOK
<1>1. Spec => []TypeInv
  BY InitType, TypeStep, PTL DEF Spec
<1> QED
  BY <1>1, PTL DEF TypeInv

-----------------------------------------------------------------------------
(* Requests that are not disturbed *)

\* A request that has read and not written is alone, and what it read still holds.
Open(t) == requests[t].pc \in {"checked", "collected"}
ChecksHold == \A t \in Tab : Open(t) =>
    /\ \A u \in Tab : u # t => ~Open(u)
    /\ requests[t].pc = "checked" => requests[t].seen = StatusRead

LEMMA ChecksStep ==
    ASSUME "race" \notin Env, TypeInv, ChecksHold, [Next]_vars
    PROVE  ChecksHold'
<1>1. ASSUME NEW t \in Tab, Request(t)
      PROVE  ChecksHold'
  <2>1. RequestStep(t) /\ \A u \in Tab : u # t => ~Open(u)
    BY <1>1 DEF Request, RequestStep, Undisturbed, Open
  <2>2. \A u \in Tab : u # t => requests'[u] = requests[u]
    BY <2>1, RequestRecord
  <2>3. \A u \in Tab : u # t => ~Open(u)'
    BY <2>1, <2>2 DEF Open
  <2>4. requests[t] \in RequestState
    BY DEF TypeInv, TypeOK
  <2>5. requests'[t].pc = "checked" => requests'[t].seen = StatusRead'
    <3>1. ASSUME NEW op \in Op, Check(t, op)
          PROVE  requests'[t].seen = StatusRead'
      <4>1. requests'[t].seen = StatusRead
        BY <3>1 DEF Check, TypeInv, TypeOK
      <4> QED
        BY <3>1, <4>1 DEF Check, tables, StatusRead, Latest, Present
    <3>2. CASE \A op \in Op : ~Check(t, op)
      <4>1. requests'[t].pc \in {"idle", "committed", "collected"}
        <5>1. ASSUME NEW pc, Then(t, pc), requests[t].pc # "idle"
              PROVE  requests'[t].pc = pc
          <6>1. requests'[t] = IF pc = "idle" THEN Idle ELSE [requests[t] EXCEPT !.pc = pc]
            BY <5>1 DEF Then, TypeInv, TypeOK
          <6> QED
            BY <2>4, <5>1, <6>1 DEF RequestState, Idle
        <5>2. CASE Collect(t)
          <6>1. requests'[t] = [requests[t] EXCEPT !.pc = "collected", !.paths = DOMAIN versions]
            BY <5>2 DEF Collect, TypeInv, TypeOK
          <6>2. requests[t].pc = "checked"
            BY <5>2 DEF Collect, Committing
          <6> QED
            BY <2>4, <6>1, <6>2 DEF RequestState, Idle
        <5>3. CASE ~Collect(t)
          <6>1. requests[t].pc # "idle"
            BY <2>1, <3>2, <5>3 DEF RequestStep, Upload, Retry, Reanalyze, Restart, ReportReanalyze,
               Export, Download, Delete, EnqueueFirst, EnqueueLost, Refused, Committing
          <6>2. Then(t, "idle") \/ Then(t, "committed")
            BY <2>1, <3>2, <5>3 DEF RequestStep, Upload, Retry, Reanalyze, Restart, ReportReanalyze,
               Export, Download, Delete, EnqueueFirst, EnqueueLost, Refused
          <6> QED
            BY <5>1, <6>1, <6>2
        <5> QED
          BY <5>2, <5>3
      <4> QED
        BY <4>1
    <3> QED
      BY <3>1, <3>2
  <2> QED
    BY <2>3, <2>5 DEF ChecksHold, Open
<1>2. ASSUME NEW w \in Worker, Quiet, WorkerStep(w)
      PROVE  ChecksHold'
  <2>1. requests' = requests
    BY <1>2 DEF WorkerStep, Progress, Take, Crash, Load, LoadFails, Mark, MarkFails,
     WorkFails, Raise, Parsed, Extracted, EnqueueNext, PutGraph, Analyzed, LoadReport, Rendered, ExportFails,
     Cleanup, MarkFailed, FinishJob, FinalizeRead, FinalizeWrite, Claim, Reap
  <2> QED
    BY <1>2, <2>1 DEF Quiet, ChecksHold, Open
<1>3. CASE UNCHANGED vars
  BY <1>3 DEF vars, ChecksHold, Open, StatusRead, Latest, Present
<1> QED
  BY <1>1, <1>2, <1>3 DEF Next, WorkerStep

LEMMA ChecksInit == Init => ChecksHold
BY DEF Init, ChecksHold, Open, Idle

\* An upload finds the draft as it has read it: new, or ready.
UploadsKnow == \A t \in Tab :
    Committing(t, "upload") /\ draft.status # "deleted" => StatusRead \in {"none", "ready"}

LEMMA ChecksGiveUploads == TypeInv /\ ChecksHold => UploadsKnow
BY DEF UploadsKnow, Committing, TypeInv, RequestsKnow, Knows, StartsFrom, ChecksHold, Open, Idle

\* The upload of a new version: the one before is ready.
LEMMA OlderStep ==
    ASSUME TypeInv, UploadsKnow, OlderVersionsAreReady, [Next]_vars
    PROVE  OlderVersionsAreReady'
<1>1. TablesOK /\ Latest \in Nat
  BY TablesTyped, LatestRow DEF TypeInv
<1>2. ASSUME Latest' = Latest, \A v \in 1 .. Latest : v # Latest => versions'[v] = versions[v]
      PROVE  OlderVersionsAreReady'
  BY <1>1, <1>2 DEF OlderVersionsAreReady
<1>3. ASSUME NEW t \in Tab, RequestStep(t)
      PROVE  OlderVersionsAreReady'
  <2>1. CASE Upload(t)
    <3>1. StatusRead \in {"none", "ready"}
      BY <2>1 DEF Upload, UploadsKnow
    <3>2. ASSUME NEW v \in 1 .. Latest
          PROVE  versions[v].status = "ready"
      <4>1. Present /\ versions[Latest].status = "ready"
        BY <1>1, <3>1, <3>2, LatestRow DEF StatusRead, Row, DraftStatus, InProgress
      <4> QED
        BY <1>1, <4>1 DEF OlderVersionsAreReady
    <3>3. Latest' = Latest + 1 /\ \A v \in 1 .. Latest : versions'[v] = versions[v]
      BY <1>1, <2>1, UploadTables
    <3> QED
      BY <1>1, <3>2, <3>3 DEF OlderVersionsAreReady
  <2>2. CASE Retry(t)
    BY <1>1, <1>2, <2>2, SetStatusTables DEF Retry, Restart, DraftStatus, InProgress
  <2>3. CASE Reanalyze(t)
    <3>1. requests[t] # Idle /\ requests[t].pc = "checked" /\ requests[t].op = "reanalyze"
      BY <2>3 DEF Reanalyze, Restart, Committing, Idle
    <3>2. {requests[t].seen} \in SUBSET DraftStatus /\ "analyzing" \in DraftStatus
      BY <3>1 DEF TypeInv, RequestsKnow, Knows, StartsFrom, DraftStatus, InProgress
    <3>3. SetStatus("analyzing", {requests[t].seen}) /\ UNCHANGED reports
      BY <2>3 DEF Reanalyze, Restart
    <3> QED
      BY <1>1, <1>2, <3>2, <3>3, SetStatusTables
  <2>4. CASE Delete(t)
    <3>1. Latest' = 0
      BY <2>4, EmptySeq DEF Delete, Latest
    <3> QED
      BY <3>1 DEF OlderVersionsAreReady
  <2>5. CASE UNCHANGED versions
    BY <1>2, <2>5 DEF Latest
  <2> QED
    BY <1>3, <2>1, <2>2, <2>3, <2>4, <2>5 DEF RequestStep, Check, ReportReanalyze, Export, Download,
       Collect, EnqueueFirst, EnqueueLost, Refused, tables
<1>4. ASSUME NEW w \in Worker, WorkerStep(w)
      PROVE  OlderVersionsAreReady'
  BY <1>2, <1>4, WorkerTables
<1>5. CASE UNCHANGED vars
  BY <1>2, <1>5 DEF vars, Latest
<1> QED
  BY <1>3, <1>4, <1>5 DEF Next, Request, RequestStep, WorkerStep

-----------------------------------------------------------------------------
(* The two copies of the status *)

\* A finalisation that has read the status writes over what it has read, unless
\* the draft has been deleted since.
FinalizersKnow ==
    \A w \in Worker : At(w, "finalizing") => draft.status \in {workers[w].seen, "deleted"}

\* Without crashes every held job has its holder, and there is nothing to finalise.
NobodyIsLost ==
    /\ \A s \in Slot : jobs[s].state = "held" => \E w \in Worker : Holds(w, s)
    /\ \A w \in Worker : ~At(w, "finalize") /\ ~At(w, "finalizing")

\* What each step does to the two copies.  The Restart of an undisturbed request
\* finds in the drafts row what it has read from the latest version's.
LEMMA MirrorStep ==
    ASSUME TypeInv, ChecksHold, MirrorAgrees, FinalizersKnow, [Next]_vars
    PROVE  MirrorAgrees'
<1>1. TablesOK /\ Latest \in Nat /\ (Present => versions[Latest] \in Row)
  BY TablesTyped, LatestRow DEF TypeInv
<1>2. ASSUME UNCHANGED <<draft, versions>>
      PROVE  MirrorAgrees'
  BY <1>2 DEF MirrorAgrees, StatusRead, Present, Latest
<1>3. ASSUME NEW status \in DraftStatus, NEW expected \in SUBSET DraftStatus,
             SetStatus(status, expected), UNCHANGED reports, Present => draft.status \in expected
      PROVE  MirrorAgrees'
  <2>1. /\ Latest' = Latest /\ Present' = Present
        /\ draft'.status = IF draft.status \in expected THEN status ELSE draft.status
        /\ Present => versions'[Latest] = [versions[Latest] EXCEPT !.status = status]
    BY <1>1, <1>3, SetStatusTables
  <2> QED
    BY <1>1, <1>3, <2>1 DEF MirrorAgrees, StatusRead, Row
<1>4. ASSUME NEW t \in Tab, RequestStep(t)
      PROVE  MirrorAgrees'
  <2>1. ASSUME NEW op, NEW status \in DraftStatus, NEW expected \in DraftStatus,
               Restart(t, op, status, expected), expected = requests[t].seen
        PROVE  MirrorAgrees'
    <3>1. requests[t].seen = StatusRead
      BY <2>1 DEF Restart, Committing, ChecksHold, Open
    <3>2. Present => draft.status \in {expected}
      BY <2>1, <3>1 DEF MirrorAgrees
    <3> QED
      BY <1>3, <2>1, <3>2 DEF Restart
  <2>2. CASE Upload(t)
    <3>1. /\ Latest' = Latest + 1 /\ Present' /\ draft'.status = "uploaded"
          /\ versions'[Latest + 1] = [status |-> "uploaded", text |-> 0]
      BY <1>1, <2>2, UploadTables
    <3> QED
      BY <3>1 DEF MirrorAgrees, StatusRead
  <2>3. CASE Retry(t)
    <3>1. requests[t] # Idle /\ requests[t].pc = "checked" /\ requests[t].op = "retry"
      BY <2>3 DEF Retry, Restart, Committing, Idle
    <3>2. requests[t].seen = "failed"
      BY <3>1 DEF TypeInv, RequestsKnow, Knows, StartsFrom
    <3> QED
      BY <2>1, <2>3, <3>2 DEF Retry, DraftStatus, InProgress
  <2>4. CASE Reanalyze(t)
    <3>1. requests[t] # Idle /\ requests[t].pc = "checked" /\ requests[t].op = "reanalyze"
      BY <2>4 DEF Reanalyze, Restart, Committing, Idle
    <3>2. requests[t].seen \in DraftStatus
      BY <3>1 DEF TypeInv, RequestsKnow, Knows, StartsFrom, DraftStatus, InProgress
    <3> QED
      BY <2>1, <2>4, <3>2 DEF Reanalyze, DraftStatus, InProgress
  <2>5. CASE Delete(t)
    <3>1. ~Present'
      BY <2>5 DEF Delete, Present, DraftStatus, InProgress
    <3> QED
      BY <3>1 DEF MirrorAgrees
  <2> QED
    BY <1>2, <1>4, <2>2, <2>3, <2>4, <2>5 DEF RequestStep, Check, ReportReanalyze, Export, Download, Collect,
       EnqueueFirst, EnqueueLost, Refused, tables
<1>5. ASSUME NEW w \in Worker, WorkerStep(w)
      PROVE  MirrorAgrees'
  <2>0. \A status \in DraftStatus : SetStatus(status, DraftStatus) /\ UNCHANGED reports => MirrorAgrees'
    BY <1>3 DEF Present
  <2>1. CASE Mark(w)
    <3> DEFINE status == IF Doing(w, {"parse"}) THEN "parsing" ELSE "extracting"
    <3>1. SetStatus(status, DraftStatus) /\ UNCHANGED reports /\ status \in DraftStatus
      BY <2>1 DEF Mark, DraftStatus, InProgress
    <3> HIDE DEF status
    <3> QED
      BY <2>0, <3>1
  <2>2. CASE Parsed(w) /\ Present
    <3>1. Latest' = Latest /\ Present' /\ draft'.status = "extracting" /\ versions'[Latest].status = "extracting"
      BY <2>2, ParsedTables
    <3> QED
      BY <3>1 DEF MirrorAgrees, StatusRead
  <2>3. CASE Extracted(w)
    <3>1. /\ Latest' = Latest /\ Present' /\ Present /\ draft'.status = "analyzing"
          /\ versions'[Latest] = [versions[Latest] EXCEPT !.status = "analyzing"]
      BY <2>3, ExtractedTables DEF Extracted
    <3> QED
      BY <1>1, <3>1 DEF MirrorAgrees, StatusRead, Row
  <2>4. CASE Analyzed(w)
    <3>1. /\ Latest' = Latest /\ Present' /\ Present /\ draft'.status = "ready"
          /\ versions'[Latest] = [versions[Latest] EXCEPT !.status = "ready"]
      BY <2>4, AnalyzedTables DEF Analyzed
    <3> QED
      BY <1>1, <3>1 DEF MirrorAgrees, StatusRead, Row
  <2>5. CASE MarkFailed(w)
    BY <1>2, <2>0, <2>5 DEF MarkFailed, DraftStatus
  <2>6. CASE FinalizeWrite(w)
    <3>1. workers[w].seen \in DraftStatus
      BY <2>6, WorkerShape DEF FinalizeWrite, At, TypeInv, TypeOK, DraftStatus
    <3>2. {workers[w].seen} \in SUBSET DraftStatus /\ (Present => draft.status \in {workers[w].seen})
      BY <2>6, <3>1 DEF FinalizeWrite, FinalizersKnow, Present, DraftStatus, InProgress
    <3> QED
      BY <1>3, <2>6, <3>2 DEF FinalizeWrite, DraftStatus
  <2>7. CASE UNCHANGED <<draft, versions>>
    BY <1>2, <2>7
  <2> QED
    BY <1>5, <2>1, <2>2, <2>3, <2>4, <2>5, <2>6, <2>7 DEF WorkerStep, Progress, Take, Crash, Load, LoadFails,
       MarkFails, WorkFails, Raise, Parsed, EnqueueNext, PutGraph, LoadReport, Rendered, ExportFails, Cleanup,
       FinishJob, FinalizeRead, Claim, Reap, tables
<1>6. CASE UNCHANGED vars
  BY <1>2, <1>6 DEF vars
<1> QED
  BY <1>4, <1>5, <1>6 DEF Next, Request, RequestStep, WorkerStep

\* With one worker, nobody moves the status on while that worker finalises: what
\* requests could is not open to them in these statuses.
LEMMA FinalizersStep ==
    ASSUME \A v, w \in Worker : v = w,
           TypeInv, ChecksHold, MirrorAgrees, FinalizersKnow, [Next]_vars
    PROVE  FinalizersKnow'
<1>1. ASSUME NEW t \in Tab, RequestStep(t)
      PROVE  FinalizersKnow'
  <2> SUFFICES ASSUME NEW w \in Worker, At(w, "finalizing"), draft.status \in {workers[w].seen, "deleted"}
               PROVE  draft'.status \in {workers[w].seen, "deleted"}
    <3>1. workers' = workers
      BY <1>1 DEF RequestStep, Check, Upload, Retry, Reanalyze, Restart, ReportReanalyze, Export, Download,
         Collect, Delete, EnqueueFirst, EnqueueLost, Refused
    <3> QED
      BY <3>1 DEF FinalizersKnow, At
  <2>1. workers[w].seen \in InProgress
    BY WorkerShape DEF At, TypeInv, TypeOK
  <2>2. StatusRead \in InProgress \cup {"deleted"}
    BY <2>1 DEF MirrorAgrees, StatusRead, Present
  <2>3. ASSUME requests[t].pc = "checked", requests[t].op \in {"upload", "retry", "reanalyze"}
        PROVE  FALSE
    <3>1. requests[t].seen = StatusRead /\ requests[t].seen \in StartsFrom(requests[t].op)
      BY <2>3 DEF ChecksHold, Open, TypeInv, RequestsKnow, Knows, Idle
    <3> QED
      BY <2>2, <2>3, <3>1 DEF StartsFrom, InProgress
  <2>4. Delete(t) => draft'.status = "deleted"
    BY DEF Delete
  <2> QED
    BY <1>1, <2>3, <2>4 DEF RequestStep, Check, Upload, Retry, Reanalyze, Restart, Committing, ReportReanalyze,
       Export, Download, Collect, EnqueueFirst, EnqueueLost, Refused, tables
<1>2. ASSUME NEW w \in Worker, WorkerStep(w)
      PROVE  FinalizersKnow'
  <2>1. workers \in [Worker -> WorkerState] /\ \A v \in Worker : v = w
    BY DEF TypeInv, TypeOK
  <2>2. ASSUME workers'[w].pc # "finalizing"
        PROVE  FinalizersKnow'
    BY <2>1, <2>2 DEF FinalizersKnow, At
  <2>3. CASE Handles(w)
    <3>1. PICK pc \in AtJob : Step(w, pc)
      BY <2>3, HandlesMoves
    <3>2. workers[w] \in JobState
      BY <2>3, HandlesMoves DEF Busy
    <3>3. workers'[w].pc = pc
      BY <2>1, <3>1, <3>2 DEF Step, JobState
    <3> QED
      BY <2>2, <3>3 DEF AtJob
  <2>4. CASE Rest(w)
    BY <2>1, <2>2, <2>4 DEF Rest, Idle
  <2>5. CASE Load(w)
    <3>1. workers[w] \in JobState
      BY <2>5, AtWork DEF Load, At, AtJob
    <3> QED
      BY <2>1, <2>2, <2>5, <3>1 DEF Load, JobState
  <2>6. CASE \E s \in Slot : Claim(w, s)
    BY <2>1, <2>2, <2>6 DEF Claim
  <2>7. CASE \E s \in Slot : Reap(w, s)
    <3>1. workers[w].pc = "idle" /\ (workers' = workers \/ workers' = [workers EXCEPT ![w] = [pc |-> "finalize"]])
      BY <2>7 DEF Reap, At
    <3> QED
      BY <2>1, <2>2, <3>1
  <2>8. CASE FinalizeRead(w)
    <3> DEFINE k == [pc |-> "finalizing", seen |-> draft.status]
    <3>1. CASE Rest(w)
      BY <2>4, <3>1
    <3>2. CASE workers' = [workers EXCEPT ![w] = k]
      <4>1. workers'[w].seen = draft.status /\ draft' = draft
        BY <2>1, <2>8, <3>2 DEF FinalizeRead, tables
      <4> QED
        BY <2>1, <4>1 DEF FinalizersKnow
    <3> QED
      BY <2>8, <3>1, <3>2 DEF FinalizeRead, Rest
  <2> QED
    BY <1>2, <2>3, <2>4, <2>5, <2>6, <2>7, <2>8 DEF WorkerStep, Progress, Take, Handles, FinishJob, Crash,
       FinalizeWrite
<1>3. CASE UNCHANGED vars
  BY <1>3 DEF vars, FinalizersKnow, At
<1> QED
  BY <1>1, <1>2, <1>3 DEF Next, Request, RequestStep, WorkerStep

\* Without crashes, nobody finalises.
LEMMA NobodyStep ==
    ASSUME "crash" \notin Env, TypeInv, NobodyIsLost, [Next]_vars
    PROVE  NobodyIsLost'
<1>0. /\ workers \in [Worker -> WorkerState] /\ jobs \in [Slot -> Job \cup {NoJob}]
  BY DEF TypeInv, TypeOK
<1>1. ASSUME NEW t \in Tab, RequestStep(t)
      PROVE  NobodyIsLost'
  <2>1. workers' = workers
    BY <1>1 DEF RequestStep, Check, Upload, Retry, Reanalyze, Restart, ReportReanalyze, Export, Download,
       Collect, Delete, EnqueueFirst, EnqueueLost, Refused
  <2>2. ASSUME NEW stage, NEW paths, Enqueue(stage, paths), NEW s \in Slot, jobs'[s].state = "held"
        PROVE  jobs[s].state = "held"
    BY <1>0, <2>2 DEF Enqueue
  <2>3. ASSUME jobs' = Purged, NEW s \in Slot, jobs'[s].state = "held"
        PROVE  jobs[s].state = "held"
    BY <1>0, <2>3 DEF Purged, NoJob
  <2>4. \A s \in Slot : jobs'[s].state = "held" => jobs[s].state = "held"
    BY <1>1, <2>2, <2>3 DEF RequestStep, Check, Upload, Retry, Reanalyze, Restart, ReportReanalyze, Export,
       Download, Collect, Delete, EnqueueFirst, EnqueueLost, Refused
  <2> QED
    BY <2>1, <2>4 DEF NobodyIsLost, Holds, At
<1>2. ASSUME NEW w \in Worker, WorkerStep(w)
      PROVE  NobodyIsLost'
  <2>1. \A v \in Worker : v # w => workers'[v] = workers[v]
    BY <1>2, WorkerRecord
  <2>2. ASSUME workers'[w].pc \in AtJob,
               \A s \in Slot : jobs'[s].state = "held" =>
                   jobs[s].state = "held" \/ workers'[w].slot = s,
               workers[w].pc \in AtJob => workers'[w].slot = workers[w].slot
        PROVE  NobodyIsLost'
    <3>1. workers[w].pc \in AtJob \/ \A s \in Slot : ~Holds(w, s)
      BY <1>0, WorkerShape DEF Holds
    <3>2. \A s \in Slot : Holds(w, s)' <=> workers'[w].slot = s
      BY <2>2 DEF Holds, AtJob
    <3>3. \A v \in Worker, s \in Slot : v # w => (Holds(v, s)' <=> Holds(v, s))
      BY <2>1 DEF Holds
    <3>4. \A s \in Slot : Holds(w, s) => Holds(w, s)'
      BY <2>2, <3>1, <3>2 DEF Holds
    <3>5. \A v \in Worker : ~At(v, "finalize")' /\ ~At(v, "finalizing")'
      BY <2>1, <2>2 DEF NobodyIsLost, At, AtJob
    <3> QED
      BY <2>2, <3>2, <3>3, <3>4, <3>5 DEF NobodyIsLost
  <2>3. CASE Handles(w)
    <3>1. PICK pc \in AtJob : Step(w, pc)
      BY <2>3, HandlesMoves
    <3>2. workers[w] \in JobState
      BY <2>3, HandlesMoves DEF Busy
    <3>3. workers'[w].pc \in AtJob /\ workers'[w].slot = workers[w].slot
      BY <1>0, <3>1, <3>2 DEF Step, JobState
    <3>4. \A s \in Slot : jobs'[s].state = "held" => jobs[s].state = "held"
      <4>1. ASSUME NEW stage, NEW paths, Enqueue(stage, paths), NEW s \in Slot, jobs'[s].state = "held"
            PROVE  jobs[s].state = "held"
        BY <1>0, <4>1 DEF Enqueue
      <4>2. EnqueueNext(w) \/ jobs' = jobs
        BY <2>3 DEF Handles, LoadFails, Mark, MarkFails, WorkFails, Raise, Parsed, Extracted, PutGraph,
           Analyzed, LoadReport, Rendered, ExportFails, Cleanup, MarkFailed
      <4> QED
        BY <4>1, <4>2 DEF EnqueueNext
    <3> QED
      BY <2>2, <3>3, <3>4
  <2>4. CASE Load(w)
    <3>1. workers[w] \in JobState /\ jobs' = jobs
      BY <2>4, AtWork DEF Load, At, AtJob
    <3>2. workers'[w].pc \in AtJob /\ workers'[w].slot = workers[w].slot
      BY <1>0, <2>4, <3>1 DEF Load, JobState, AtJob
    <3> QED
      BY <2>2, <3>1, <3>2
  <2>5. ASSUME NEW s \in Slot, Claim(w, s)
        PROVE  NobodyIsLost'
    <3>1. workers'[w].pc = "claimed" /\ workers'[w].slot = s /\ workers[w].pc = "idle"
      BY <1>0, <2>5 DEF Claim, At
    <3>2. \A r \in Slot : r # s => jobs'[r] = jobs[r]
      BY <1>0, <2>5 DEF Claim
    <3> QED
      BY <2>2, <3>1, <3>2 DEF AtJob
  <2>6. ASSUME NEW s \in Slot, Reap(w, s)
        PROVE  FALSE
    BY <2>6 DEF Reap, Orphaned, NobodyIsLost
  <2>7. CASE FinishJob(w)
    <3>1. workers[w] \in JobState /\ workers[w].pc \in AtJob
      BY <2>7, AtWork DEF FinishJob, At, AtJob
    <3>2. workers'[w] = Idle
      BY <1>0, <2>7 DEF FinishJob, Rest
    <3> DEFINE s == workers[w].slot
    <3>3. s \in Slot
      BY <3>1 DEF JobState
    <3>4. jobs'[s].state # "held" /\ \A r \in Slot : r # s => jobs'[r] = jobs[r]
      <4>1. CASE ~Unfinished(s)
        BY <2>7, <4>1 DEF FinishJob, Unfinished
      <4>2. CASE Unfinished(s) /\ At(w, "returned")
        BY <1>0, <2>7, <3>3, <4>2 DEF FinishJob, NoJob
      <4>3. CASE Unfinished(s) /\ ~At(w, "returned")
        <5>1. jobs' = Spent(s) /\ jobs[s] \in Job
          BY <1>0, <2>7, <3>3, <4>3 DEF FinishJob, Unfinished, NoJob
        <5>2. jobs[s].attempts + 1 < MaxAttempts => jobs'[s].state = "pending"
          BY <1>0, <3>3, <4>3, <5>1, SpentType DEF Job
        <5>3. ~(jobs[s].attempts + 1 < MaxAttempts) => jobs'[s] = NoJob \/ jobs'[s].state = "failed"
          BY <1>0, <3>3, <4>3, <5>1, SpentType
        <5>4. \A r \in Slot : r # s => jobs'[r] = jobs[r]
          BY <1>0, <3>3, <4>3, <5>1, SpentType
        <5> QED
          BY <5>2, <5>3, <5>4 DEF NoJob
      <4> QED
        BY <4>1, <4>2, <4>3
    <3>5. \A r \in Slot : r # s => ~Holds(w, r)
      BY DEF Holds
    <3>6. \A v \in Worker : ~At(v, "finalize")' /\ ~At(v, "finalizing")'
      BY <2>1, <3>2 DEF NobodyIsLost, At, Idle
    <3> QED
      BY <2>1, <3>4, <3>5, <3>6 DEF NobodyIsLost, Holds
  <2>8. CASE Crash(w) \/ FinalizeRead(w) \/ FinalizeWrite(w)
    BY <2>8 DEF Crash, FinalizeRead, FinalizeWrite, NobodyIsLost, At
  <2> QED
    BY <1>2, <2>3, <2>4, <2>5, <2>6, <2>7, <2>8 DEF WorkerStep, Progress, Take, Handles
<1>3. CASE UNCHANGED vars
  BY <1>3 DEF vars, NobodyIsLost, Holds, At
<1> QED
  BY <1>1, <1>2, <1>3 DEF Next, Request, RequestStep, WorkerStep

-----------------------------------------------------------------------------
(* One request at a time *)

\* One request at a time reads and writes, no attempt is lost without a report,
\* the database answers, and users ask for no analysis but the pipeline's own.
Serial ==
    /\ Env \subseteq {"race", "reap", "enq"}
    /\ "race" \in Env => \A t, u \in Tab : t = u
    /\ "reanalyze" \notin Op /\ "report" \notin Op

OneIsOpen == \A t, u \in Tab : Open(t) /\ Open(u) => t = u

\* A slot belongs to the job that was claimed from it for as long as its worker
\* is busy, even if the job's row is deleted meanwhile.
SlotsAgree == \A w \in Worker, s \in Slot : Holds(w, s) =>
    /\ \A v \in Worker : Holds(v, s) => v = w
    /\ \/ jobs[s] = NoJob
       \/ /\ jobs[s].state = "held" /\ jobs[s].stage = workers[w].stage
          /\ workers[w].last = (jobs[s].attempts + 1 >= MaxAttempts)

\* Whoever has the next step of the pipeline to take: a request that will enqueue
\* its first job, a job that is pending, or the handler of one, until it has
\* enqueued the next or failed for the last time.
TabCarries(t) == requests[t].pc = "committed" /\ requests[t].op \in {"upload", "retry"}
JobCarries(s) == jobs[s].state = "pending" /\ jobs[s].stage \in Pipeline
WorkerCarries(w) ==
    /\ workers[w].pc \in {"claimed", "loaded", "working", "loading", "committed", "raised", "aborted"}
    /\ Doing(w, Pipeline)
    /\ At(w, "aborted") => ~workers[w].last
Carried == \/ \E t \in Tab : TabCarries(t)
           \/ \E s \in Slot : JobCarries(s)
           \/ \E w \in Worker : WorkerCarries(w)

\* There is one of them at most.
OneCarrier ==
    /\ \A t, u \in Tab : TabCarries(t) /\ TabCarries(u) => t = u
    /\ \A r, s \in Slot : JobCarries(r) /\ JobCarries(s) => r = s
    /\ \A v, w \in Worker : WorkerCarries(v) /\ WorkerCarries(w) => v = w
    /\ \A t \in Tab, s \in Slot : ~(TabCarries(t) /\ JobCarries(s))
    /\ \A t \in Tab, w \in Worker : ~(TabCarries(t) /\ WorkerCarries(w))
    /\ \A s \in Slot, w \in Worker : ~(JobCarries(s) /\ WorkerCarries(w))

\* The stage that is to come and the status of the draft.
StatusBefore(stage) ==
    CASE stage = "parse" -> {"uploaded", "parsing"}
      [] stage = "extract" -> {"extracting"}
      [] stage = "analyze" -> {"analyzing"}
StatusAfter(stage) == IF stage = "parse" THEN {"extracting"} ELSE {"analyzing"}

TabFits(t) == draft.status = "uploaded"
JobFits(s) == draft.status \in StatusBefore(jobs[s].stage)
WorkerFits(w) ==
    /\ Unfinished(workers[w].slot)
    /\ draft.status \in
          CASE At(w, "committed") -> StatusAfter(workers[w].stage)
            [] At(w, "working") /\ Doing(w, {"parse"}) -> {"parsing"}
            [] OTHER -> StatusBefore(workers[w].stage)
    /\ workers[w].pc \in {"loaded", "working", "loading", "committed"} => workers[w].ver = Latest
    /\ workers[w].pc \in {"loaded", "working", "loading"} /\ ~Doing(w, {"parse"}) =>
          workers[w].from = Latest

CarriersFit ==
    /\ \A t \in Tab : TabCarries(t) => TabFits(t)
    /\ \A s \in Slot : JobCarries(s) => JobFits(s)
    /\ \A w \in Worker : WorkerCarries(w) => WorkerFits(w)

\* What a stage has left for the next one.
DataFit ==
    /\ draft.status \in {"extracting", "analyzing"} => versions[Latest].text = Latest
    /\ draft.status = "analyzing" => draft.entities = Latest

\* A request that starts the pipeline has read what is still so.
StartersKnow == \A t \in Tab :
    requests[t].pc = "checked" /\ requests[t].op \in {"upload", "retry"} => requests[t].seen = draft.status

\* A delete is of a draft that there was, and leaves no report.
DeletesKnow ==
    /\ \A t \in Tab : Open(t) /\ requests[t].op = "delete" => draft.status # "none"
    /\ draft.status = "deleted" => reports = {}

Alive == draft.status # "deleted"

OneStep ==
    /\ MirrorAgrees /\ OneCarrier /\ CarriersFit /\ DataFit /\ StartersKnow
    /\ Carried => draft.status \in InProgress
    /\ "enq" \notin Env /\ draft.status \in InProgress => Carried

SerialInv ==
    /\ TypeInv /\ OneIsOpen /\ SlotsAgree /\ NobodyIsLost
    /\ Alive => OneStep
    /\ DeletesKnow /\ ReportsAreTrue

-----------------------------------------------------------------------------
(* What holds whatever fails *)

LEMMA OneOpenStep ==
    ASSUME "race" \in Env => \A t, u \in Tab : t = u, TypeInv, OneIsOpen, [Next]_vars
    PROVE  OneIsOpen'
<1>1. CASE \A t, u \in Tab : t = u
  BY <1>1 DEF OneIsOpen
<1>2. ASSUME "race" \notin Env, NEW t \in Tab, Request(t)
      PROVE  OneIsOpen'
  <2>1. RequestStep(t) /\ \A u \in Tab : u # t => ~Open(u)
    BY <1>2 DEF Request, RequestStep, Undisturbed, Open
  <2>2. \A u \in Tab : u # t => requests'[u] = requests[u]
    BY <2>1, RequestRecord
  <2> QED
    BY <2>1, <2>2 DEF OneIsOpen, Open
<1>3. CASE requests' = requests
  BY <1>3 DEF OneIsOpen, Open
<1> QED
  BY <1>1, <1>2, <1>3 DEF Next, vars, Progress, Take, Crash, Load, LoadFails, Mark, MarkFails,
     WorkFails, Raise, Parsed, Extracted, EnqueueNext, PutGraph, Analyzed, LoadReport, Rendered, ExportFails,
     Cleanup, MarkFailed, FinishJob, FinalizeRead, FinalizeWrite, Claim, Reap

\* What the queue does to the slots that nobody writes.
LEMMA SlotsKept ==
    ASSUME TypeInv, SlotsAgree, NEW w \in Worker,
           \A v \in Worker : v # w => workers'[v] = workers[v],
           \A s \in Slot : Holds(w, s)' => Holds(w, s),
           \A s \in Slot : Holds(w, s)' => workers'[w].stage = workers[w].stage
                                            /\ workers'[w].last = workers[w].last,
           \A v \in Worker, s \in Slot : Holds(v, s)' => jobs'[s] = jobs[s] \/ jobs'[s] = NoJob
    PROVE  SlotsAgree'
<1>1. \A v \in Worker, s \in Slot : Holds(v, s)' => Holds(v, s)
  BY DEF Holds
<1>2. \A v \in Worker, s \in Slot : Holds(v, s)' =>
          workers'[v].stage = workers[v].stage /\ workers'[v].last = workers[v].last
  BY DEF Holds
<1> SUFFICES ASSUME NEW v \in Worker, NEW s \in Slot, Holds(v, s)'
             PROVE  /\ \A u \in Worker : Holds(u, s)' => u = v
                    /\ \/ jobs'[s] = NoJob
                       \/ /\ jobs'[s].state = "held" /\ jobs'[s].stage = workers'[v].stage
                          /\ workers'[v].last = (jobs'[s].attempts + 1 >= MaxAttempts)
  BY DEF SlotsAgree
<1> QED
  BY <1>1, <1>2 DEF SlotsAgree

LEMMA SlotsStep ==
    ASSUME TypeInv, SlotsAgree, [Next]_vars
    PROVE  SlotsAgree'
<1>0. workers \in [Worker -> WorkerState] /\ jobs \in [Slot -> Job \cup {NoJob}]
  BY DEF TypeInv, TypeOK
<1>1. ASSUME NEW stage, NEW paths, Enqueue(stage, paths), NEW v \in Worker, NEW s \in Slot, Holds(v, s)
      PROVE  jobs'[s] = jobs[s]
  BY <1>0, <1>1 DEF Enqueue, FreeSlots
<1>2. ASSUME NEW t \in Tab, RequestStep(t)
      PROVE  SlotsAgree'
  <2>1. workers' = workers
    BY <1>2 DEF RequestStep, Check, Upload, Retry, Reanalyze, Restart, ReportReanalyze, Export, Download,
       Collect, Delete, EnqueueFirst, EnqueueLost, Refused
  <2>2. \A v \in Worker, s \in Slot : Holds(v, s)' <=> Holds(v, s)
    BY <2>1 DEF Holds
  <2>3. \A v \in Worker, s \in Slot : Holds(v, s) => jobs'[s] = jobs[s] \/ jobs'[s] = NoJob
    <3>1. CASE EnqueueFirst(t) \/ Export(t)
      BY <1>1, <3>1 DEF EnqueueFirst, Export
    <3>2. CASE jobs' = jobs
      BY <3>2
    <3>3. CASE jobs' = Purged
      BY <3>3 DEF Purged
    <3> QED
      BY <1>2, <3>1, <3>2, <3>3 DEF RequestStep, Check, Upload, Retry, Reanalyze, Restart, ReportReanalyze,
         Download, Collect, Delete, EnqueueLost, Refused
  <2> QED
    BY <2>1, <2>2, <2>3 DEF SlotsAgree
<1>3. ASSUME NEW w \in Worker, WorkerStep(w)
      PROVE  SlotsAgree'
  <2>1. \A v \in Worker : v # w => workers'[v] = workers[v]
    BY <1>3, WorkerRecord
  <2>2. \A v \in Worker, s \in Slot : v # w => (Holds(v, s)' <=> Holds(v, s))
    BY <2>1 DEF Holds
  <2>3. CASE Handles(w) \/ Load(w)
    <3>1. workers[w] \in JobState
      BY <2>3, HandlesMoves, AtWork DEF Busy, Load, At, AtJob
    <3>2. /\ workers'[w].slot = workers[w].slot /\ workers'[w].stage = workers[w].stage
          /\ workers'[w].last = workers[w].last
      <4>1. CASE Handles(w)
        <5>1. PICK pc \in AtJob : Step(w, pc)
          BY <4>1, HandlesMoves
        <5> QED
          BY <1>0, <3>1, <5>1 DEF Step, JobState
      <4>2. CASE Load(w)
        BY <1>0, <3>1, <4>2 DEF Load, JobState
      <4> QED
        BY <2>3, <4>1, <4>2
    <3>3. \A s \in Slot : Holds(w, s)' => Holds(w, s)
      BY <3>1, <3>2 DEF Holds, JobState, AtJob
    <3>4. \A v \in Worker, s \in Slot : Holds(v, s) => jobs'[s] = jobs[s]
      <4>1. CASE EnqueueNext(w)
        BY <1>1, <4>1 DEF EnqueueNext
      <4>2. CASE ~EnqueueNext(w)
        BY <2>3, <4>2 DEF Handles, LoadFails, Mark, MarkFails, WorkFails, Raise, Parsed, Extracted, PutGraph,
           Analyzed, LoadReport, Rendered, ExportFails, Cleanup, MarkFailed, Load
      <4> QED
        BY <4>1, <4>2
    <3> QED
      BY <2>1, <2>2, <3>2, <3>3, <3>4, SlotsKept
  <2>4. ASSUME NEW s \in Slot, Claim(w, s)
        PROVE  SlotsAgree'
    <3>1. /\ workers'[w].pc = "claimed" /\ workers'[w].slot = s /\ workers'[w].stage = jobs[s].stage
          /\ workers'[w].last = (jobs[s].attempts + 1 >= MaxAttempts)
      BY <1>0, <2>4 DEF Claim
    <3>2. /\ jobs[s] \in Job /\ jobs[s].state = "pending"
          /\ jobs' = [jobs EXCEPT ![s] = [jobs[s] EXCEPT !.state = "held"]]
      BY <1>0, <2>4 DEF Claim, NoJob
    <3>3. jobs'[s].state = "held" /\ jobs'[s].stage = jobs[s].stage /\ jobs'[s].attempts = jobs[s].attempts
          /\ \A r \in Slot : r # s => jobs'[r] = jobs[r]
      BY <1>0, <3>2 DEF Job
    <3>4. \A v \in Worker : ~Holds(v, s)
      BY <3>2 DEF SlotsAgree, NoJob
    <3>5. \A r \in Slot : Holds(w, r)' <=> r = s
      BY <3>1 DEF Holds
    <3> QED
      BY <2>1, <2>2, <3>1, <3>3, <3>4, <3>5 DEF SlotsAgree
  <2>5. CASE FinishJob(w) \/ Crash(w) \/ FinalizeWrite(w) \/ FinalizeRead(w) \/ \E s \in Slot : Reap(w, s)
    <3>1. \A s \in Slot : ~Holds(w, s)'
      <4>1. Rest(w) => workers'[w] = Idle
        BY <1>0 DEF Rest
      <4>2. \/ Rest(w) \/ workers'[w].pc = "finalizing" \/ workers'[w].pc = "finalize"
            \/ workers' = workers /\ workers[w].pc = "idle"
        BY <1>0, <2>5 DEF FinishJob, Crash, FinalizeWrite, FinalizeRead, Reap, Rest, At
      <4> QED
        BY <4>1, <4>2 DEF Holds, Idle
    <3>2. \A v \in Worker, s \in Slot : Holds(v, s)' => jobs'[s] = jobs[s]
      <4>1. CASE FinishJob(w)
        <5>1. workers[w] \in JobState /\ Holds(w, workers[w].slot)
          BY <4>1, AtWork DEF FinishJob, At, AtJob, Holds
        <5>2. workers[w].slot \in Slot
          BY <5>1 DEF JobState
        <5>3. \A s \in Slot : s # workers[w].slot => jobs'[s] = jobs[s]
          BY <1>0, <4>1, <5>2, SpentType DEF FinishJob
        <5>4. \A v \in Worker : v # w => ~Holds(v, workers[w].slot)
          BY <5>1, <5>2 DEF SlotsAgree
        <5> QED
          BY <2>2, <3>1, <5>3, <5>4
      <4>2. ASSUME NEW s \in Slot, Reap(w, s)
            PROVE  \A v \in Worker, r \in Slot : Holds(v, r)' => jobs'[r] = jobs[r]
        <5>1. \A r \in Slot : r # s => jobs'[r] = jobs[r]
          BY <1>0, <4>2, SpentType DEF Reap, Orphaned, Unfinished
        <5> QED
          BY <2>2, <3>1, <4>2, <5>1 DEF Reap, Orphaned
      <4>3. CASE jobs' = jobs
        BY <4>3
      <4> QED
        BY <2>5, <4>1, <4>2, <4>3 DEF Crash, FinalizeWrite, FinalizeRead
    <3> QED
      BY <2>1, <3>1, <3>2, SlotsKept
  <2> QED
    BY <1>3, <2>3, <2>4, <2>5 DEF WorkerStep, Progress, Take, Handles
<1>4. CASE UNCHANGED vars
  BY <1>4 DEF vars, SlotsAgree, Holds
<1> QED
  BY <1>2, <1>3, <1>4 DEF Next, Request, RequestStep, WorkerStep

-----------------------------------------------------------------------------
(* One request at a time: the steps of requests *)

\* A step as a reader of the draft's page sees it.
LifeStep == Lifecycle!Next \/ UNCHANGED Lifecycle!vars

LEMMA Stutters == UNCHANGED <<draft, versions, reports>> => LifeStep
BY DEF LifeStep, Lifecycle!vars, StatusRead, Latest, Present

LEMMA EnqueuedSlot ==
    ASSUME jobs \in [Slot -> Job \cup {NoJob}], NEW stage \in Stage, NEW paths, Enqueue(stage, paths)
    PROVE  \E s \in Slot :
              /\ jobs[s] = NoJob /\ jobs'[s].state = "pending" /\ jobs'[s].stage = stage
              /\ \A r \in Slot : r # s => jobs'[r] = jobs[r]
              /\ \A r \in Slot : Unfinished(r) => Unfinished(r)'
<1>1. PICK s \in FreeSlots : jobs' = [jobs EXCEPT ![s] = [stage |-> stage, state |-> "pending",
                                                          attempts |-> 0, paths |-> paths]]
  BY DEF Enqueue
<1>2. s \in Slot /\ jobs[s] = NoJob
  BY DEF FreeSlots
<1>3. jobs'[s].state = "pending" /\ jobs'[s].stage = stage /\ \A r \in Slot : r # s => jobs'[r] = jobs[r]
  BY <1>1, <1>2
<1>4. \A r \in Slot : Unfinished(r) => Unfinished(r)'
  BY <1>3 DEF Unfinished
<1> QED
  BY <1>2, <1>3, <1>4

\* Nothing is written, and what is carried stays where it is.
LEMMA NothingCarried ==
    ASSUME SerialInv, UNCHANGED <<draft, versions, reports>>,
           \A t \in Tab : TabCarries(t)' => TabCarries(t),
           \A s \in Slot : JobCarries(s)' => JobCarries(s) /\ jobs'[s].stage = jobs[s].stage,
           \A w \in Worker : WorkerCarries(w)' =>
               WorkerCarries(w) /\ workers'[w] = workers[w] /\ Unfinished(workers[w].slot)',
           "enq" \notin Env /\ Alive /\ Carried => Carried',
           Alive => StartersKnow'
    PROVE  (Alive => OneStep)' /\ ReportsAreTrue' /\ LifeStep
<1>1. LifeStep /\ ReportsAreTrue' /\ (Alive' <=> Alive)
  BY Stutters DEF SerialInv, ReportsAreTrue, ReportIsOfItsVersion, ReportHasItsText, Alive
<1> SUFFICES ASSUME Alive PROVE OneStep'
  BY <1>1
<1>2. OneStep /\ Latest' = Latest
  BY DEF SerialInv, Latest
<1>3. MirrorAgrees' /\ DataFit'
  BY <1>2 DEF OneStep, MirrorAgrees, StatusRead, DataFit, Present, Latest
<1>4. OneCarrier'
  BY <1>2 DEF OneStep, OneCarrier
<1>5. Carried' => Carried
  BY DEF Carried
<1>6. CarriersFit'
  <2>1. \A t \in Tab : TabCarries(t)' => TabFits(t)'
    BY <1>2 DEF OneStep, CarriersFit, TabFits
  <2>2. \A s \in Slot : JobCarries(s)' => JobFits(s)'
    BY <1>2 DEF OneStep, CarriersFit, JobFits
  <2>3. ASSUME NEW w \in Worker, WorkerCarries(w)'
        PROVE  WorkerFits(w)'
    <3>1. WorkerCarries(w) /\ WorkerFits(w) /\ workers'[w] = workers[w] /\ Unfinished(workers[w].slot)'
      BY <1>2, <2>3 DEF OneStep, CarriersFit
    <3> QED
      BY <1>2, <3>1 DEF WorkerFits, At, Doing, Unfinished
  <2> QED
    BY <2>1, <2>2, <2>3 DEF CarriersFit
<1> QED
  BY <1>2, <1>3, <1>4, <1>5, <1>6 DEF OneStep

\* A request that has reset the status is what carries the draft on.
LEMMA Started ==
    ASSUME SerialInv, NEW t \in Tab, Open(t), Alive, ~Carried,
           \A u \in Tab : u # t => requests'[u] = requests[u],
           requests'[t].pc = "committed", requests'[t].op \in {"upload", "retry"},
           \A s \in Slot : JobCarries(s)' => JobCarries(s),
           workers' = workers, reports' = reports,
           MirrorAgrees', draft'.status = "uploaded"
    PROVE  (Alive => OneStep)' /\ ReportsAreTrue'
<1>1. ReportsAreTrue'
  BY DEF SerialInv, ReportsAreTrue, ReportIsOfItsVersion, ReportHasItsText
<1>2. TabCarries(t)' /\ \A u \in Tab : u # t => ~TabCarries(u)'
  BY DEF TabCarries, Carried
<1>3. (\A s \in Slot : ~JobCarries(s)') /\ \A w \in Worker : ~WorkerCarries(w)'
  BY DEF Carried, WorkerCarries, Doing, At
<1>4. OneCarrier' /\ Carried'
  BY <1>2, <1>3 DEF OneCarrier, Carried
<1>5. CarriersFit' /\ DataFit'
  BY <1>2, <1>3 DEF CarriersFit, TabFits, DataFit
<1>6. StartersKnow'
  BY DEF StartersKnow, SerialInv, OneIsOpen, Open
<1>7. draft'.status \in InProgress
  BY DEF InProgress
<1> QED
  BY <1>1, <1>4, <1>5, <1>6, <1>7 DEF OneStep

LEMMA UploadOne ==
    ASSUME SerialInv, NEW t \in Tab, Upload(t)
    PROVE  (Alive => OneStep)' /\ ReportsAreTrue' /\ LifeStep
<1>1. TablesOK /\ Latest \in Nat /\ requests[t] \in RequestState /\ TypeInv /\ Alive /\ OneStep
  BY TablesTyped, LatestRow DEF SerialInv, TypeInv, TypeOK, Upload, Alive
<1>2. requests[t].pc = "checked" /\ requests[t].op = "upload" /\ requests[t] # Idle /\ Open(t)
  BY DEF Upload, Committing, Idle, Open
<1>3. draft.status = requests[t].seen /\ draft.status \in {"none", "ready"}
  BY <1>1, <1>2 DEF OneStep, StartersKnow, TypeInv, RequestsKnow, Knows, StartsFrom
<1>4. ~Carried /\ StatusRead = draft.status
  BY <1>1, <1>3 DEF OneStep, InProgress, MirrorAgrees, StatusRead
<1>5. /\ Latest' = Latest + 1 /\ Present' /\ draft'.status = "uploaded"
      /\ versions'[Latest + 1] = [status |-> "uploaded", text |-> 0]
  BY <1>1, UploadTables
<1>6. MirrorAgrees' /\ StatusRead' = "uploaded"
  BY <1>5 DEF MirrorAgrees, StatusRead
<1>7. /\ \A u \in Tab : u # t => requests'[u] = requests[u]
      /\ requests'[t] = [requests[t] EXCEPT !.pc = "committed"]
  BY <1>1 DEF Upload, Then, TypeInv, TypeOK
<1>8. requests'[t].pc = "committed" /\ requests'[t].op \in {"upload", "retry"}
  BY <1>1, <1>2, <1>7 DEF RequestState, Idle
<1>9. workers' = workers /\ reports' = reports /\ jobs' = jobs
  BY DEF Upload
<1>10. \A s \in Slot : JobCarries(s)' => JobCarries(s)
  BY <1>9 DEF JobCarries
<1>11. LifeStep
  BY <1>3, <1>4, <1>5, <1>6, <1>9 DEF LifeStep, Lifecycle!Next, Lifecycle!Upload, Upload
<1> QED
  BY <1>1, <1>2, <1>4, <1>5, <1>6, <1>7, <1>8, <1>9, <1>10, <1>11, Started

LEMMA RetryOne ==
    ASSUME SerialInv, NEW t \in Tab, Retry(t)
    PROVE  (Alive => OneStep)' /\ ReportsAreTrue' /\ LifeStep
<1>1. TablesOK /\ Latest \in Nat /\ requests[t] \in RequestState /\ TypeInv
      /\ requests \in [Tab -> RequestState] /\ jobs \in [Slot -> Job \cup {NoJob}]
  BY TablesTyped, LatestRow DEF SerialInv, TypeInv, TypeOK
<1>2. requests[t].pc = "checked" /\ requests[t].op = "retry" /\ requests[t] # Idle /\ Open(t)
  BY DEF Retry, Restart, Committing, Idle, Open
<1>3. SetStatus("uploaded", {"failed"}) /\ reports' = reports /\ workers' = workers
  BY DEF Retry, Restart
<1>4. CASE Alive
  <2>1. OneStep /\ requests[t].seen = "failed"
    BY <1>1, <1>2, <1>4 DEF SerialInv, TypeInv, RequestsKnow, Knows, StartsFrom
  <2>2. draft.status = "failed" /\ Present
    BY <1>2, <2>1 DEF OneStep, StartersKnow, Present, DraftStatus
  <2>3. ~Carried /\ StatusRead = "failed"
    BY <2>1, <2>2 DEF OneStep, InProgress, MirrorAgrees
  <2>4. /\ Latest' = Latest /\ Present' /\ draft'.status = "uploaded"
        /\ versions'[Latest] = [versions[Latest] EXCEPT !.status = "uploaded"]
    BY <1>1, <1>3, <2>2, SetStatusTables DEF DraftStatus, InProgress
  <2>5. versions[Latest] \in Row
    BY <1>1, <2>2, LatestRow
  <2>6. MirrorAgrees' /\ StatusRead' = "uploaded"
    BY <2>4, <2>5 DEF MirrorAgrees, StatusRead, Row
  <2>7. /\ \A u \in Tab : u # t => requests'[u] = requests[u]
        /\ requests'[t] = [requests[t] EXCEPT !.pc = "committed"] /\ jobs' = Purged
    BY <1>1, <2>2 DEF Retry, Restart, Then
  <2>8. requests'[t].pc = "committed" /\ requests'[t].op \in {"upload", "retry"}
    BY <1>1, <1>2, <2>7 DEF RequestState, Idle
  <2>9. \A s \in Slot : JobCarries(s)' => JobCarries(s)
    BY <2>7 DEF JobCarries, Purged, NoJob
  <2>10. LifeStep
    BY <1>3, <2>3, <2>4, <2>6 DEF LifeStep, Lifecycle!Next, Lifecycle!Retry
  <2> QED
    BY <1>2, <1>3, <1>4, <2>3, <2>4, <2>6, <2>7, <2>8, <2>9, <2>10, Started
<1>5. CASE ~Alive
  <2>1. draft' = draft /\ versions' = versions
    BY <1>3, <1>5 DEF SetStatus, Alive, Present, DraftStatus, InProgress
  <2> QED
    BY <1>3, <1>5, <2>1, Stutters DEF Alive, SerialInv, ReportsAreTrue, ReportIsOfItsVersion, ReportHasItsText
<1> QED
  BY <1>4, <1>5

LEMMA DeleteOne ==
    ASSUME SerialInv, NEW t \in Tab, Delete(t)
    PROVE  (Alive => OneStep)' /\ ReportsAreTrue' /\ LifeStep
<1>1. TablesOK /\ TypeInv
  BY TablesTyped DEF SerialInv, TypeInv
<1>2. /\ draft'.status = "deleted" /\ reports' = {} /\ Latest' = 0 /\ ~Present' /\ StatusRead' = "deleted"
  BY EmptySeq DEF Delete, Latest, Present, StatusRead, DraftStatus, InProgress
<1>3. ~Alive' /\ ReportsAreTrue'
  BY <1>2 DEF Alive, ReportsAreTrue, ReportIsOfItsVersion, ReportHasItsText
<1>4. draft.status # "none"
  BY <1>1 DEF Delete, SerialInv, DeletesKnow, Open, TypeInv, RequestsKnow, Knows, Idle
<1>5. CASE Present
  <2>1. StatusRead \in DraftStatus
    BY <1>1, <1>5, LatestRow DEF StatusRead, Row
  <2>2. StatusRead \notin {"none", "deleted"}
    BY <2>1 DEF DraftStatus, InProgress
  <2>3. LifeStep
    BY <1>2, <2>2 DEF LifeStep, Lifecycle!Next, Lifecycle!Delete
  <2> QED
    BY <1>3, <2>3
<1>6. CASE ~Present
  <2>1. draft.status = "deleted" /\ StatusRead = "deleted" /\ reports = {} /\ Latest = 0
    BY <1>1, <1>4, <1>6, LatestRow DEF TablesOK, DraftRow, Present, StatusRead, SerialInv, DeletesKnow
  <2>2. LifeStep
    BY <1>2, <2>1 DEF LifeStep, Lifecycle!vars
  <2> QED
    BY <1>3, <2>2
<1> QED
  BY <1>5, <1>6

\* The job of a handler that carries the draft on is there.
LEMMA CarrierSlot ==
    ASSUME TypeInv, OneStep, NEW w \in Worker, WorkerCarries(w)
    PROVE  /\ workers[w] \in JobState /\ workers[w].slot \in Slot /\ KnowsJob(workers[w])
           /\ Unfinished(workers[w].slot) /\ WorkerFits(w)
<1>1. workers[w].pc \in AtJob
  BY DEF WorkerCarries, AtJob
<1>2. WorkerFits(w)
  BY DEF OneStep, CarriersFit
<1> QED
  BY <1>1, <1>2, AtWork DEF JobState, WorkerFits

LEMMA EnqueueFirstOne ==
    ASSUME Serial, SerialInv, NEW t \in Tab, EnqueueFirst(t)
    PROVE  (Alive => OneStep)' /\ ReportsAreTrue' /\ LifeStep
<1>1. /\ TypeInv /\ requests[t] \in RequestState /\ requests \in [Tab -> RequestState]
      /\ jobs \in [Slot -> Job \cup {NoJob}]
  BY DEF SerialInv, TypeInv, TypeOK
<1>2. requests[t].pc = "committed" /\ requests[t].op \in {"upload", "retry", "delete"}
  BY <1>1 DEF EnqueueFirst, TypeInv, RequestsKnow, Knows, Idle, Serial, RequestState
<1>3. /\ requests'[t] = Idle /\ \A u \in Tab : u # t => requests'[u] = requests[u]
  BY <1>1 DEF EnqueueFirst, Then
<1>4. UNCHANGED <<draft, versions, reports>> /\ workers' = workers
  BY DEF EnqueueFirst, tables
<1> DEFINE stage == FirstStage(requests[t].op)
<1>5. stage \in Stage /\ (stage = "cleanup" <=> requests[t].op = "delete")
      /\ (requests[t].op # "delete" => stage = "parse")
  BY <1>2 DEF FirstStage, Stage, Pipeline
<1> HIDE DEF stage
<1>6. PICK s \in Slot :
          /\ jobs[s] = NoJob /\ jobs'[s].state = "pending" /\ jobs'[s].stage = stage
          /\ \A r \in Slot : r # s => jobs'[r] = jobs[r]
          /\ \A r \in Slot : Unfinished(r) => Unfinished(r)'
  BY <1>1, <1>5, EnqueuedSlot DEF EnqueueFirst, stage
<1>7. \A r \in Slot : r # s => (JobCarries(r)' <=> JobCarries(r)) /\ jobs'[r].stage = jobs[r].stage
  BY <1>6 DEF JobCarries
<1>8. ~JobCarries(s) /\ (JobCarries(s)' <=> requests[t].op # "delete")
  BY <1>2, <1>5, <1>6 DEF JobCarries, NoJob, Pipeline
<1>9. ~TabCarries(t)' /\ \A u \in Tab : u # t => (TabCarries(u)' <=> TabCarries(u))
  BY <1>3 DEF TabCarries, Idle
<1>10. (TabCarries(t) <=> requests[t].op # "delete") /\ StartersKnow => StartersKnow'
  BY <1>3, <1>4 DEF StartersKnow, Idle
<1>11. \A w \in Worker : WorkerCarries(w)' <=> WorkerCarries(w)
  BY <1>4 DEF WorkerCarries, Doing, At
<1>12. ReportsAreTrue' /\ LifeStep /\ (Alive' <=> Alive)
  BY <1>4, Stutters DEF SerialInv, ReportsAreTrue, ReportIsOfItsVersion, ReportHasItsText, Alive
<1>13. CASE Alive
  <2>1. OneStep
    BY <1>13 DEF SerialInv
  <2>2. CASE requests[t].op = "delete"
    <3>1. ~TabCarries(t)
      BY <2>2 DEF TabCarries
    <3>2. \A w \in Worker : WorkerCarries(w) => Unfinished(workers[w].slot)'
      BY <1>1, <1>4, <1>6, <2>1, CarrierSlot DEF Unfinished
    <3>3. Carried => Carried'
      BY <1>7, <1>8, <1>9, <1>11, <3>1 DEF Carried
    <3> QED
      BY <1>4, <1>7, <1>8, <1>9, <1>10, <1>11, <2>1, <2>2, <3>1, <3>2, <3>3, NothingCarried DEF OneStep, TabCarries
  <2>3. CASE requests[t].op # "delete"
    <3>1. TabCarries(t)
      BY <1>2, <2>3 DEF TabCarries
    <3>2. /\ \A u \in Tab : ~TabCarries(u)'
          /\ \A r \in Slot : r # s => ~JobCarries(r)'
          /\ \A w \in Worker : ~WorkerCarries(w)'
      BY <1>7, <1>9, <1>11, <2>1, <3>1 DEF OneStep, OneCarrier
    <3>3. JobCarries(s)' /\ OneCarrier' /\ Carried'
      BY <1>8, <2>3, <3>2 DEF OneCarrier, Carried
    <3>4. draft'.status = "uploaded"
      BY <1>4, <2>1, <3>1 DEF OneStep, CarriersFit, TabFits
    <3>5. CarriersFit'
      BY <1>5, <1>6, <2>3, <3>2, <3>4 DEF CarriersFit, JobFits, StatusBefore
    <3>6. MirrorAgrees' /\ DataFit'
      BY <1>4, <2>1, <3>4 DEF OneStep, MirrorAgrees, StatusRead, Present, Latest, DataFit
    <3>7. StartersKnow'
      BY <1>10, <2>1, <2>3, <3>1 DEF OneStep
    <3>8. draft'.status \in InProgress
      BY <3>4 DEF InProgress
    <3> QED
      BY <1>12, <3>3, <3>5, <3>6, <3>7, <3>8 DEF OneStep
  <2> QED
    BY <2>2, <2>3
<1> QED
  BY <1>12, <1>13

LEMMA RequestOne ==
    ASSUME Serial, SerialInv, NEW t \in Tab, RequestStep(t)
    PROVE  (Alive => OneStep)' /\ ReportsAreTrue' /\ LifeStep
<1>0. /\ TypeInv /\ requests[t] \in RequestState /\ requests \in [Tab -> RequestState]
      /\ jobs \in [Slot -> Job \cup {NoJob}] /\ TablesOK
  BY TablesTyped DEF SerialInv, TypeInv, TypeOK
<1>1. workers' = workers
  BY DEF RequestStep, Check, Upload, Retry, Reanalyze, Restart, ReportReanalyze, Export, Download, Collect,
     Delete, EnqueueFirst, EnqueueLost, Refused
<1>2. \A u \in Tab : u # t => requests'[u] = requests[u]
  BY <1>0, RequestRecord
\* The requests that write nothing of the draft, and enqueue at most an export.
<1>3. ASSUME UNCHANGED <<draft, versions, reports>>,
             ~TabCarries(t)', "enq" \notin Env => ~TabCarries(t),
             Alive /\ requests'[t].pc = "checked" /\ requests'[t].op \in {"upload", "retry"} =>
                 requests'[t].seen = draft.status,
             jobs' = jobs \/ Enqueue("export", {})
      PROVE  (Alive => OneStep)' /\ ReportsAreTrue' /\ LifeStep
  <2>1. \A u \in Tab : TabCarries(u)' => TabCarries(u)
    BY <1>2, <1>3 DEF TabCarries
  <2>2. /\ \A s \in Slot : JobCarries(s)' <=> JobCarries(s)
        /\ \A s \in Slot : JobCarries(s) => jobs'[s].stage = jobs[s].stage
        /\ \A s \in Slot : Unfinished(s) => Unfinished(s)'
    <3>1. CASE jobs' = jobs
      BY <3>1 DEF JobCarries, Unfinished
    <3>2. CASE Enqueue("export", {})
      <4>1. PICK s \in Slot :
                /\ jobs[s] = NoJob /\ jobs'[s].state = "pending" /\ jobs'[s].stage = "export"
                /\ \A r \in Slot : r # s => jobs'[r] = jobs[r]
                /\ \A r \in Slot : Unfinished(r) => Unfinished(r)'
        BY <1>0, <3>2, EnqueuedSlot DEF Stage
      <4>2. ~JobCarries(s) /\ ~JobCarries(s)'
        BY <4>1 DEF JobCarries, NoJob, Pipeline
      <4>3. \A r \in Slot : r # s => (JobCarries(r)' <=> JobCarries(r)) /\ jobs'[r].stage = jobs[r].stage
        BY <4>1 DEF JobCarries
      <4> QED
        BY <4>1, <4>2, <4>3
    <3> QED
      BY <1>3, <3>1, <3>2
  <2>3. \A w \in Worker : WorkerCarries(w)' <=> WorkerCarries(w)
    BY <1>1 DEF WorkerCarries, Doing, At
  <2>4. CASE Alive
    <3>1. OneStep
      BY <2>4 DEF SerialInv
    <3>2. \A w \in Worker : WorkerCarries(w) => Unfinished(workers[w].slot)'
      BY <1>0, <1>1, <2>2, <3>1, CarrierSlot DEF Unfinished
    <3>3. "enq" \notin Env /\ Carried => Carried'
      <4>1. \A u \in Tab : u # t => (TabCarries(u) <=> TabCarries(u)')
        BY <1>2 DEF TabCarries
      <4> QED
        BY <1>3, <2>2, <2>3, <4>1 DEF Carried
    <3>4. StartersKnow'
      BY <1>2, <1>3, <2>4, <3>1 DEF OneStep, StartersKnow
    <3> QED
      BY <1>1, <1>3, <2>1, <2>2, <2>3, <3>2, <3>3, <3>4, NothingCarried
  <2>5. CASE ~Alive
    BY <1>3, <2>5, Stutters DEF Alive, SerialInv, ReportsAreTrue, ReportIsOfItsVersion, ReportHasItsText
  <2> QED
    BY <2>4, <2>5
<1>4. ASSUME NEW op \in Op, Check(t, op)
      PROVE  (Alive => OneStep)' /\ ReportsAreTrue' /\ LifeStep
  <2>1. /\ requests'[t].pc = "checked" /\ requests'[t].seen = StatusRead
    BY <1>0, <1>4 DEF Check
  <2>2. Alive => StatusRead = draft.status
    BY DEF SerialInv, OneStep, MirrorAgrees, StatusRead
  <2>3. ~TabCarries(t)' /\ ~TabCarries(t)
    BY <1>4, <2>1 DEF Check, TabCarries
  <2> QED
    BY <1>3, <1>4, <2>1, <2>2, <2>3 DEF Check, tables
<1>5. ASSUME UNCHANGED <<draft, versions, reports>>, requests[t].pc = "checked",
             requests'[t].pc \in {"idle", "collected"}, jobs' = jobs \/ Enqueue("export", {})
      PROVE  (Alive => OneStep)' /\ ReportsAreTrue' /\ LifeStep
  BY <1>3, <1>5 DEF TabCarries
<1>6. ASSUME requests[t].pc # "idle", Then(t, "idle")
      PROVE  requests'[t] = Idle /\ requests'[t].pc = "idle"
  BY <1>0, <1>6 DEF Then, Idle
<1>7. CASE Export(t) \/ Refused(t) \/ Download(t)
  BY <1>5, <1>6, <1>7 DEF Export, Refused, Download, Committing, tables
<1>8. CASE Collect(t)
  <2>1. requests'[t] = [requests[t] EXCEPT !.pc = "collected", !.paths = DOMAIN versions]
    BY <1>0, <1>8 DEF Collect
  <2>2. requests'[t].pc = "collected" /\ requests[t].pc = "checked"
    BY <1>0, <1>8, <2>1 DEF Collect, Committing, RequestState, Idle
  <2> QED
    BY <1>5, <1>8, <2>2 DEF Collect, tables
<1>9. CASE EnqueueLost(t)
  BY <1>3, <1>6, <1>9 DEF EnqueueLost, tables, TabCarries
<1>10. CASE Reanalyze(t) \/ ReportReanalyze(t)
  <2>1. requests[t].op \in {"reanalyze", "report"} /\ requests[t].op \in Op
    BY <1>0, <1>10, RequestShape DEF Reanalyze, Restart, ReportReanalyze, Committing
  <2> QED
    BY <2>1 DEF Serial
<1> QED
  BY <1>4, <1>7, <1>8, <1>9, <1>10, UploadOne, RetryOne, DeleteOne, EnqueueFirstOne DEF RequestStep

-----------------------------------------------------------------------------
(* One request at a time: the steps of workers *)

\* Nobody writes the rows of a draft that is not there.
LEMMA AbsentStep ==
    ASSUME TypeInv, NEW w \in Worker, WorkerStep(w), ~Present
    PROVE  UNCHANGED <<draft, versions, reports>>
<1>1. \A status, expected : SetStatus(status, expected) /\ expected \subseteq DraftStatus =>
          UNCHANGED <<draft, versions>>
  BY DEF SetStatus, Present
<1>2. CASE Mark(w)
  BY <1>1, <1>2 DEF Mark
<1>3. CASE MarkFailed(w)
  BY <1>1, <1>3 DEF MarkFailed
<1>4. CASE FinalizeWrite(w)
  <2>1. workers[w].seen \in InProgress
    BY <1>4, WorkerShape DEF FinalizeWrite, At, TypeInv, TypeOK
  <2> QED
    BY <1>1, <1>4, <2>1 DEF FinalizeWrite, DraftStatus
<1>5. CASE Extracted(w) \/ Analyzed(w)
  BY <1>5 DEF Extracted, Analyzed
<1>6. CASE Parsed(w)
  BY <1>6 DEF Parsed
<1> QED
  BY <1>2, <1>3, <1>4, <1>5, <1>6 DEF WorkerStep, Progress, Take, Crash, Load, LoadFails,
     MarkFails, WorkFails, Raise, EnqueueNext, PutGraph, LoadReport, Rendered, ExportFails, Cleanup,
     FinishJob, FinalizeRead, Claim, Reap, tables

\* A handler that carries the draft on is the only one to do so.
LEMMA SoleCarrier ==
    ASSUME SerialInv, Alive, NEW w \in Worker, WorkerCarries(w)
    PROVE  /\ \A t \in Tab : ~TabCarries(t)
           /\ \A s \in Slot : ~JobCarries(s)
           /\ \A v \in Worker : v # w => ~WorkerCarries(v)
           /\ \A t \in Tab : requests[t].pc = "checked" => requests[t].op \notin {"upload", "retry"}
           /\ draft.status \in InProgress /\ Present /\ StatusRead = draft.status
           /\ OneStep
<1>1. OneStep /\ TypeInv
  BY DEF SerialInv
<1>2. Carried /\ draft.status \in InProgress
  BY <1>1 DEF OneStep, Carried
<1>3. Present /\ StatusRead = draft.status
  BY <1>1, <1>2 DEF OneStep, MirrorAgrees, Present, DraftStatus
<1>4. ASSUME NEW t \in Tab, requests[t].pc = "checked", requests[t].op \in {"upload", "retry"}
      PROVE  FALSE
  <2>1. requests[t].seen = draft.status /\ requests[t].seen \in StartsFrom(requests[t].op)
    BY <1>1, <1>4 DEF OneStep, StartersKnow, TypeInv, RequestsKnow, Knows, Idle
  <2> QED
    BY <1>2, <1>4, <2>1 DEF StartsFrom, InProgress
<1> QED
  BY <1>1, <1>2, <1>3, <1>4 DEF OneStep, OneCarrier

\* Where it leaves the draft: in its own hands, in those of a job, or at rest.
LEMMA CarriedOn ==
    ASSUME SerialInv, Alive, NEW w \in Worker, WorkerCarries(w),
           requests' = requests, \A v \in Worker : v # w => workers'[v] = workers[v],
           MirrorAgrees', DataFit',
           \/ /\ WorkerCarries(w)' /\ WorkerFits(w)' /\ draft'.status \in InProgress
              /\ \A s \in Slot : ~JobCarries(s)'
           \/ /\ ~WorkerCarries(w)' /\ draft'.status \in InProgress
              /\ \E s \in Slot : JobCarries(s)' /\ JobFits(s)' /\ \A r \in Slot : r # s => ~JobCarries(r)'
           \/ /\ ~WorkerCarries(w)' /\ draft'.status \notin InProgress
              /\ \A s \in Slot : ~JobCarries(s)'
    PROVE  OneStep'
<1>1. /\ \A t \in Tab : ~TabCarries(t)'
      /\ \A v \in Worker : v # w => ~WorkerCarries(v)'
      /\ \A t \in Tab : requests'[t].pc = "checked" => requests'[t].op \notin {"upload", "retry"}
  BY SoleCarrier DEF TabCarries, WorkerCarries, At, Doing
<1>2. StartersKnow'
  BY <1>1 DEF StartersKnow
<1>3. OneCarrier'
  BY <1>1 DEF OneCarrier
<1>4. CarriersFit'
  BY <1>1 DEF CarriersFit
<1>5. Carried' <=> draft'.status \in InProgress
  BY <1>1 DEF Carried
<1> QED
  BY <1>2, <1>3, <1>4, <1>5 DEF OneStep

\* The handler goes on with the draft as it was.
LEMMA StillCarried ==
    ASSUME SerialInv, Alive, NEW w \in Worker, WorkerCarries(w),
           requests' = requests, \A v \in Worker : v # w => workers'[v] = workers[v],
           UNCHANGED <<draft, versions, reports, jobs>>,
           WorkerCarries(w)', WorkerFits(w)'
    PROVE  OneStep' /\ ReportsAreTrue' /\ LifeStep
<1>1. OneStep /\ draft'.status \in InProgress /\ \A s \in Slot : ~JobCarries(s)'
  BY SoleCarrier DEF JobCarries
<1>2. MirrorAgrees' /\ DataFit'
  BY <1>1 DEF OneStep, MirrorAgrees, StatusRead, Present, Latest, DataFit
<1>3. OneStep'
  BY <1>1, <1>2, CarriedOn
<1>4. ReportsAreTrue'
  BY DEF SerialInv, ReportsAreTrue, ReportIsOfItsVersion, ReportHasItsText
<1> QED
  BY <1>3, <1>4, Stutters

LEMMA LoadOne ==
    ASSUME SerialInv, Alive, NEW w \in Worker, WorkerCarries(w), Load(w)
    PROVE  OneStep' /\ ReportsAreTrue' /\ LifeStep
<1>1. /\ OneStep /\ TypeInv /\ Present /\ TablesOK /\ workers \in [Worker -> WorkerState]
      /\ draft.status \in InProgress
  BY SoleCarrier, TablesTyped DEF SerialInv, TypeInv, TypeOK
<1>2. /\ workers[w] \in JobState /\ Unfinished(workers[w].slot) /\ WorkerFits(w)
      /\ workers[w].pc = "claimed" /\ workers[w].stage \in Pipeline
  BY <1>1, CarrierSlot DEF Load, At, Doing
<1>3. draft.status \in StatusBefore(workers[w].stage)
  BY <1>2 DEF WorkerFits, At
<1>4. workers[w].stage = "extract" => TextRead = Latest
  <2>1. workers[w].stage = "extract" => draft.status = "extracting"
    BY <1>3 DEF StatusBefore
  <2>2. workers[w].stage = "extract" => versions[Latest].text = Latest
    BY <1>1, <2>1 DEF OneStep, DataFit
  <2>3. Latest # 0
    BY <1>1, LatestRow, Constants
  <2> QED
    BY <1>1, <2>2, <2>3 DEF TextRead
<1>5. workers[w].stage = "analyze" => draft.entities = Latest
  BY <1>1, <1>3 DEF StatusBefore, OneStep, DataFit
<1>6. PICK from : /\ workers' = [workers EXCEPT ![w] =
                        [@ EXCEPT !.pc = IF Doing(w, {"analyze"}) THEN "working" ELSE "loaded",
                                  !.ver = Latest, !.from = from]]
                  /\ workers[w].stage # "parse" => from = Latest
  <2> DEFINE from == CASE Doing(w, {"parse"}) -> 0
                       [] Doing(w, {"extract"}) -> TextRead
                       [] OTHER -> draft.entities
  <2>1. workers[w].stage # "parse" => from = Latest
    BY <1>2, <1>4, <1>5 DEF Doing, Pipeline
  <2>2. workers' = [workers EXCEPT ![w] =
                        [@ EXCEPT !.pc = IF Doing(w, {"analyze"}) THEN "working" ELSE "loaded",
                                  !.ver = Latest, !.from = from]]
    BY DEF Load
  <2> HIDE DEF from
  <2> QED
    BY <2>1, <2>2
<1>7. /\ workers'[w].pc = IF workers[w].stage = "analyze" THEN "working" ELSE "loaded"
      /\ workers'[w].stage = workers[w].stage /\ workers'[w].slot = workers[w].slot
      /\ workers'[w].ver = Latest /\ (workers[w].stage # "parse" => workers'[w].from = Latest)
      /\ \A v \in Worker : v # w => workers'[v] = workers[v]
  BY <1>1, <1>2, <1>6 DEF JobState, Doing
<1>8. requests' = requests /\ UNCHANGED <<draft, versions, reports, jobs>> /\ Latest' = Latest
  BY DEF Load, tables, Latest
<1>9. WorkerCarries(w)'
  BY <1>2, <1>7 DEF WorkerCarries, Doing, At
<1>10. WorkerFits(w)'
  BY <1>2, <1>3, <1>7, <1>8 DEF WorkerFits, At, Doing, Unfinished
<1> QED
  BY <1>7, <1>8, <1>9, <1>10, StillCarried

\* A Step of the handler, with what it keeps.
LEMMA StepRecord ==
    ASSUME TypeInv, NEW w \in Worker, workers[w] \in JobState, NEW pc, Step(w, pc)
    PROVE  /\ workers'[w].pc = pc
           /\ workers'[w].stage = workers[w].stage /\ workers'[w].slot = workers[w].slot
           /\ workers'[w].last = workers[w].last
           /\ workers'[w].ver = workers[w].ver /\ workers'[w].from = workers[w].from
           /\ \A v \in Worker : v # w => workers'[v] = workers[v]
<1>1. workers \in [Worker -> WorkerState]
  BY DEF TypeInv, TypeOK
<1>2. workers' = [workers EXCEPT ![w] = [workers[w] EXCEPT !.pc = pc]]
  BY DEF Step
<1> QED
  BY <1>1, <1>2 DEF JobState

LEMMA WorkFailsOne ==
    ASSUME Serial, SerialInv, Alive, NEW w \in Worker, WorkerCarries(w), WorkFails(w) \/ PutGraph(w)
    PROVE  OneStep' /\ ReportsAreTrue' /\ LifeStep
<1>1. OneStep /\ TypeInv
  BY DEF SerialInv
<1>2. /\ workers[w] \in JobState /\ Unfinished(workers[w].slot) /\ WorkerFits(w) /\ KnowsJob(workers[w])
      /\ workers[w].stage \in Pipeline
  BY <1>1, CarrierSlot DEF WorkerCarries, Doing
<1>3. /\ workers[w].pc \in {"working", "loading"} /\ UNCHANGED <<draft, versions, reports, jobs, requests>>
      /\ \/ Step(w, "raised")
         \/ Step(w, "loading") /\ workers[w].pc = "working" /\ workers[w].stage = "analyze"
  BY DEF WorkFails, PutGraph, Raise, At, Doing, Serial, tables
<1>4. PICK pc \in {"raised", "loading"} : Step(w, pc) /\ (pc = "loading" => workers[w].stage = "analyze")
  BY <1>3
<1>5. /\ workers'[w].pc = pc
      /\ workers'[w].stage = workers[w].stage /\ workers'[w].slot = workers[w].slot
      /\ workers'[w].ver = workers[w].ver /\ workers'[w].from = workers[w].from
      /\ \A v \in Worker : v # w => workers'[v] = workers[v]
  BY <1>1, <1>2, <1>4, StepRecord
<1>6. draft.status \in StatusBefore(workers[w].stage)
  BY <1>2, <1>3 DEF WorkerFits, At, Doing, StatusBefore
<1>7. WorkerCarries(w)'
  BY <1>2, <1>5 DEF WorkerCarries, Doing, At
<1>8. WorkerFits(w)'
  BY <1>2, <1>3, <1>4, <1>5, <1>6 DEF WorkerFits, At, Doing, Unfinished, Latest
<1> QED
  BY <1>3, <1>5, <1>7, <1>8, StillCarried

LEMMA MarkOne ==
    ASSUME SerialInv, Alive, NEW w \in Worker, WorkerCarries(w), Mark(w)
    PROVE  OneStep' /\ ReportsAreTrue' /\ LifeStep
<1>1. OneStep /\ TypeInv /\ Present /\ TablesOK /\ StatusRead = draft.status
  BY SoleCarrier, TablesTyped DEF SerialInv, TypeInv
<1>2. /\ workers[w] \in JobState /\ Unfinished(workers[w].slot) /\ WorkerFits(w) /\ KnowsJob(workers[w])
      /\ workers[w].pc = "loaded" /\ workers[w].stage \in {"parse", "extract"}
  BY <1>1, CarrierSlot DEF Mark, At, KnowsJob
<1>3. /\ workers[w].ver = Latest /\ (workers[w].stage = "extract" => workers[w].from = Latest)
      /\ draft.status \in StatusBefore(workers[w].stage)
  BY <1>2 DEF WorkerFits, At, Doing
<1> DEFINE status == IF Doing(w, {"parse"}) THEN "parsing" ELSE "extracting"
<1>4. SetStatus(status, DraftStatus) /\ UNCHANGED reports /\ status \in DraftStatus
  BY DEF Mark, DraftStatus, InProgress
<1>5. \/ workers[w].stage = "parse" /\ status = "parsing"
      \/ workers[w].stage = "extract" /\ status = "extracting"
  BY <1>2 DEF Doing
<1> HIDE DEF status
<1>6. draft.status \in DraftStatus
  BY <1>1 DEF Present
<1>7. /\ Latest' = Latest /\ Present' /\ draft'.status = status
      /\ versions'[Latest] = [versions[Latest] EXCEPT !.status = status]
      /\ draft'.entities = draft.entities
  BY <1>1, <1>4, <1>6, SetStatusTables
<1>8. versions[Latest] \in Row
  BY <1>1, LatestRow
<1>9. versions'[Latest].status = status /\ versions'[Latest].text = versions[Latest].text
  BY <1>7, <1>8 DEF Row
<1>10. MirrorAgrees' /\ StatusRead' = status
  BY <1>7, <1>9 DEF MirrorAgrees, StatusRead
<1>11. \/ draft.status \in {"uploaded", "parsing"} /\ status = "parsing"
       \/ draft.status = "extracting" /\ status = "extracting"
  BY <1>3, <1>5 DEF StatusBefore
<1>12. DataFit'
  BY <1>1, <1>7, <1>9, <1>11 DEF OneStep, DataFit
<1>13. /\ workers'[w].pc = "working"
       /\ workers'[w].stage = workers[w].stage /\ workers'[w].slot = workers[w].slot
       /\ workers'[w].ver = workers[w].ver /\ workers'[w].from = workers[w].from
       /\ \A v \in Worker : v # w => workers'[v] = workers[v]
  BY <1>1, <1>2, StepRecord DEF Mark
<1>14. jobs' = jobs /\ requests' = requests
  BY DEF Mark
<1>15. WorkerCarries(w)' /\ \A s \in Slot : ~JobCarries(s)'
  BY <1>2, <1>13, <1>14, SoleCarrier DEF WorkerCarries, Doing, At, Pipeline, JobCarries
<1>16. WorkerFits(w)'
  BY <1>2, <1>3, <1>5, <1>7, <1>13, <1>14 DEF WorkerFits, At, Doing, Unfinished, StatusBefore
<1>17. draft'.status \in InProgress
  BY <1>7, <1>11 DEF InProgress
<1>18. OneStep'
  BY <1>10, <1>12, <1>13, <1>14, <1>15, <1>16, <1>17, CarriedOn
<1>19. ReportsAreTrue'
  BY <1>4 DEF SerialInv, ReportsAreTrue, ReportIsOfItsVersion, ReportHasItsText
<1>20. LifeStep
  <2>1. CASE StatusRead = "uploaded" /\ StatusRead' = "parsing"
    BY <1>4, <1>7, <2>1 DEF LifeStep, Lifecycle!Next, Lifecycle!Advance, Lifecycle!After
  <2>2. CASE StatusRead' = StatusRead
    BY <1>4, <1>7, <2>2 DEF LifeStep, Lifecycle!vars
  <2> QED
    BY <1>1, <1>10, <1>11, <2>1, <2>2
<1> QED
  BY <1>18, <1>19, <1>20

LEMMA ParsedOne ==
    ASSUME SerialInv, Alive, NEW w \in Worker, WorkerCarries(w), Parsed(w)
    PROVE  OneStep' /\ ReportsAreTrue' /\ LifeStep
<1>1. OneStep /\ TypeInv /\ Present /\ StatusRead = draft.status
  BY SoleCarrier DEF SerialInv
<1>2. /\ workers[w] \in JobState /\ Unfinished(workers[w].slot) /\ WorkerFits(w)
      /\ workers[w].pc = "working" /\ workers[w].stage = "parse"
  BY <1>1, CarrierSlot DEF Parsed, At, Doing
<1>3. workers[w].ver = Latest /\ draft.status = "parsing"
  BY <1>2 DEF WorkerFits, At, Doing
<1>4. /\ Latest' = Latest /\ Present'
      /\ draft'.status = "extracting" /\ versions'[Latest].status = "extracting"
      /\ versions'[Latest].text = Latest
  BY <1>1, <1>3, ParsedTables
<1>5. MirrorAgrees' /\ StatusRead' = "extracting" /\ DataFit'
  BY <1>4 DEF MirrorAgrees, StatusRead, DataFit
<1>6. /\ workers'[w].pc = "committed"
      /\ workers'[w].stage = workers[w].stage /\ workers'[w].slot = workers[w].slot
      /\ workers'[w].ver = workers[w].ver
      /\ \A v \in Worker : v # w => workers'[v] = workers[v]
  BY <1>1, <1>2, StepRecord DEF Parsed
<1>7. jobs' = jobs /\ requests' = requests /\ reports' = reports
  BY DEF Parsed
<1>8. WorkerCarries(w)' /\ \A s \in Slot : ~JobCarries(s)'
  BY <1>2, <1>6, <1>7, SoleCarrier DEF WorkerCarries, Doing, At, Pipeline, JobCarries
<1>9. WorkerFits(w)'
  BY <1>2, <1>3, <1>4, <1>6, <1>7 DEF WorkerFits, At, Doing, Unfinished, StatusAfter
<1>10. OneStep'
  BY <1>4, <1>5, <1>6, <1>7, <1>8, <1>9, CarriedOn DEF InProgress
<1>11. ReportsAreTrue'
  BY <1>7 DEF SerialInv, ReportsAreTrue, ReportIsOfItsVersion, ReportHasItsText
<1>12. LifeStep
  BY <1>1, <1>3, <1>4, <1>5, <1>7 DEF LifeStep, Lifecycle!Next, Lifecycle!Advance, Lifecycle!After
<1> QED
  BY <1>10, <1>11, <1>12

LEMMA ExtractedOne ==
    ASSUME SerialInv, Alive, NEW w \in Worker, WorkerCarries(w), Extracted(w)
    PROVE  OneStep' /\ ReportsAreTrue' /\ LifeStep
<1>1. OneStep /\ TypeInv /\ Present /\ TablesOK /\ StatusRead = draft.status
  BY SoleCarrier, TablesTyped DEF SerialInv, TypeInv
<1>2. /\ workers[w] \in JobState /\ Unfinished(workers[w].slot) /\ WorkerFits(w)
      /\ workers[w].pc = "working" /\ workers[w].stage = "extract"
  BY <1>1, CarrierSlot DEF Extracted, At, Doing
<1>3. workers[w].ver = Latest /\ workers[w].from = Latest /\ draft.status = "extracting"
  BY <1>2 DEF WorkerFits, At, Doing, StatusBefore
<1>4. /\ Latest' = Latest /\ Present'
      /\ draft'.status = "analyzing" /\ draft'.entities = Latest
      /\ versions'[Latest] = [versions[Latest] EXCEPT !.status = "analyzing"]
  BY <1>1, <1>3, ExtractedTables
<1>5. versions'[Latest].status = "analyzing" /\ versions'[Latest].text = Latest
  BY <1>1, <1>3, <1>4, LatestRow DEF Row, OneStep, DataFit
<1>6. MirrorAgrees' /\ StatusRead' = "analyzing" /\ DataFit'
  BY <1>4, <1>5 DEF MirrorAgrees, StatusRead, DataFit
<1>7. /\ workers'[w].pc = "committed"
      /\ workers'[w].stage = workers[w].stage /\ workers'[w].slot = workers[w].slot
      /\ workers'[w].ver = workers[w].ver
      /\ \A v \in Worker : v # w => workers'[v] = workers[v]
  BY <1>1, <1>2, StepRecord DEF Extracted
<1>8. jobs' = jobs /\ requests' = requests /\ reports' = reports
  BY DEF Extracted
<1>9. WorkerCarries(w)' /\ \A s \in Slot : ~JobCarries(s)'
  BY <1>2, <1>7, <1>8, SoleCarrier DEF WorkerCarries, Doing, At, Pipeline, JobCarries
<1>10. WorkerFits(w)'
  BY <1>2, <1>3, <1>4, <1>7, <1>8 DEF WorkerFits, At, Doing, Unfinished, StatusAfter
<1>11. OneStep'
  BY <1>4, <1>6, <1>7, <1>8, <1>9, <1>10, CarriedOn DEF InProgress
<1>12. ReportsAreTrue'
  BY <1>8 DEF SerialInv, ReportsAreTrue, ReportIsOfItsVersion, ReportHasItsText
<1>13. LifeStep
  BY <1>1, <1>3, <1>4, <1>6, <1>8 DEF LifeStep, Lifecycle!Next, Lifecycle!Advance, Lifecycle!After
<1> QED
  BY <1>11, <1>12, <1>13

LEMMA AnalyzedOne ==
    ASSUME SerialInv, Alive, NEW w \in Worker, WorkerCarries(w), Analyzed(w)
    PROVE  OneStep' /\ ReportsAreTrue' /\ LifeStep
<1>1. OneStep /\ TypeInv /\ Present /\ TablesOK /\ StatusRead = draft.status
  BY SoleCarrier, TablesTyped DEF SerialInv, TypeInv
<1>2. /\ workers[w] \in JobState /\ WorkerFits(w) /\ KnowsJob(workers[w])
      /\ workers[w].pc = "loading" /\ workers[w].stage = "analyze"
  BY <1>1, CarrierSlot DEF Analyzed, At, KnowsJob
<1>3. workers[w].ver = Latest /\ workers[w].from = Latest /\ draft.status = "analyzing"
  BY <1>2 DEF WorkerFits, At, Doing, StatusBefore
<1>4. /\ Latest' = Latest /\ Present' /\ draft'.status = "ready"
      /\ versions'[Latest] = [versions[Latest] EXCEPT !.status = "ready"]
      /\ reports' = reports \cup {[version |-> Latest, loaded |-> Latest, from |-> Latest]}
  BY <1>1, <1>3, AnalyzedTables
<1>5. versions'[Latest].status = "ready"
  BY <1>1, <1>4, LatestRow DEF Row
<1>6. MirrorAgrees' /\ StatusRead' = "ready" /\ DataFit'
  BY <1>4, <1>5 DEF MirrorAgrees, StatusRead, DataFit
<1>7. workers'[w].pc = "returned" /\ \A v \in Worker : v # w => workers'[v] = workers[v]
  BY <1>1, <1>2, StepRecord DEF Analyzed
<1>8. jobs' = jobs /\ requests' = requests
  BY DEF Analyzed
<1>9. ~WorkerCarries(w)' /\ \A s \in Slot : ~JobCarries(s)'
  BY <1>7, <1>8, SoleCarrier DEF WorkerCarries, JobCarries
<1>10. OneStep'
  BY <1>4, <1>6, <1>7, <1>8, <1>9, CarriedOn DEF InProgress
<1>11. ReportsAreTrue'
  BY <1>4 DEF SerialInv, ReportsAreTrue, ReportIsOfItsVersion, ReportHasItsText
<1>12. {r.version : r \in reports'} = {r.version : r \in reports} \cup {Latest}
  <2>1. \A r : r \in reports' <=> r \in reports \/ r = [version |-> Latest, loaded |-> Latest, from |-> Latest]
    BY <1>4
  <2>2. [version |-> Latest, loaded |-> Latest, from |-> Latest].version = Latest
    OBVIOUS
  <2>3. \A v : v \in {r.version : r \in reports'} <=> v \in {r.version : r \in reports} \cup {Latest}
    BY <2>1, <2>2
  <2> QED
    BY <2>3
<1>13. LifeStep
  BY <1>1, <1>3, <1>4, <1>6, <1>12 DEF LifeStep, Lifecycle!Next, Lifecycle!Report
<1> QED
  BY <1>10, <1>11, <1>13

LEMMA MarkFailedOne ==
    ASSUME Serial, SerialInv, Alive, NEW w \in Worker, WorkerCarries(w), MarkFailed(w)
    PROVE  OneStep' /\ ReportsAreTrue' /\ LifeStep
<1>1. OneStep /\ TypeInv /\ Present /\ TablesOK /\ StatusRead = draft.status /\ draft.status \in InProgress
  BY SoleCarrier, TablesTyped DEF SerialInv, TypeInv
<1>2. /\ workers[w] \in JobState /\ Unfinished(workers[w].slot) /\ WorkerFits(w)
      /\ workers[w].pc = "raised" /\ workers[w].stage \in Pipeline
  BY <1>1, CarrierSlot DEF MarkFailed, At, WorkerCarries, Doing
<1>3. draft.status \in StatusBefore(workers[w].stage)
  BY <1>2 DEF WorkerFits, At, Doing
<1>4. /\ workers'[w].pc = "aborted"
      /\ workers'[w].stage = workers[w].stage /\ workers'[w].slot = workers[w].slot
      /\ workers'[w].last = workers[w].last
      /\ \A v \in Worker : v # w => workers'[v] = workers[v]
  BY <1>1, <1>2, StepRecord DEF MarkFailed
<1>5. jobs' = jobs /\ requests' = requests /\ reports' = reports
  BY DEF MarkFailed
<1>6. CASE workers[w].last
  <2>1. SetStatus("failed", DraftStatus) /\ draft.status \in DraftStatus
    BY <1>1, <1>6 DEF MarkFailed, Serial, Present
  <2>2. /\ Latest' = Latest /\ Present' /\ draft'.status = "failed"
        /\ versions'[Latest] = [versions[Latest] EXCEPT !.status = "failed"]
    BY <1>1, <1>5, <2>1, SetStatusTables DEF DraftStatus
  <2>3. versions'[Latest].status = "failed"
    BY <1>1, <2>2, LatestRow DEF Row
  <2>4. MirrorAgrees' /\ StatusRead' = "failed" /\ DataFit'
    BY <2>2, <2>3 DEF MirrorAgrees, StatusRead, DataFit
  <2>5. ~WorkerCarries(w)' /\ \A s \in Slot : ~JobCarries(s)'
    BY <1>4, <1>5, <1>6, SoleCarrier DEF WorkerCarries, JobCarries, At
  <2>6. OneStep'
    BY <1>4, <1>5, <2>2, <2>4, <2>5, CarriedOn DEF InProgress
  <2>7. ReportsAreTrue'
    BY <1>5 DEF SerialInv, ReportsAreTrue, ReportIsOfItsVersion, ReportHasItsText
  <2>8. LifeStep
    BY <1>1, <1>5, <2>2, <2>4 DEF LifeStep, Lifecycle!Next, Lifecycle!Fail, Lifecycle!Stages, InProgress
  <2> QED
    BY <2>6, <2>7, <2>8
<1>7. CASE ~workers[w].last
  <2>1. UNCHANGED <<draft, versions>>
    BY <1>7 DEF MarkFailed
  <2>2. WorkerCarries(w)'
    BY <1>2, <1>4, <1>7 DEF WorkerCarries, Doing, At
  <2>3. WorkerFits(w)'
    BY <1>2, <1>3, <1>4, <1>5, <2>1 DEF WorkerFits, At, Doing, Unfinished
  <2> QED
    BY <1>4, <1>5, <2>1, <2>2, <2>3, StillCarried
<1> QED
  BY <1>6, <1>7

\* The handler hands the draft over to a job and keeps the rows as they are.
LEMMA HandedOver ==
    ASSUME SerialInv, Alive, NEW w \in Worker, WorkerCarries(w),
           requests' = requests, \A v \in Worker : v # w => workers'[v] = workers[v],
           UNCHANGED <<draft, versions, reports>>, ~WorkerCarries(w)',
           NEW s \in Slot, jobs'[s].state = "pending", jobs'[s].stage \in Pipeline,
           draft.status \in StatusBefore(jobs'[s].stage),
           \A r \in Slot : r # s => jobs'[r] = jobs[r]
    PROVE  OneStep' /\ ReportsAreTrue' /\ LifeStep
<1>1. OneStep /\ draft'.status \in InProgress /\ \A r \in Slot : ~JobCarries(r)
  BY SoleCarrier
<1>2. MirrorAgrees' /\ DataFit'
  BY <1>1 DEF OneStep, MirrorAgrees, StatusRead, Present, Latest, DataFit
<1>3. JobCarries(s)' /\ JobFits(s)' /\ \A r \in Slot : r # s => ~JobCarries(r)'
  BY <1>1 DEF JobCarries, JobFits
<1>4. OneStep'
  BY <1>1, <1>2, <1>3, CarriedOn
<1>5. ReportsAreTrue'
  BY DEF SerialInv, ReportsAreTrue, ReportIsOfItsVersion, ReportHasItsText
<1> QED
  BY <1>4, <1>5, Stutters

LEMMA EnqueueNextOne ==
    ASSUME SerialInv, Alive, NEW w \in Worker, WorkerCarries(w), EnqueueNext(w)
    PROVE  OneStep' /\ ReportsAreTrue' /\ LifeStep
<1>1. OneStep /\ TypeInv /\ jobs \in [Slot -> Job \cup {NoJob}]
  BY DEF SerialInv, TypeInv, TypeOK
<1>2. /\ workers[w] \in JobState /\ WorkerFits(w) /\ KnowsJob(workers[w])
      /\ workers[w].pc = "committed" /\ workers[w].stage \in {"parse", "extract"}
  BY <1>1, CarrierSlot DEF EnqueueNext, At, KnowsJob
<1> DEFINE stage == IF Doing(w, {"parse"}) THEN "extract" ELSE "analyze"
<1>3. Enqueue(stage, {}) /\ stage \in Stage /\ stage \in Pipeline
  BY DEF EnqueueNext, Stage, Pipeline
<1>4. draft.status \in StatusBefore(stage)
  BY <1>2 DEF WorkerFits, At, Doing, StatusAfter, StatusBefore
<1> HIDE DEF stage
<1>5. PICK s \in Slot :
          /\ jobs'[s].state = "pending" /\ jobs'[s].stage = stage
          /\ \A r \in Slot : r # s => jobs'[r] = jobs[r]
  BY <1>1, <1>3, EnqueuedSlot
<1>6. workers'[w].pc = "returned" /\ \A v \in Worker : v # w => workers'[v] = workers[v]
  BY <1>1, <1>2, StepRecord DEF EnqueueNext
<1>7. ~WorkerCarries(w)'
  BY <1>6 DEF WorkerCarries
<1>8. UNCHANGED <<draft, versions, reports, requests>>
  BY DEF EnqueueNext, tables
<1> QED
  BY <1>3, <1>4, <1>5, <1>6, <1>7, <1>8, HandedOver

\* An attempt that was not the last: the job waits for the next one.
LEMMA FinishOne ==
    ASSUME SerialInv, Alive, NEW w \in Worker, WorkerCarries(w), FinishJob(w)
    PROVE  OneStep' /\ ReportsAreTrue' /\ LifeStep
<1>1. /\ OneStep /\ TypeInv /\ SlotsAgree /\ jobs \in [Slot -> Job \cup {NoJob}]
      /\ workers \in [Worker -> WorkerState]
  BY DEF SerialInv, TypeInv, TypeOK
<1>2. /\ workers[w] \in JobState /\ WorkerFits(w) /\ workers[w].slot \in Slot /\ Unfinished(workers[w].slot)
      /\ workers[w].pc = "aborted" /\ workers[w].stage \in Pipeline /\ ~workers[w].last
  BY <1>1, CarrierSlot DEF FinishJob, At, WorkerCarries, Doing
<1> DEFINE s == workers[w].slot
<1>3. Holds(w, s)
  BY <1>2 DEF Holds
<1>4. jobs[s] \in Job /\ jobs[s].stage = workers[w].stage /\ jobs[s].attempts + 1 < MaxAttempts
  <2>1. jobs[s] \in Job /\ jobs[s] # NoJob
    BY <1>1, <1>2 DEF Unfinished, NoJob
  <2>2. jobs[s].stage = workers[w].stage /\ workers[w].last = (jobs[s].attempts + 1 >= MaxAttempts)
    BY <1>1, <1>2, <1>3, <2>1 DEF SlotsAgree
  <2>3. ~(jobs[s].attempts + 1 >= MaxAttempts)
    BY <1>2, <2>2
  <2>4. jobs[s].attempts \in Int
    BY <2>1, Constants DEF Job
  <2> QED
    BY <2>1, <2>2, <2>3, <2>4, Constants
<1>5. jobs' = Spent(s)
  BY <1>2 DEF FinishJob, At
<1>6. jobs'[s] = [jobs[s] EXCEPT !.state = "pending", !.attempts = @ + 1]
      /\ \A r \in Slot : r # s => jobs'[r] = jobs[r]
  BY <1>1, <1>2, <1>4, <1>5, SpentType
<1>7. jobs'[s].state = "pending" /\ jobs'[s].stage = workers[w].stage
  BY <1>4, <1>6 DEF Job
<1>8. draft.status \in StatusBefore(workers[w].stage)
  BY <1>2 DEF WorkerFits, At, Doing
<1>9. workers'[w] = Idle /\ \A v \in Worker : v # w => workers'[v] = workers[v]
  BY <1>1 DEF FinishJob, Rest
<1>10. ~WorkerCarries(w)'
  BY <1>9 DEF WorkerCarries, Idle
<1>11. UNCHANGED <<draft, versions, reports, requests>>
  BY DEF FinishJob, tables
<1> QED
  BY <1>2, <1>6, <1>7, <1>8, <1>9, <1>10, <1>11, HandedOver

\* The steps of the handler that carries the draft on.
LEMMA CarrierOne ==
    ASSUME Serial, SerialInv, Alive, NEW w \in Worker, WorkerCarries(w), WorkerStep(w)
    PROVE  OneStep' /\ ReportsAreTrue' /\ LifeStep
<1>1. OneStep /\ TypeInv /\ Present /\ TablesOK /\ draft.status \in InProgress
  BY SoleCarrier, TablesTyped DEF SerialInv, TypeInv
<1>2. WorkerFits(w) /\ KnowsJob(workers[w]) /\ workers[w].stage \in Pipeline
      /\ workers[w].pc \in {"claimed", "loaded", "working", "loading", "committed", "raised", "aborted"}
  BY <1>1, CarrierSlot DEF WorkerCarries, Doing
<1>3. ~LoadFails(w)
  <2>1. ASSUME At(w, "claimed"), Doing(w, {"extract"}), TextRead = 0
        PROVE  FALSE
    <3>1. draft.status = "extracting"
      BY <1>2, <2>1 DEF WorkerFits, At, Doing, StatusBefore
    <3>2. versions[Latest].text = Latest /\ Latest # 0
      BY <1>1, <3>1, LatestRow, Constants DEF OneStep, DataFit
    <3> QED
      BY <1>1, <2>1, <3>2 DEF TextRead
  <2> QED
    BY <1>1, <2>1 DEF LoadFails, Serial
<1>4. ~MarkFails(w) /\ ~Crash(w) /\ ~LoadReport(w) /\ ~Rendered(w) /\ ~ExportFails(w) /\ ~Cleanup(w)
      /\ ~FinalizeRead(w) /\ ~FinalizeWrite(w) /\ ~Take(w)
  BY <1>2 DEF Serial, MarkFails, Crash, LoadReport, Rendered, ExportFails, Cleanup, FinalizeRead,
     FinalizeWrite, Take, Claim, Reap, At, Doing, Pipeline
<1> QED
  BY <1>3, <1>4, LoadOne, MarkOne, WorkFailsOne, ParsedOne, ExtractedOne, EnqueueNextOne, AnalyzedOne,
     MarkFailedOne, FinishOne DEF WorkerStep, Progress

\* A worker that does not carry the draft on leaves its rows alone.
LEMMA BystanderRows ==
    ASSUME SerialInv, NEW w \in Worker, ~WorkerCarries(w), WorkerStep(w)
    PROVE  UNCHANGED <<draft, versions, reports>>
<1>1. TypeInv /\ NobodyIsLost
  BY DEF SerialInv
<1>2. ~Mark(w) /\ ~Analyzed(w) /\ ~MarkFailed(w)
  <2>1. workers[w].pc \in {"loaded", "loading", "raised"} => workers[w].stage \in Pipeline
    BY <1>1, AtWork DEF AtJob, KnowsJob
  <2> QED
    BY <2>1 DEF Mark, Analyzed, MarkFailed, WorkerCarries, At, Doing
<1>3. ~Parsed(w) /\ ~Extracted(w)
  BY DEF Parsed, Extracted, WorkerCarries, At, Doing, Pipeline
<1>4. ~FinalizeWrite(w)
  BY <1>1 DEF FinalizeWrite, NobodyIsLost
<1> QED
  BY <1>2, <1>3, <1>4 DEF WorkerStep, Progress, Take, Crash, Load, LoadFails,
     MarkFails, WorkFails, Raise, EnqueueNext, PutGraph, LoadReport, Rendered, ExportFails, Cleanup,
     FinishJob, FinalizeRead, Claim, Reap, tables

\* Nor does it take the draft up, but by claiming the job that carries it.
LEMMA BystanderRecord ==
    ASSUME Serial, SerialInv, NEW w \in Worker, ~WorkerCarries(w), WorkerStep(w),
           \A s \in Slot : ~Claim(w, s)
    PROVE  ~WorkerCarries(w)' /\ requests' = requests /\ (FinishJob(w) \/ jobs' = jobs)
<1>1. TypeInv /\ NobodyIsLost /\ workers \in [Worker -> WorkerState]
  BY DEF SerialInv, TypeInv, TypeOK
<1>2. workers[w].pc \in {"loaded", "working", "loading", "committed", "raised"} => workers[w].stage \in Pipeline
  BY <1>1, AtWork DEF AtJob, KnowsJob
<1>3. /\ workers[w].pc \notin {"loaded", "working", "loading", "committed", "raised"}
      /\ workers[w].pc = "claimed" => workers[w].stage \notin Pipeline
  BY <1>2 DEF WorkerCarries, At, Doing
<1>4. ~FinalizeWrite(w) /\ ~FinalizeRead(w) /\ ~Crash(w) /\ \A s \in Slot : ~Reap(w, s)
  BY <1>1 DEF FinalizeWrite, FinalizeRead, NobodyIsLost, Crash, Serial, At, Reap, Orphaned
<1>5. CASE FinishJob(w)
  <2>1. workers'[w] = Idle
    BY <1>1, <1>5 DEF FinishJob, Rest
  <2> QED
    BY <1>5, <2>1 DEF FinishJob, WorkerCarries, Idle
<1>6. ASSUME NEW pc \in {"rendering", "returned", "aborted"}, Step(w, pc),
             workers[w].pc \in AtJob, pc = "aborted" => workers[w].stage \notin Pipeline
      PROVE  ~WorkerCarries(w)'
  <2>1. workers'[w].pc = pc /\ workers'[w].stage = workers[w].stage
    BY <1>1, <1>6, AtWork, StepRecord
  <2> QED
    BY <1>6, <2>1 DEF WorkerCarries, Doing, At
<1>7. CASE LoadReport(w) \/ Rendered(w)
  BY <1>6, <1>7 DEF LoadReport, Rendered, At, AtJob
<1>8. CASE ExportFails(w)
  <2>1. workers[w].pc \in AtJob /\ workers[w].stage = "export"
    <3>1. workers[w].pc = "rendering" => workers[w].stage = "export"
      BY <1>1, AtWork DEF AtJob, KnowsJob
    <3> QED
      BY <1>8, <3>1 DEF ExportFails, At, AtJob, Doing
  <2> QED
    BY <1>6, <1>8, <2>1 DEF ExportFails, Raise, Pipeline
<1>9. CASE Cleanup(w)
  BY <1>6, <1>9 DEF Cleanup, At, AtJob, Doing, Pipeline
<1>10. ~Load(w) /\ ~LoadFails(w) /\ ~Mark(w) /\ ~MarkFails(w) /\ ~WorkFails(w) /\ ~Parsed(w) /\ ~Extracted(w)
       /\ ~EnqueueNext(w) /\ ~PutGraph(w) /\ ~Analyzed(w) /\ ~MarkFailed(w)
  BY <1>3 DEF Load, LoadFails, Mark, MarkFails, WorkFails, Parsed, Extracted, EnqueueNext, PutGraph, Analyzed,
     MarkFailed, At, Doing
<1> QED
  BY <1>4, <1>5, <1>7, <1>8, <1>9, <1>10 DEF WorkerStep, Progress, Take, LoadReport, Rendered, ExportFails,
     Raise, Cleanup

\* The job of a worker that does not carry the draft on does not either.
LEMMA BystanderJob ==
    ASSUME SerialInv, NEW w \in Worker, ~WorkerCarries(w), FinishJob(w)
    PROVE  \A s \in Slot :
              /\ JobCarries(s)' <=> JobCarries(s)
              /\ JobCarries(s) => jobs'[s].stage = jobs[s].stage
              /\ \A v \in Worker : v # w /\ Holds(v, s) /\ Unfinished(s) => Unfinished(s)'
<1>1. TypeInv /\ SlotsAgree /\ jobs \in [Slot -> Job \cup {NoJob}]
  BY DEF SerialInv, TypeInv, TypeOK
<1>0. PICK s : s = workers[w].slot
  OBVIOUS
<1>2. /\ workers[w].pc \in {"returned", "aborted"} /\ s \in Slot /\ Holds(w, s)
      /\ workers[w] \in JobState
  BY <1>0, <1>1, AtWork DEF FinishJob, At, AtJob, JobState, Holds
<1>3. \/ jobs[s] = NoJob
      \/ /\ jobs[s].state = "held" /\ jobs[s].stage = workers[w].stage
         /\ workers[w].last = (jobs[s].attempts + 1 >= MaxAttempts)
  BY <1>1, <1>2 DEF SlotsAgree
<1>4. ~JobCarries(s)
  BY <1>3 DEF JobCarries, NoJob
<1>5. ~JobCarries(s)'
  <2>1. CASE ~Unfinished(s)
    BY <1>0, <1>4, <2>1 DEF FinishJob, JobCarries
  <2>2. CASE Unfinished(s) /\ At(w, "returned")
    BY <1>0, <1>1, <1>2, <2>2 DEF FinishJob, JobCarries, NoJob
  <2>3. CASE Unfinished(s) /\ ~At(w, "returned")
    <3>1. jobs' = Spent(s) /\ jobs[s] \in Job /\ workers[w].pc = "aborted"
      BY <1>0, <1>1, <1>2, <2>3 DEF FinishJob, Unfinished, NoJob, At
    <3>2. jobs[s].stage = workers[w].stage /\ workers[w].last = (jobs[s].attempts + 1 >= MaxAttempts)
      BY <1>3, <2>3 DEF Unfinished, NoJob
    <3>3. ~(jobs[s].attempts + 1 < MaxAttempts) => jobs'[s] = NoJob \/ jobs'[s].state = "failed"
      BY <1>1, <1>2, <2>3, <3>1, SpentType
    <3>4. ~(jobs[s].attempts + 1 < MaxAttempts) => jobs'[s].state # "pending"
      BY <3>3 DEF NoJob
    <3>5. CASE jobs[s].stage \notin Pipeline
      <4>1. jobs[s].attempts + 1 < MaxAttempts => jobs'[s].stage \notin Pipeline
        BY <1>1, <1>2, <2>3, <3>1, <3>5, SpentType DEF Job
      <4> QED
        BY <3>4, <4>1 DEF JobCarries
    <3>6. CASE workers[w].last
      <4>1. jobs[s].attempts + 1 >= MaxAttempts
        BY <3>2, <3>6
      <4>2. ~(jobs[s].attempts + 1 < MaxAttempts)
        BY <3>1, <4>1, Constants DEF Job
      <4> QED
        BY <3>4, <4>2 DEF JobCarries
    <3>7. jobs[s].stage \notin Pipeline \/ workers[w].last
      BY <3>1, <3>2 DEF WorkerCarries, Doing, At
    <3> QED
      BY <3>5, <3>6, <3>7
  <2> QED
    BY <2>1, <2>2, <2>3
<1>6. \A r \in Slot : r # s => jobs'[r] = jobs[r]
  BY <1>0, <1>1, <1>2, SpentType DEF FinishJob
<1>7. \A v \in Worker : v # w => ~Holds(v, s)
  BY <1>1, <1>2 DEF SlotsAgree
<1> QED
  BY <1>4, <1>5, <1>6, <1>7 DEF JobCarries, Unfinished

LEMMA ClaimOne ==
    ASSUME SerialInv, Alive, NEW w \in Worker, NEW s \in Slot, Claim(w, s)
    PROVE  OneStep' /\ ReportsAreTrue' /\ LifeStep
<1>1. /\ TypeInv /\ OneStep /\ jobs \in [Slot -> Job \cup {NoJob}] /\ workers \in [Worker -> WorkerState]
  BY DEF SerialInv, TypeInv, TypeOK
<1>2. /\ workers'[w].pc = "claimed" /\ workers'[w].slot = s /\ workers'[w].stage = jobs[s].stage
      /\ \A v \in Worker : v # w => workers'[v] = workers[v]
  BY <1>1 DEF Claim
<1>3. /\ jobs[s] \in Job /\ jobs[s].state = "pending"
      /\ jobs' = [jobs EXCEPT ![s] = [jobs[s] EXCEPT !.state = "held"]]
  BY <1>1 DEF Claim, NoJob
<1>4. jobs'[s].state = "held" /\ \A r \in Slot : r # s => jobs'[r] = jobs[r]
  BY <1>1, <1>3 DEF Job
<1>5. UNCHANGED <<draft, versions, reports>> /\ requests' = requests /\ ~WorkerCarries(w)
  BY DEF Claim, tables, WorkerCarries, At
<1>6. /\ ~JobCarries(s)' /\ \A r \in Slot : r # s => (JobCarries(r)' <=> JobCarries(r)) /\ jobs'[r].stage = jobs[r].stage
  BY <1>4 DEF JobCarries
<1>7. \A v \in Worker : v # w => (WorkerCarries(v)' <=> WorkerCarries(v))
  BY <1>2 DEF WorkerCarries, Doing, At
<1>8. \A t \in Tab : TabCarries(t)' <=> TabCarries(t)
  BY <1>5 DEF TabCarries
<1>9. StartersKnow'
  BY <1>1, <1>5 DEF OneStep, StartersKnow
<1>10. CASE JobCarries(s)
  <2>1. /\ WorkerCarries(w)' /\ \A t \in Tab : ~TabCarries(t)'
        /\ \A r \in Slot : ~JobCarries(r)' /\ \A v \in Worker : v # w => ~WorkerCarries(v)'
    BY <1>1, <1>2, <1>6, <1>7, <1>8, <1>10 DEF OneStep, OneCarrier, WorkerCarries, JobCarries, Doing, At
  <2>2. OneCarrier' /\ Carried'
    BY <2>1 DEF OneCarrier, Carried
  <2>3. draft.status \in StatusBefore(jobs[s].stage) /\ draft.status \in InProgress
    BY <1>1, <1>10 DEF OneStep, CarriersFit, JobFits, Carried
  <2>4. WorkerFits(w)'
    BY <1>2, <1>4, <1>5, <2>3 DEF WorkerFits, At, Unfinished
  <2>5. CarriersFit' /\ MirrorAgrees' /\ DataFit'
    BY <1>1, <1>5, <2>1, <2>4 DEF OneStep, CarriersFit, MirrorAgrees, StatusRead, Present, Latest, DataFit
  <2>6. OneStep'
    BY <1>5, <1>9, <2>2, <2>3, <2>5 DEF OneStep
  <2> QED
    BY <1>5, <2>6, Stutters DEF SerialInv, ReportsAreTrue, ReportIsOfItsVersion, ReportHasItsText
<1>11. CASE ~JobCarries(s)
  <2>1. ~WorkerCarries(w)'
    BY <1>2, <1>3, <1>11 DEF WorkerCarries, JobCarries, Doing
  <2>2. \A v \in Worker : WorkerCarries(v)' =>
            WorkerCarries(v) /\ workers'[v] = workers[v] /\ Unfinished(workers[v].slot)'
    <3>1. ASSUME NEW v \in Worker, v # w, WorkerCarries(v)
          PROVE  workers'[v] = workers[v] /\ Unfinished(workers[v].slot)'
      <4>1. workers[v].slot \in Slot /\ Unfinished(workers[v].slot)
        BY <1>1, <3>1, CarrierSlot
      <4> QED
        BY <1>2, <1>4, <3>1, <4>1 DEF Unfinished
    <3> QED
      BY <1>7, <2>1, <3>1
  <2>3. Carried => Carried'
    BY <1>5, <1>6, <1>7, <1>8, <1>11 DEF Carried
  <2> QED
    BY <1>5, <1>6, <1>8, <1>9, <1>11, <2>2, <2>3, NothingCarried DEF Alive
<1> QED
  BY <1>10, <1>11

LEMMA WorkerOne ==
    ASSUME Serial, SerialInv, NEW w \in Worker, WorkerStep(w)
    PROVE  (Alive => OneStep)' /\ ReportsAreTrue' /\ LifeStep
<1>1. TypeInv /\ SlotsAgree /\ \A v \in Worker : v # w => workers'[v] = workers[v]
  BY WorkerRecord DEF SerialInv
<1>2. CASE ~Alive
  <2>1. UNCHANGED <<draft, versions, reports>>
    BY <1>1, <1>2, AbsentStep DEF Alive, Present, DraftStatus, InProgress
  <2> QED
    BY <1>2, <2>1, Stutters DEF Alive, SerialInv, ReportsAreTrue, ReportIsOfItsVersion, ReportHasItsText
<1>3. CASE Alive /\ WorkerCarries(w)
  BY <1>3, CarrierOne
<1>4. CASE Alive /\ \E s \in Slot : Claim(w, s)
  BY <1>4, ClaimOne
<1>5. CASE Alive /\ ~WorkerCarries(w) /\ \A s \in Slot : ~Claim(w, s)
  <2>1. UNCHANGED <<draft, versions, reports>> /\ OneStep
    BY <1>5, BystanderRows DEF SerialInv
  <2>2. ~WorkerCarries(w)' /\ requests' = requests /\ (FinishJob(w) \/ jobs' = jobs)
    BY <1>5, BystanderRecord
  <2>3. \A s \in Slot :
           /\ JobCarries(s)' <=> JobCarries(s)
           /\ JobCarries(s) => jobs'[s].stage = jobs[s].stage
           /\ \A v \in Worker : v # w /\ Holds(v, s) /\ Unfinished(s) => Unfinished(s)'
    <3>1. CASE FinishJob(w)
      BY <1>5, <3>1, BystanderJob
    <3>2. CASE jobs' = jobs
      BY <3>2 DEF JobCarries, Unfinished
    <3> QED
      BY <2>2, <3>1, <3>2
  <2>4. \A v \in Worker : v # w => (WorkerCarries(v)' <=> WorkerCarries(v))
    BY <1>1 DEF WorkerCarries, Doing, At
  <2>5. \A v \in Worker : WorkerCarries(v)' =>
            WorkerCarries(v) /\ workers'[v] = workers[v] /\ Unfinished(workers[v].slot)'
    <3>1. ASSUME NEW v \in Worker, v # w, WorkerCarries(v)
          PROVE  workers'[v] = workers[v] /\ Unfinished(workers[v].slot)'
      <4>1. workers[v].slot \in Slot /\ Unfinished(workers[v].slot) /\ Holds(v, workers[v].slot)
        BY <1>1, <2>1, <3>1, CarrierSlot DEF WorkerCarries, Holds
      <4> DEFINE r == workers[v].slot
      <4>2. jobs'[r].state \in {"pending", "held"}
        BY <2>3, <3>1, <4>1 DEF Unfinished
      <4> QED
        BY <1>1, <3>1, <4>2 DEF Unfinished
    <3> QED
      BY <2>2, <2>4, <3>1
  <2>6. \A t \in Tab : TabCarries(t)' <=> TabCarries(t)
    BY <2>2 DEF TabCarries
  <2>7. Carried => Carried'
    BY <1>5, <2>3, <2>4, <2>6 DEF Carried
  <2>8. StartersKnow'
    BY <2>1, <2>2 DEF OneStep, StartersKnow
  <2> QED
    BY <2>1, <2>3, <2>5, <2>6, <2>7, <2>8, NothingCarried DEF Alive
<1> QED
  BY <1>2, <1>3, <1>4, <1>5

-----------------------------------------------------------------------------
(* One request at a time: the theorems *)

LEMMA DeletesStep ==
    ASSUME TypeInv, DeletesKnow, [Next]_vars
    PROVE  DeletesKnow'
<1>1. TablesOK /\ (Present => versions[Latest] \in Row)
  BY TablesTyped, LatestRow DEF TypeInv
<1>2. ASSUME NEW t \in Tab, RequestStep(t)
      PROVE  DeletesKnow'
  <2>1. \A u \in Tab : u # t => requests'[u] = requests[u]
    BY <1>2, RequestRecord
  <2>2. requests[t] \in RequestState /\ requests \in [Tab -> RequestState]
    BY DEF TypeInv, TypeOK
  <2>3. \/ draft'.status = draft.status /\ reports' = reports
        \/ draft'.status = "deleted" /\ reports' = {}
        \/ draft'.status \in {"uploaded", "analyzing"}
    BY <1>1, <1>2 DEF RequestStep, Check, Upload, Retry, Reanalyze, Restart, SetStatus, ReportReanalyze, Export,
       Download, Collect, Delete, EnqueueFirst, EnqueueLost, Refused, tables, TablesOK, DraftRow
  <2>4. Open(t)' /\ requests'[t].op = "delete" => draft.status # "none"
    <3>1. ASSUME NEW op \in Op, Check(t, op), requests'[t].op = "delete"
          PROVE  draft.status # "none"
      <4>1. op = "delete"
        BY <2>2, <3>1 DEF Check
      <4>2. StatusRead \in DraftStatus
        BY <3>1, <4>1 DEF Check, StartsFrom
      <4> QED
        BY <4>2 DEF StatusRead, Present, DraftStatus, InProgress
    <3>2. CASE Collect(t)
      <4>1. Open(t) /\ requests[t].op = "delete"
        BY <3>2 DEF Collect, Committing, Open
      <4> QED
        BY <4>1 DEF DeletesKnow
    <3>3. ASSUME NEW pc \in {"idle", "committed"}, Then(t, pc), requests[t].pc # "idle"
          PROVE  ~Open(t)'
      <4>1. requests'[t] = IF pc = "idle" THEN Idle ELSE [requests[t] EXCEPT !.pc = pc]
        BY <2>2, <3>3 DEF Then
      <4>2. requests'[t].pc = pc
        BY <2>2, <3>3, <4>1 DEF RequestState, Idle
      <4> QED
        BY <3>3, <4>2 DEF Open
    <3>4. CASE ~Collect(t) /\ \A op \in Op : ~Check(t, op)
      <4>1. (Then(t, "idle") \/ Then(t, "committed")) /\ requests[t].pc # "idle"
        BY <1>2, <3>4 DEF RequestStep, Upload, Retry, Reanalyze, Restart, ReportReanalyze, Export,
           Download, Delete, EnqueueFirst, EnqueueLost, Refused, Committing
      <4> QED
        BY <3>3, <4>1
    <3> QED
      BY <3>1, <3>2, <3>4
  <2> QED
    BY <2>1, <2>3, <2>4 DEF DeletesKnow, Open
<1>3. ASSUME NEW w \in Worker, WorkerStep(w)
      PROVE  DeletesKnow'
  <2>1. requests' = requests
    BY <1>3 DEF WorkerStep, Progress, Take, Crash, Load, LoadFails, Mark, MarkFails,
     WorkFails, Raise, Parsed, Extracted, EnqueueNext, PutGraph, Analyzed, LoadReport, Rendered, ExportFails,
     Cleanup, MarkFailed, FinishJob, FinalizeRead, FinalizeWrite, Claim, Reap
  <2>2. CASE Present
    <3>1. draft'.status \in DraftStatus
      BY <1>3, <2>2, WorkerTables DEF Present
    <3> QED
      BY <2>1, <3>1 DEF DeletesKnow, DraftStatus, InProgress
  <2>3. CASE ~Present
    <3>1. UNCHANGED <<draft, versions, reports>>
      BY <1>3, <2>3, AbsentStep
    <3> QED
      BY <2>1, <3>1 DEF DeletesKnow, Open
  <2> QED
    BY <2>2, <2>3
<1>4. CASE UNCHANGED vars
  BY <1>4 DEF vars, DeletesKnow, Open
<1> QED
  BY <1>2, <1>3, <1>4 DEF Next, Request, RequestStep, WorkerStep

LEMMA SerialInit == Init => SerialInv
<1> SUFFICES ASSUME Init PROVE SerialInv
  OBVIOUS
<1>1. \A t \in Tab : requests[t] = Idle
  BY DEF Init
<1>2. \A w \in Worker : workers[w] = Idle
  BY DEF Init
<1>3. \A s \in Slot : jobs[s] = NoJob
  BY DEF Init
<1>4. OneIsOpen /\ StartersKnow /\ SlotsAgree /\ NobodyIsLost /\ DeletesKnow
  BY <1>1, <1>2, <1>3 DEF Init, OneIsOpen, Open, StartersKnow, SlotsAgree, Holds, NobodyIsLost, At, Idle,
     NoJob, DeletesKnow
<1>5. /\ \A t \in Tab : ~TabCarries(t)
      /\ \A s \in Slot : ~JobCarries(s)
      /\ \A w \in Worker : ~WorkerCarries(w)
  BY <1>1, <1>2, <1>3 DEF TabCarries, JobCarries, WorkerCarries, Idle, NoJob
<1>6. OneCarrier /\ CarriersFit /\ ~Carried
  BY <1>5 DEF OneCarrier, CarriersFit, Carried
<1>7. draft.status = "none" /\ reports = {}
  BY DEF Init
<1>8. MirrorAgrees /\ DataFit /\ ReportsAreTrue /\ draft.status \notin InProgress
  BY <1>7 DEF MirrorAgrees, Present, DataFit, ReportsAreTrue, ReportIsOfItsVersion, ReportHasItsText,
     DraftStatus, InProgress
<1> QED
  BY <1>4, <1>6, <1>8, InitType DEF SerialInv, OneStep

LEMMA SerialStep ==
    ASSUME Serial, SerialInv, [Next]_vars
    PROVE  SerialInv' /\ LifeStep
<1>1. TypeInv /\ OneIsOpen /\ SlotsAgree /\ NobodyIsLost /\ DeletesKnow
  BY DEF SerialInv
<1>2. TypeInv' /\ OneIsOpen' /\ SlotsAgree' /\ NobodyIsLost' /\ DeletesKnow'
  BY <1>1, TypeStep, OneOpenStep, SlotsStep, NobodyStep, DeletesStep DEF Serial
<1>3. (Alive => OneStep)' /\ ReportsAreTrue' /\ LifeStep
  <2>1. CASE UNCHANGED vars
    <3>1. /\ \A t \in Tab : TabCarries(t)' <=> TabCarries(t)
          /\ \A s \in Slot : JobCarries(s)' <=> JobCarries(s)
          /\ \A w \in Worker : WorkerCarries(w)' <=> WorkerCarries(w)
      BY <2>1 DEF vars, TabCarries, JobCarries, WorkerCarries, At, Doing
    <3>2. Carried => Carried'
      BY <3>1 DEF Carried
    <3>3. Alive => StartersKnow'
      BY <2>1 DEF SerialInv, OneStep, StartersKnow, vars
    <3>4. Alive => \A w \in Worker : WorkerCarries(w) => Unfinished(workers[w].slot)'
      BY <1>1, <2>1, CarrierSlot DEF SerialInv, vars, Unfinished
    <3>5. CASE Alive
      BY <2>1, <3>1, <3>2, <3>3, <3>4, <3>5, NothingCarried DEF vars
    <3>6. CASE ~Alive
      BY <2>1, <3>6, Stutters DEF vars, Alive, SerialInv, ReportsAreTrue, ReportIsOfItsVersion, ReportHasItsText
    <3> QED
      BY <3>5, <3>6
  <2> QED
    BY <2>1, RequestOne, WorkerOne DEF Next, Request, RequestStep, WorkerStep
<1> QED
  BY <1>2, <1>3 DEF SerialInv

\* A draft that is in progress is in somebody's hands, when one request at a time
\* reads and writes and none dies before its enqueue: the token is handed on.
THEOREM NobodyStrands ==
    ASSUME Serial, "enq" \notin Env
    PROVE  Spec => []NeverStranded
<1>1. SerialInv => NeverStranded
  <2> SUFFICES ASSUME SerialInv, Stranded PROVE FALSE
    BY DEF NeverStranded
  <2>1. Alive /\ draft.status \in InProgress
    BY DEF Stranded, Alive, Present, DraftStatus, InProgress, SerialInv, OneStep, MirrorAgrees
  <2>2. Carried
    BY <2>1 DEF SerialInv, OneStep
  <2>3. \A t \in Tab : ~TabCarries(t)
    BY DEF Stranded, TabCarries
  <2>4. \A s \in Slot : ~JobCarries(s)
    BY DEF Stranded, JobCarries, Unfinished
  <2>5. \A w \in Worker : ~WorkerCarries(w)
    BY DEF Stranded, WorkerCarries, At
  <2> QED
    BY <2>2, <2>3, <2>4, <2>5 DEF Carried
<1> QED
  BY <1>1, SerialInit, SerialStep, PTL DEF Spec

\* Every report is of the version it is bound to, and of the text of its file.
THEOREM ReportsStayTrue ==
    ASSUME Serial
    PROVE  Spec => []ReportsAreTrue
<1>1. SerialInv => ReportsAreTrue
  BY DEF SerialInv
<1> QED
  BY <1>1, SerialInit, SerialStep, PTL DEF Spec

\* The draft as its page shows it implements the documented machine.
THEOREM Refinement ==
    ASSUME Serial
    PROVE  Spec => ImplementsLifecycle
<1>1. Init => Lifecycle!Init
  <2>1. Init => Latest = 0
    BY EmptySeq DEF Init, Latest
  <2> QED
    BY <2>1 DEF Init, Lifecycle!Init, StatusRead, Present, DraftStatus, InProgress
<1>2. SerialInv /\ [Next]_vars => SerialInv' /\ [Lifecycle!Next]_(Lifecycle!vars)
  BY SerialStep DEF LifeStep
<1> QED
  BY <1>1, <1>2, SerialInit, PTL DEF Spec, ImplementsLifecycle, Lifecycle!Spec

-----------------------------------------------------------------------------
(* The rows, when requests are not disturbed or come one at a time *)

\* Whatever fails, and however many workers there are: when nothing happens
\* between what a request reads and what it writes, a version is superseded only
\* when it is ready, and no late job writes an older one.  The same holds while
\* jobs run in between, if there is one request at a time and no attempt is lost.
THEOREM OlderVersionsStayReady ==
    ASSUME "race" \notin Env \/ Serial
    PROVE  Spec => []OlderVersionsAreReady
<1>1. Init => OlderVersionsAreReady
  <2>1. Init => Latest = 0
    BY EmptySeq DEF Init, Latest
  <2> QED
    BY <2>1 DEF OlderVersionsAreReady
<1>2. CASE "race" \notin Env
  BY <1>1, <1>2, InitType, ChecksInit, TypeStep, ChecksStep, ChecksGiveUploads, OlderStep, PTL DEF Spec
<1>3. CASE Serial
  <2>1. SerialInv => TypeInv /\ UploadsKnow
    <3> SUFFICES ASSUME SerialInv, NEW t \in Tab, Committing(t, "upload"), Alive
                 PROVE  StatusRead \in {"none", "ready"}
      BY DEF UploadsKnow, SerialInv, Alive
    <3>1. draft.status = requests[t].seen /\ draft.status \in {"none", "ready"}
      BY DEF SerialInv, OneStep, StartersKnow, TypeInv, RequestsKnow, Knows, StartsFrom, Committing, Idle
    <3> QED
      BY <3>1 DEF SerialInv, OneStep, MirrorAgrees, StatusRead
  <2> QED
    BY <1>1, <1>3, <2>1, SerialInit, SerialStep, OlderStep, PTL DEF Spec
<1> QED
  BY <1>2, <1>3

\* The status is the same in both places, when nothing happens between what a
\* request reads and what it writes, and when nothing happens between the two
\* halves of a finalisation either: because there is one worker, or because none
\* of them is ever lost.  One request at a time does for the former.
THEOREM CopiesAgree ==
    ASSUME \/ "race" \notin Env /\ ("crash" \notin Env \/ \A v, w \in Worker : v = w)
           \/ Serial
    PROVE  Spec => []MirrorAgrees
<1>1. Init => MirrorAgrees /\ FinalizersKnow /\ NobodyIsLost
  BY DEF Init, MirrorAgrees, Present, DraftStatus, InProgress, FinalizersKnow, NobodyIsLost, At, Idle, NoJob
<1>2. CASE "race" \notin Env /\ "crash" \notin Env
  <2>1. NobodyIsLost => FinalizersKnow
    BY DEF NobodyIsLost, FinalizersKnow
  <2> QED
    BY <1>1, <1>2, <2>1, InitType, ChecksInit, TypeStep, ChecksStep, MirrorStep, NobodyStep, PTL DEF Spec
<1>3. CASE "race" \notin Env /\ \A v, w \in Worker : v = w
  BY <1>1, <1>3, InitType, ChecksInit, TypeStep, ChecksStep, MirrorStep, FinalizersStep, PTL DEF Spec
<1>4. CASE Serial
  <2>1. SerialInv => MirrorAgrees
    BY DEF SerialInv, OneStep, MirrorAgrees, Alive, Present, DraftStatus, InProgress
  <2> QED
    BY <1>4, <2>1, SerialInit, SerialStep, PTL DEF Spec
<1> QED
  BY <1>2, <1>3, <1>4

-----------------------------------------------------------------------------
(* What a draft leaves behind *)

\* One request at a time reads and writes, and none dies before its enqueue.
Orderly ==
    /\ "race" \in Env => \A t, u \in Tab : t = u
    /\ "enq" \notin Env

\* While there is a draft, what it has on disk and in Fuseki is of its versions,
\* a delete has collected them all, and nothing is cleaned up.
Kept ==
    /\ files \subseteq 1 .. Latest /\ graphs \subseteq 1 .. Latest
    /\ \A w \in Worker : Busy(w) => workers[w].ver \in 0 .. Latest /\ workers[w].stage # "cleanup"
    /\ \A s \in Slot : jobs[s] # NoJob => jobs[s].stage # "cleanup"
    /\ \A t \in Tab : requests[t].pc = "committed" => requests[t].op # "delete"
    /\ \A t \in Tab : requests[t].pc = "collected" => requests[t].paths = 1 .. Latest

\* A handler that can still write a graph or a rendering of a draft that is gone.
Writes(w) == workers[w].pc \in {"loaded", "working", "rendering"}
Clean == files = {} /\ graphs = {} /\ ~exported

\* Afterwards somebody has the list of what is left to delete, or all is.
Custody(paths) ==
    /\ files \subseteq paths /\ graphs \subseteq paths
    /\ \A w \in Worker : workers[w].pc \in {"loaded", "working"} => workers[w].ver \in paths
    /\ \A t \in Tab : requests[t].pc = "committed" /\ requests[t].op = "delete" => requests[t].paths = paths
    /\ \A s \in Slot : jobs[s] # NoJob /\ jobs[s].stage = "cleanup" => jobs[s].paths = paths
    /\ \A w \in Worker : Busy(w) /\ workers[w].stage = "cleanup" => workers[w].paths = paths
    /\ \/ \E t \in Tab : requests[t].pc = "committed" /\ requests[t].op = "delete"
       \/ \E s \in Slot : jobs[s] # NoJob /\ jobs[s].stage = "cleanup"
       \/ Clean /\ \A w \in Worker : ~Writes(w)
Left ==
    /\ \A t \in Tab : ~Open(t)
    /\ \E paths \in SUBSET Version : Custody(paths)
    /\ \A w \in Worker : At(w, "returned") /\ Doing(w, {"cleanup"}) => Clean

LeftInv ==
    /\ TypeInv /\ OneIsOpen /\ SlotsAgree
    /\ IF Alive THEN Kept ELSE Left

\* A spent cleanup stays in the queue, with its list; a spent job of another kind
\* does not become one.
LEMMA SpentRows ==
    ASSUME jobs \in [Slot -> Job \cup {NoJob}], NEW s \in Slot, Unfinished(s)
    PROVE  /\ \A r \in Slot : r # s => Spent(s)[r] = jobs[r]
           /\ \/ Spent(s)[s] = NoJob /\ jobs[s].stage # "cleanup"
              \/ /\ Spent(s)[s] # NoJob
                 /\ Spent(s)[s].stage = jobs[s].stage /\ Spent(s)[s].paths = jobs[s].paths
<1>1. jobs[s] \in Job /\ "stage" \in DOMAIN jobs[s]
  BY DEF Unfinished, NoJob, Job
<1>2. \A r \in Slot : r # s => Spent(s)[r] = jobs[r]
  BY SpentType
<1>3. CASE jobs[s].attempts + 1 < MaxAttempts
  <2> DEFINE k == [jobs[s] EXCEPT !.state = "pending", !.attempts = @ + 1]
  <2>1. Spent(s)[s] = k
    BY <1>3, SpentType
  <2>2. k.state = "pending" /\ k.stage = jobs[s].stage /\ k.paths = jobs[s].paths
    BY <1>1 DEF Job
  <2> HIDE DEF k
  <2>3. k # NoJob
    BY <2>2 DEF NoJob
  <2> QED
    BY <1>2, <2>1, <2>2, <2>3
<1>4. CASE ~(jobs[s].attempts + 1 < MaxAttempts) /\ jobs[s].stage = "cleanup"
  <2>1. Spent(s) = [jobs EXCEPT ![s] = [jobs[s] EXCEPT !.state = "failed"]]
    BY <1>4 DEF Spent
  <2>2. Spent(s)[s] = [jobs[s] EXCEPT !.state = "failed"]
    BY <2>1
  <2>3. [jobs[s] EXCEPT !.state = "failed"].state = "failed"
        /\ [jobs[s] EXCEPT !.state = "failed"].stage = jobs[s].stage
        /\ [jobs[s] EXCEPT !.state = "failed"].paths = jobs[s].paths
    BY <1>1 DEF Job
  <2> QED
    BY <1>2, <2>2, <2>3 DEF NoJob
<1>5. CASE ~(jobs[s].attempts + 1 < MaxAttempts) /\ jobs[s].stage # "cleanup"
  BY <1>2, <1>5, SpentType
<1> QED
  BY <1>3, <1>4, <1>5

\* Workers enqueue no cleanup, and take away only one that has succeeded.
LEMMA CleanupRows ==
    ASSUME TypeInv, SlotsAgree, NEW w \in Worker, WorkerStep(w), NEW s \in Slot
    PROVE  \/ jobs'[s] = NoJob
              /\ \/ jobs[s] = NoJob \/ jobs[s].stage # "cleanup"
                 \/ FinishJob(w) /\ At(w, "returned") /\ Doing(w, {"cleanup"})
           \/ /\ jobs[s] # NoJob /\ jobs'[s] # NoJob
              /\ jobs'[s].stage = jobs[s].stage /\ jobs'[s].paths = jobs[s].paths
           \/ jobs[s] = NoJob /\ jobs'[s] # NoJob /\ jobs'[s].stage # "cleanup"
<1>1. jobs \in [Slot -> Job \cup {NoJob}]
  BY DEF TypeInv, TypeOK
<1>2. CASE jobs'[s] = jobs[s]
  BY <1>2
<1>3. CASE EnqueueNext(w)
  <2>1. PICK stage \in {"extract", "analyze"} : Enqueue(stage, {})
    BY <1>3 DEF EnqueueNext
  <2>2. PICK r \in Slot : /\ jobs[r] = NoJob /\ jobs'[r].state = "pending" /\ jobs'[r].stage = stage
                          /\ \A q \in Slot : q # r => jobs'[q] = jobs[q]
    BY <1>1, <2>1, EnqueuedSlot DEF Stage, Pipeline
  <2> QED
    BY <1>2, <2>2 DEF NoJob
<1>4. ASSUME NEW r \in Slot, Claim(w, r)
      PROVE  jobs[r] # NoJob /\ jobs'[r] # NoJob /\ jobs'[r].stage = jobs[r].stage
             /\ jobs'[r].paths = jobs[r].paths /\ \A q \in Slot : q # r => jobs'[q] = jobs[q]
  <2>1. /\ jobs[r] \in Job /\ jobs[r] # NoJob
        /\ jobs' = [jobs EXCEPT ![r] = [jobs[r] EXCEPT !.state = "held"]]
    BY <1>1, <1>4 DEF Claim, NoJob
  <2>2. jobs'[r].state = "held" /\ jobs'[r].stage = jobs[r].stage /\ jobs'[r].paths = jobs[r].paths
    BY <1>1, <2>1 DEF Job
  <2> QED
    BY <1>1, <2>1, <2>2 DEF NoJob
<1>5. ASSUME NEW r \in Slot, Reap(w, r)
      PROVE  /\ \A q \in Slot : q # r => jobs'[q] = jobs[q]
             /\ \/ jobs'[r] = NoJob /\ jobs[r].stage # "cleanup"
                \/ /\ jobs[r] # NoJob /\ jobs'[r] # NoJob
                   /\ jobs'[r].stage = jobs[r].stage /\ jobs'[r].paths = jobs[r].paths
  <2>1. Unfinished(r) /\ jobs[r] # NoJob /\ jobs' = Spent(r)
    BY <1>5 DEF Reap, Orphaned, Unfinished, NoJob
  <2> QED
    BY <1>1, <2>1, SpentRows
<1>6. CASE FinishJob(w)
  <2>1. workers[w] \in JobState /\ Holds(w, workers[w].slot)
    BY <1>6, AtWork DEF FinishJob, At, AtJob, Holds
  <2>2. PICK r \in Slot : r = workers[w].slot
    BY <2>1 DEF JobState
  <2>3. jobs[r] = NoJob \/ jobs[r].stage = workers[w].stage
    BY <2>1, <2>2 DEF SlotsAgree
  <2>4. CASE ~Unfinished(r)
    BY <1>2, <1>6, <2>2, <2>4 DEF FinishJob
  <2>5. CASE Unfinished(r) /\ At(w, "returned")
    <3>1. jobs' = [jobs EXCEPT ![r] = NoJob]
      BY <1>6, <2>2, <2>5 DEF FinishJob
    <3>2. jobs'[r] = NoJob /\ \A q \in Slot : q # r => jobs'[q] = jobs[q]
      BY <1>1, <3>1
    <3> QED
      BY <1>2, <1>6, <2>3, <2>5, <3>2 DEF Doing
  <2>6. CASE Unfinished(r) /\ ~At(w, "returned")
    <3>1. jobs' = Spent(r) /\ jobs[r] # NoJob
      BY <1>6, <2>2, <2>6 DEF FinishJob, Unfinished, NoJob
    <3> QED
      BY <1>1, <1>2, <2>6, <3>1, SpentRows
  <2> QED
    BY <2>4, <2>5, <2>6
<1>7. CASE ~EnqueueNext(w) /\ ~FinishJob(w) /\ ~Take(w)
  BY <1>2, <1>7 DEF WorkerStep, Progress, Crash, Load, LoadFails, Mark, MarkFails,
     WorkFails, Raise, Parsed, Extracted, PutGraph, Analyzed, LoadReport, Rendered, ExportFails, Cleanup,
     MarkFailed, FinalizeRead, FinalizeWrite
<1> QED
  BY <1>2, <1>3, <1>4, <1>5, <1>6, <1>7 DEF Take

\* While there is a draft, the requests but Delete.
LEMMA KeptRequest ==
    ASSUME TypeInv, OneIsOpen, Kept, NEW t \in Tab, RequestStep(t), ~Delete(t)
    PROVE  Kept'
<1>1. /\ jobs \in [Slot -> Job \cup {NoJob}] /\ requests \in [Tab -> RequestState]
      /\ Latest \in Nat /\ DOMAIN versions = 1 .. Latest
  BY TablesTyped, LatestRow DEF TypeInv, TypeOK
<1>2. workers' = workers /\ graphs' = graphs
  BY DEF RequestStep, Check, Upload, Retry, Reanalyze, Restart, ReportReanalyze, Export, Download, Collect,
     Delete, EnqueueFirst, EnqueueLost, Refused, artifacts
<1>3. \A s \in Slot : jobs'[s] # NoJob => jobs'[s].stage # "cleanup"
  <2>1. CASE jobs' = jobs \/ jobs' = Purged
    BY <2>1 DEF Kept, Purged
  <2>2. ASSUME NEW stage \in Stage \ {"cleanup"}, NEW paths, Enqueue(stage, paths)
        PROVE  \A s \in Slot : jobs'[s] # NoJob => jobs'[s].stage # "cleanup"
    <3>1. PICK r \in Slot : jobs'[r].stage = stage /\ \A q \in Slot : q # r => jobs'[q] = jobs[q]
      BY <1>1, <2>2, EnqueuedSlot
    <3> QED
      BY <3>1 DEF Kept
  <2>3. CASE EnqueueFirst(t)
    <3>1. requests[t].pc = "committed" /\ requests[t] # Idle /\ requests[t].op # "delete"
      BY <2>3 DEF EnqueueFirst, Kept, Idle
    <3>2. requests[t].op \in {"upload", "retry", "reanalyze", "report"}
      BY <3>1 DEF TypeInv, RequestsKnow, Knows
    <3>3. FirstStage(requests[t].op) \in Stage \ {"cleanup"}
      BY <3>2 DEF FirstStage, Stage, Pipeline
    <3> QED
      BY <2>2, <2>3, <3>3 DEF EnqueueFirst
  <2>4. CASE Export(t)
    BY <2>1, <2>2, <2>4 DEF Export, Stage
  <2> QED
    BY <2>1, <2>3, <2>4 DEF RequestStep, Check, Upload, Retry, Reanalyze, Restart, ReportReanalyze, Download,
       Collect, Delete, EnqueueLost, Refused
<1>4. \A u \in Tab : u # t => requests'[u] = requests[u]
  BY RequestRecord
<1>5. CASE Collect(t)
  <2>1. requests' = [requests EXCEPT ![t] = [requests[t] EXCEPT !.pc = "collected", !.paths = 1 .. Latest]]
    BY <1>1, <1>5 DEF Collect
  <2>2. requests[t] \in RequestState /\ requests[t].pc = "checked"
    BY <1>1, <1>5 DEF Collect, Committing
  <2>3. requests'[t].pc = "collected" /\ requests'[t].paths = 1 .. Latest
    BY <1>1, <2>1, <2>2 DEF RequestState, Idle
  <2>4. Latest' = Latest /\ files' = files
    BY <1>5 DEF Collect, Latest, tables, artifacts
  <2> QED
    BY <1>2, <1>3, <1>4, <2>3, <2>4 DEF Kept, Busy
<1>6. CASE Upload(t)
  <2>1. Latest' = Latest + 1 /\ files' = files \cup {Latest + 1}
    BY <1>1, <1>6, UploadTables, TablesTyped DEF TypeInv, Upload
  <2>2. requests[t].pc = "checked" /\ requests[t].op = "upload" /\ Open(t)
    BY <1>6 DEF Upload, Committing, Open
  <2>3. requests'[t] = [requests[t] EXCEPT !.pc = "committed"]
    BY <1>1, <1>6 DEF Upload, Then
  <2>4. requests'[t].pc = "committed" /\ requests'[t].op = "upload"
    BY <1>1, <2>2, <2>3 DEF RequestState, Idle
  <2>5. \A u \in Tab : u # t => ~Open(u)
    BY <2>2 DEF OneIsOpen
  <2>6. \A k \in Nat : k \in 0 .. Latest => k \in 0 .. Latest + 1
    BY <1>1
  <2>7. files' \subseteq 1 .. Latest' /\ graphs' \subseteq 1 .. Latest'
    BY <1>1, <1>2, <2>1 DEF Kept
  <2>8. \A w \in Worker : Busy(w)' => workers'[w].ver \in 0 .. Latest' /\ workers'[w].stage # "cleanup"
    BY <1>1, <1>2, <2>1 DEF Kept, Busy
  <2>9. \A u \in Tab : (requests'[u].pc = "committed" => requests'[u].op # "delete")
                        /\ requests'[u].pc # "collected"
    BY <1>4, <2>4, <2>5 DEF Kept, Open
  <2> QED
    BY <1>3, <2>7, <2>8, <2>9 DEF Kept
<1>7. CASE ~Collect(t) /\ ~Upload(t)
  <2>1. Latest' = Latest /\ files' = files
    <3>1. CASE Retry(t) \/ Reanalyze(t)
      <4>1. Len(versions') = Len(versions)
        <5>1. PICK status \in DraftStatus, expected \in SUBSET DraftStatus : SetStatus(status, expected)
          <6>1. CASE Retry(t)
            BY <6>1 DEF Retry, Restart, DraftStatus, InProgress
          <6>2. CASE Reanalyze(t)
            <7>1. requests[t] # Idle /\ requests[t].pc = "checked" /\ requests[t].op = "reanalyze"
              BY <6>2 DEF Reanalyze, Restart, Committing, Idle
            <7>2. {requests[t].seen} \in SUBSET DraftStatus /\ "analyzing" \in DraftStatus
              BY <7>1 DEF TypeInv, RequestsKnow, Knows, StartsFrom, DraftStatus, InProgress
            <7> QED
              BY <6>2, <7>2 DEF Reanalyze, Restart
          <6> QED
            BY <3>1, <6>1, <6>2
        <5> QED
          BY <3>1, <5>1, SetStatusTables, TablesTyped DEF TypeInv, Retry, Reanalyze, Restart, Latest
      <4> QED
        BY <3>1, <4>1 DEF Latest, Retry, Reanalyze, Restart, artifacts
    <3>2. CASE ~Retry(t) /\ ~Reanalyze(t)
      BY <1>7, <3>2 DEF RequestStep, Check, ReportReanalyze, Export, Download, Delete, EnqueueFirst,
         EnqueueLost, Refused, tables, artifacts, Latest
    <3> QED
      BY <3>1, <3>2
  <2>2. \/ \E op \in Op : Check(t, op)
        \/ requests[t].pc # "idle" /\ Then(t, "idle")
        \/ Committing(t, "retry") /\ Then(t, "committed")
        \/ Committing(t, "reanalyze") /\ Then(t, "committed")
        \/ Committing(t, "report") /\ Then(t, "committed")
    BY <1>7 DEF RequestStep, Retry, Reanalyze, Restart, ReportReanalyze, Export, Download, Delete,
       EnqueueFirst, EnqueueLost, Refused, Committing
  <2>3. requests'[t].pc # "collected" /\ (requests'[t].pc = "committed" => requests'[t].op # "delete")
    <3>1. CASE \E op \in Op : Check(t, op)
      BY <1>1, <3>1 DEF Check
    <3>2. CASE Then(t, "idle")
      BY <1>1, <3>2 DEF Then, Idle
    <3>3. ASSUME NEW op \in {"retry", "reanalyze", "report"}, Committing(t, op), Then(t, "committed")
          PROVE  requests'[t].pc = "committed" /\ requests'[t].op = op
      <4>1. requests'[t] = [requests[t] EXCEPT !.pc = "committed"]
        BY <1>1, <3>3 DEF Then
      <4> QED
        BY <1>1, <3>3, <4>1 DEF RequestState, Idle, Committing
    <3> QED
      BY <2>2, <3>1, <3>2, <3>3
  <2> QED
    BY <1>2, <1>3, <1>4, <2>1, <2>3 DEF Kept, Busy
<1> QED
  BY <1>5, <1>6, <1>7

\* ... and the workers.
LEMMA KeptWorker ==
    ASSUME TypeInv, SlotsAgree, Kept, NEW w \in Worker, WorkerStep(w)
    PROVE  Kept'
<1>1. /\ jobs \in [Slot -> Job \cup {NoJob}] /\ workers \in [Worker -> WorkerState]
      /\ Latest \in Nat /\ Latest' = Latest
  BY TablesTyped, LatestRow, WorkerTables DEF TypeInv, TypeOK
<1>2. requests' = requests
  BY DEF WorkerStep, Progress, Take, Crash, Load, LoadFails, Mark, MarkFails,
     WorkFails, Raise, Parsed, Extracted, EnqueueNext, PutGraph, Analyzed, LoadReport, Rendered, ExportFails,
     Cleanup, MarkFailed, FinishJob, FinalizeRead, FinalizeWrite, Claim, Reap
<1>3. \A s \in Slot : jobs'[s] # NoJob => jobs'[s].stage # "cleanup"
  BY CleanupRows DEF Kept
<1>4. ~Cleanup(w)
  <2>1. Cleanup(w) => Busy(w) /\ workers[w].stage = "cleanup"
    BY AtWork DEF Cleanup, At, AtJob, Doing, Busy
  <2> QED
    BY <2>1 DEF Kept
<1>5. files' = files /\ graphs' \subseteq 1 .. Latest
  <2>1. CASE PutGraph(w)
    <3>1. Busy(w) /\ KnowsJob(workers[w]) /\ workers[w].pc = "working"
      BY <2>1, AtWork DEF PutGraph, At, AtJob, Busy
    <3>2. workers[w].ver \in 1 .. Latest
      BY <1>1, <3>1, Constants DEF Kept, KnowsJob, Version
    <3> QED
      BY <2>1, <3>2 DEF PutGraph, Kept
  <2>2. CASE ~PutGraph(w)
    <3>1. UNCHANGED <<files, graphs>>
      BY <1>4, <2>2 DEF WorkerStep, Progress, Take, Crash, Load, LoadFails, Mark, MarkFails,
         WorkFails, Raise, Parsed, Extracted, EnqueueNext, Analyzed, LoadReport, Rendered, ExportFails,
         MarkFailed, FinishJob, FinalizeRead, FinalizeWrite, Claim, Reap, artifacts
    <3> QED
      BY <3>1 DEF Kept
  <2> QED
    BY <2>1, <2>2
<1>6. files' \subseteq 1 .. Latest
  BY <1>5 DEF Kept
<1>7. \A v \in Worker : v # w => workers'[v] = workers[v]
  BY WorkerRecord
<1>8. Busy(w)' => workers'[w].ver \in 0 .. Latest /\ workers'[w].stage # "cleanup"
  <2>1. CASE Handles(w)
    <3>1. Busy(w) /\ workers[w] \in JobState
      BY <2>1, HandlesMoves DEF Busy
    <3>2. PICK pc \in AtJob : Step(w, pc)
      BY <2>1, HandlesMoves
    <3>3. workers'[w].ver = workers[w].ver /\ workers'[w].stage = workers[w].stage
      BY <3>1, <3>2, StepRecord
    <3> QED
      BY <3>1, <3>3 DEF Kept
  <2>2. CASE Load(w)
    <3>1. workers[w] \in JobState
      BY <2>2, AtWork DEF Load, At, AtJob
    <3>2. workers'[w].ver = Latest /\ workers'[w].stage = workers[w].stage
      BY <1>1, <2>2, <3>1 DEF Load, JobState
    <3> QED
      BY <1>1, <3>1, <3>2 DEF Kept, Busy
  <2>3. ASSUME NEW s \in Slot, Claim(w, s)
        PROVE  workers'[w].ver \in 0 .. Latest /\ workers'[w].stage # "cleanup"
    <3>1. jobs[s] # NoJob
      BY <2>3 DEF Claim, NoJob
    <3>2. workers'[w].ver = 0 /\ workers'[w].stage = jobs[s].stage
      BY <1>1, <2>3 DEF Claim
    <3> QED
      BY <1>1, <3>1, <3>2 DEF Kept
  <2>4. ASSUME NEW s \in Slot, Reap(w, s)
        PROVE  ~Busy(w)'
    <3>1. workers'[w].pc = "idle" \/ workers'[w].pc = "finalize"
      BY <1>1, <2>4 DEF Reap, At
    <3> QED
      BY <3>1 DEF Busy, JobState, AtJob
  <2>5. CASE FinishJob(w) \/ Crash(w) \/ FinalizeWrite(w) \/ FinalizeRead(w)
    <3>1. workers'[w].pc = "idle" \/ workers'[w].pc = "finalizing"
      BY <1>1, <2>5 DEF FinishJob, Crash, FinalizeWrite, FinalizeRead, Rest, Idle
    <3> QED
      BY <3>1 DEF Busy, JobState, AtJob
  <2> QED
    BY <2>1, <2>2, <2>3, <2>4, <2>5 DEF WorkerStep, Progress, Take, Handles
<1> QED
  BY <1>1, <1>2, <1>3, <1>5, <1>6, <1>7, <1>8 DEF Kept, Busy

\* Delete hands the list over: the request that has it is about to enqueue the cleanup.
LEMMA DeleteLeaves ==
    ASSUME TypeInv, OneIsOpen, Kept, NEW t \in Tab, Delete(t)
    PROVE  Left' /\ ~Alive'
<1>1. /\ jobs \in [Slot -> Job \cup {NoJob}] /\ requests \in [Tab -> RequestState]
      /\ workers \in [Worker -> WorkerState] /\ Latest \in Nat
  BY TablesTyped, LatestRow DEF TypeInv, TypeOK
<1>2. PICK paths : paths = 1 .. Latest
  OBVIOUS
<1>3. paths \in SUBSET Version
  BY <1>2, TablesTyped, LatestRow, Constants DEF TypeInv, TablesOK, Content, Version
<1>4. workers' = workers /\ files' = files /\ graphs' = graphs /\ jobs' = Purged /\ ~Alive'
  BY DEF Delete, artifacts, Alive
<1>5. requests[t].pc = "collected" /\ requests[t].op = "delete" /\ requests[t].paths = paths /\ Open(t)
  BY <1>2 DEF Delete, Kept, TypeInv, RequestsKnow, Knows, Idle, Open
<1>6. /\ requests'[t] = [requests[t] EXCEPT !.pc = "committed"]
      /\ \A u \in Tab : u # t => requests'[u] = requests[u]
  BY <1>1 DEF Delete, Then
<1>7. requests'[t].pc = "committed" /\ requests'[t].op = "delete" /\ requests'[t].paths = paths
  BY <1>1, <1>5, <1>6 DEF RequestState, Idle
<1>8. \A u \in Tab : ~Open(u)'
  BY <1>5, <1>6, <1>7 DEF OneIsOpen, Open
<1>9. \A w \in Worker : workers[w].pc \in AtJob => Busy(w)
  BY AtWork DEF Busy
<1>10. Custody(paths)'
  <2>1. files' \subseteq paths /\ graphs' \subseteq paths
    BY <1>2, <1>4 DEF Kept
  <2>2. ASSUME NEW w \in Worker, workers'[w].pc \in {"loaded", "working"}
        PROVE  workers'[w].ver \in paths
    <3>1. Busy(w) /\ KnowsJob(workers[w])
      BY <1>4, <1>9, <2>2 DEF AtJob, TypeInv, WorkersKnow
    <3>2. workers[w].ver \in Version /\ workers[w].ver \in 0 .. Latest
      BY <1>4, <2>2, <3>1 DEF KnowsJob, Kept
    <3> QED
      BY <1>1, <1>2, <1>4, <3>2, Constants DEF Version
  <2>3. \A u \in Tab : requests'[u].pc = "committed" /\ requests'[u].op = "delete" => requests'[u].paths = paths
    BY <1>6, <1>7 DEF Kept
  <2>4. \A s \in Slot : jobs'[s] # NoJob => jobs'[s].stage # "cleanup"
    BY <1>4 DEF Kept, Purged
  <2>5. \A w \in Worker : Busy(w)' => workers'[w].stage # "cleanup"
    BY <1>4 DEF Kept, Busy
  <2> QED
    BY <1>7, <2>1, <2>2, <2>3, <2>4, <2>5 DEF Custody
<1>11. \A w \in Worker : ~(At(w, "returned")' /\ Doing(w, {"cleanup"})')
  BY <1>4, <1>9 DEF At, Doing, AtJob, Kept
<1> QED
  BY <1>3, <1>4, <1>8, <1>10, <1>11 DEF Left

\* Afterwards no request reads the draft any more; one that has committed enqueues.
LEMMA LeftRequest ==
    ASSUME Orderly, TypeInv, ~Alive, Left, NEW t \in Tab, RequestStep(t)
    PROVE  Left' /\ ~Alive'
<1>1. /\ jobs \in [Slot -> Job \cup {NoJob}] /\ requests \in [Tab -> RequestState]
  BY DEF TypeInv, TypeOK
<1>2. ~Open(t)
  BY DEF Left
<1>3. \A op \in Op : ~Check(t, op)
  <2>1. StatusRead = "deleted"
    BY DEF Alive, StatusRead, Present, DraftStatus, InProgress
  <2> QED
    BY <2>1 DEF Check, StartsFrom, DraftStatus, InProgress
<1>4. EnqueueFirst(t)
  BY <1>2, <1>3 DEF RequestStep, Open, Upload, Retry, Reanalyze, Restart, ReportReanalyze, Export, Download,
     Collect, Delete, EnqueueLost, Refused, Committing, Orderly
<1>5. /\ workers' = workers /\ files' = files /\ graphs' = graphs /\ exported' = exported /\ ~Alive'
      /\ requests[t].pc = "committed"
  BY <1>4 DEF EnqueueFirst, tables, artifacts, Alive
<1>6. requests'[t] = Idle /\ \A u \in Tab : u # t => requests'[u] = requests[u]
  BY <1>1, <1>4 DEF EnqueueFirst, Then
<1>7. \A u \in Tab : ~Open(u)'
  BY <1>6 DEF Left, Open, Idle
<1>8. Clean' <=> Clean
  BY <1>5 DEF Clean
<1>9. \A w \in Worker : At(w, "returned")' /\ Doing(w, {"cleanup"})' => Clean'
  BY <1>5, <1>8 DEF Left, At, Doing
<1>10. PICK paths \in SUBSET Version : Custody(paths)
  BY DEF Left
<1>11. requests[t].op \in {"upload", "retry", "reanalyze", "report", "delete"}
  BY <1>5 DEF TypeInv, RequestsKnow, Knows, Idle
<1>12. FirstStage(requests[t].op) \in Stage
       /\ (FirstStage(requests[t].op) = "cleanup" <=> requests[t].op = "delete")
  BY <1>11 DEF FirstStage, Stage, Pipeline
<1>13. requests[t].paths \in SUBSET Version
  BY <1>1, <1>5, RequestShape
<1>14. PICK s \in Slot :
          /\ jobs[s] = NoJob /\ jobs'[s] # NoJob /\ jobs'[s].stage = FirstStage(requests[t].op)
          /\ jobs'[s].paths = requests[t].paths
          /\ \A r \in Slot : r # s => jobs'[r] = jobs[r]
  <2>1. PICK s \in FreeSlots : jobs' = [jobs EXCEPT ![s] =
            [stage |-> FirstStage(requests[t].op), state |-> "pending", attempts |-> 0,
             paths |-> requests[t].paths]]
    BY <1>4 DEF EnqueueFirst, Enqueue
  <2>2. s \in Slot /\ jobs[s] = NoJob
    BY <2>1 DEF FreeSlots
  <2>3. jobs'[s].state = "pending" /\ jobs'[s].stage = FirstStage(requests[t].op)
        /\ jobs'[s].paths = requests[t].paths /\ \A r \in Slot : r # s => jobs'[r] = jobs[r]
    BY <1>1, <2>1, <2>2
  <2> QED
    BY <2>2, <2>3 DEF NoJob
<1>15. Custody(paths)'
  <2>1. files' \subseteq paths /\ graphs' \subseteq paths
        /\ \A w \in Worker : workers'[w].pc \in {"loaded", "working"} => workers'[w].ver \in paths
    BY <1>5, <1>10 DEF Custody
  <2>2. \A u \in Tab : requests'[u].pc = "committed" /\ requests'[u].op = "delete" => requests'[u].paths = paths
    BY <1>6, <1>10 DEF Custody, Idle
  <2>3. \A r \in Slot : jobs'[r] # NoJob /\ jobs'[r].stage = "cleanup" => jobs'[r].paths = paths
    BY <1>5, <1>10, <1>12, <1>14 DEF Custody
  <2>4. \A w \in Worker : Busy(w)' /\ workers'[w].stage = "cleanup" => workers'[w].paths = paths
    BY <1>5, <1>10 DEF Custody, Busy
  <2>5. \/ \E u \in Tab : requests'[u].pc = "committed" /\ requests'[u].op = "delete"
        \/ \E r \in Slot : jobs'[r] # NoJob /\ jobs'[r].stage = "cleanup"
        \/ Clean' /\ \A w \in Worker : ~Writes(w)'
    <3>1. CASE requests[t].op = "delete"
      BY <1>12, <1>14, <3>1
    <3>2. CASE requests[t].op # "delete"
      <4>1. \A u \in Tab : requests[u].pc = "committed" /\ requests[u].op = "delete" => requests'[u] = requests[u]
        BY <1>6, <3>2
      <4>2. \A r \in Slot : jobs[r] # NoJob => jobs'[r] = jobs[r]
        BY <1>14
      <4>3. \A w \in Worker : Writes(w)' <=> Writes(w)
        BY <1>5 DEF Writes
      <4> QED
        BY <1>8, <1>10, <4>1, <4>2, <4>3 DEF Custody
    <3> QED
      BY <3>1, <3>2
  <2> QED
    BY <2>1, <2>2, <2>3, <2>4, <2>5 DEF Custody
<1> QED
  BY <1>5, <1>7, <1>9, <1>10, <1>15 DEF Left

\* The handlers that go on without a draft.
LEMMA AbsentHandles ==
    ASSUME TypeInv, ~Present, NEW w \in Worker, Handles(w)
    PROVE  /\ Busy(w) /\ workers[w].pc \in AtJob
           /\ \E pc \in {"working", "committed", "loading", "returned", "raised", "aborted"} :
                 /\ Step(w, pc)
                 /\ pc = "working" => At(w, "loaded")
                 /\ pc = "returned" => Cleanup(w) \/ ~Doing(w, {"cleanup"})
<1>1. Busy(w) /\ workers[w].pc \in AtJob
  BY HandlesMoves DEF Busy, JobState
<1>2. KnowsJob(workers[w])
  BY <1>1 DEF TypeInv, WorkersKnow
<1>3. ~Extracted(w) /\ ~Analyzed(w) /\ ~LoadReport(w)
  BY DEF Extracted, Analyzed, LoadReport
<1>4. CASE LoadFails(w) \/ MarkFails(w) \/ WorkFails(w) \/ ExportFails(w)
  BY <1>1, <1>4 DEF LoadFails, MarkFails, WorkFails, ExportFails, Raise
<1>5. CASE Mark(w) \/ Parsed(w) \/ PutGraph(w) \/ MarkFailed(w) \/ Cleanup(w)
  BY <1>1, <1>5 DEF Mark, Parsed, PutGraph, MarkFailed, Cleanup
<1>6. CASE EnqueueNext(w) \/ Rendered(w)
  <2>1. Step(w, "returned") /\ ~Doing(w, {"cleanup"})
    BY <1>2, <1>6 DEF EnqueueNext, Rendered, KnowsJob, At, Doing
  <2> QED
    BY <1>1, <2>1
<1> QED
  BY <1>3, <1>4, <1>5, <1>6 DEF Handles

\* One worker at a time writes and cleans up.
LEMMA LeftWorker ==
    ASSUME TypeInv, SlotsAgree, ~Alive, Left, \A u, v \in Worker : u = v, NEW w \in Worker, WorkerStep(w)
    PROVE  Left' /\ ~Alive'
<1>1. /\ jobs \in [Slot -> Job \cup {NoJob}] /\ workers \in [Worker -> WorkerState]
      /\ \A v \in Worker : v = w
  BY DEF TypeInv, TypeOK
<1>2. ~Present
  BY DEF Alive, Present, DraftStatus, InProgress
<1>3. draft' = draft /\ ~Alive'
  BY <1>2, AbsentStep DEF Alive
<1>4. requests' = requests
  BY DEF WorkerStep, Progress, Take, Crash, Load, LoadFails, Mark, MarkFails,
     WorkFails, Raise, Parsed, Extracted, EnqueueNext, PutGraph, Analyzed, LoadReport, Rendered, ExportFails,
     Cleanup, MarkFailed, FinishJob, FinalizeRead, FinalizeWrite, Claim, Reap
<1>5. \A t \in Tab : ~Open(t)'
  BY <1>4 DEF Left, Open
<1>6. PICK paths \in SUBSET Version : Custody(paths)
  BY DEF Left
\* The queue keeps the cleanup that is there, until it has done its work.
<1>7. \A s \in Slot : jobs'[s] # NoJob /\ jobs'[s].stage = "cleanup" => jobs'[s].paths = paths
  BY <1>6, CleanupRows DEF Custody
<1>8. \/ FinishJob(w) /\ At(w, "returned") /\ Doing(w, {"cleanup"})
      \/ (\E s \in Slot : jobs[s] # NoJob /\ jobs[s].stage = "cleanup") =>
             \E s \in Slot : jobs'[s] # NoJob /\ jobs'[s].stage = "cleanup"
  BY CleanupRows
<1>9. Busy(w) <=> workers[w].pc \in AtJob
  BY AtWork, WorkerShape DEF Busy, TypeInv, TypeOK
<1>10. CASE Handles(w)
  <2>1. PICK pc \in {"working", "committed", "loading", "returned", "raised", "aborted"} :
           /\ Step(w, pc)
           /\ pc = "working" => At(w, "loaded")
           /\ pc = "returned" => Cleanup(w) \/ ~Doing(w, {"cleanup"})
    BY <1>2, <1>10, AbsentHandles
  <2>2. workers[w] \in JobState /\ Busy(w)
    BY <1>10, HandlesMoves DEF Busy
  <2>3. workers' = [workers EXCEPT ![w] = [workers[w] EXCEPT !.pc = pc]]
    BY <2>1 DEF Step
  <2>4. /\ workers'[w].pc = pc /\ workers'[w].stage = workers[w].stage /\ workers'[w].ver = workers[w].ver
        /\ workers'[w].paths = workers[w].paths
    BY <1>1, <2>2, <2>3 DEF JobState
  <2>5. /\ files' \subseteq files
        /\ graphs' \subseteq graphs \cup (IF At(w, "working") THEN {workers[w].ver} ELSE {})
        /\ Clean /\ ~Writes(w) => Clean'
    <3>1. CASE PutGraph(w)
      BY <3>1 DEF PutGraph, Writes, At
    <3>2. CASE Cleanup(w)
      <4>1. PICK F \in SUBSET workers[w].paths, G \in SUBSET workers[w].paths, kept \in {exported, FALSE} :
               files' = files \ F /\ graphs' = graphs \ G /\ exported' = kept
        BY <3>2 DEF Cleanup
      <4>2. ~exported => ~exported'
        BY <4>1
      <4> QED
        BY <4>1, <4>2 DEF Clean
    <3>3. CASE Rendered(w)
      BY <3>3 DEF Rendered, Writes, At
    <3>4. CASE UNCHANGED artifacts
      BY <3>4 DEF artifacts, Clean
    <3> QED
      BY <1>10, <3>1, <3>2, <3>3, <3>4 DEF Handles, LoadFails, Mark, MarkFails, WorkFails, Raise, Parsed,
         Extracted, EnqueueNext, Analyzed, LoadReport, ExportFails, MarkFailed
  <2>6. files' \subseteq paths /\ graphs' \subseteq paths
    BY <1>6, <2>5 DEF Custody, At
  <2>7. pc = "working" => workers[w].ver \in paths
    BY <1>6, <2>1 DEF Custody, At
  <2>8. Writes(w)' => Writes(w)
    BY <2>1, <2>4 DEF Writes, At
  <2>9. ~FinishJob(w)
    BY <1>10, <2>1, <2>2, <2>4, <1>1 DEF FinishJob, Rest, Idle
  <2>10. Custody(paths)'
    <3>1. \A v \in Worker : workers'[v].pc \in {"loaded", "working"} => workers'[v].ver \in paths
      BY <1>1, <2>1, <2>4, <2>7
    <3>2. \A v \in Worker : Busy(v)' /\ workers'[v].stage = "cleanup" => workers'[v].paths = paths
      BY <1>1, <1>6, <2>2, <2>4 DEF Custody
    <3>3. \/ \E t \in Tab : requests'[t].pc = "committed" /\ requests'[t].op = "delete"
          \/ \E s \in Slot : jobs'[s] # NoJob /\ jobs'[s].stage = "cleanup"
          \/ Clean' /\ \A v \in Worker : ~Writes(v)'
      BY <1>1, <1>4, <1>6, <1>8, <2>5, <2>8, <2>9 DEF Custody
    <3> QED
      BY <1>4, <1>6, <1>7, <2>6, <3>1, <3>2, <3>3 DEF Custody
  <2>11. At(w, "returned")' /\ Doing(w, {"cleanup"})' => Clean'
    <3> SUFFICES ASSUME pc = "returned", Doing(w, {"cleanup"})
                 PROVE  Clean'
      BY <2>4 DEF At, Doing
    <3>1. Cleanup(w)
      BY <2>1
    <3>2. workers[w].paths = paths
      BY <1>6, <2>2 DEF Custody, Doing
    <3>3. PICK F \in SUBSET workers[w].paths, G \in SUBSET workers[w].paths, kept \in {exported, FALSE} :
             /\ files' = files \ F /\ graphs' = graphs \ G /\ exported' = kept
             /\ Step(w, IF F \cap G = workers[w].paths /\ ~kept THEN "returned" ELSE "aborted")
      BY <3>1 DEF Cleanup
    <3>4. F \cap G = paths /\ ~kept
      <4>1. workers'[w].pc = IF F \cap G = workers[w].paths /\ ~kept THEN "returned" ELSE "aborted"
        BY <1>1, <2>2, <3>3 DEF Step, JobState
      <4> QED
        BY <2>4, <3>2, <4>1
    <3>5. files \subseteq paths /\ graphs \subseteq paths
      BY <1>6 DEF Custody
    <3>6. files' = {} /\ graphs' = {}
      BY <3>3, <3>4, <3>5
    <3> QED
      BY <3>3, <3>4, <3>6 DEF Clean
  <2> QED
    BY <1>1, <1>3, <1>5, <1>6, <2>10, <2>11 DEF Left
<1>11. ASSUME NEW s \in Slot, Claim(w, s)
       PROVE  Left' /\ ~Alive'
  <2>1. UNCHANGED artifacts /\ At(w, "idle") /\ jobs[s] # NoJob
    BY <1>11 DEF Claim, NoJob
  <2>2. /\ workers'[w].pc = "claimed" /\ workers'[w].stage = jobs[s].stage
        /\ workers'[w].paths = jobs[s].paths
    BY <1>1, <1>11 DEF Claim
  <2>3. Clean' <=> Clean
    BY <2>1 DEF artifacts, Clean
  <2>4. Custody(paths)'
    <3>1. files' \subseteq paths /\ graphs' \subseteq paths
      BY <1>6, <2>1 DEF Custody, artifacts
    <3>2. \A v \in Worker : ~Writes(v)' /\ workers'[v].pc \notin {"loaded", "working"}
      BY <1>1, <2>2 DEF Writes
    <3>3. \A v \in Worker : Busy(v)' /\ workers'[v].stage = "cleanup" => workers'[v].paths = paths
      BY <1>1, <1>6, <2>1, <2>2 DEF Custody
    <3>4. ~FinishJob(w)
      BY <2>1 DEF FinishJob, At
    <3>5. \/ \E t \in Tab : requests'[t].pc = "committed" /\ requests'[t].op = "delete"
          \/ \E r \in Slot : jobs'[r] # NoJob /\ jobs'[r].stage = "cleanup"
          \/ Clean' /\ \A v \in Worker : ~Writes(v)'
      BY <1>4, <1>6, <1>8, <2>3, <3>2, <3>4 DEF Custody
    <3> QED
      BY <1>4, <1>6, <1>7, <3>1, <3>2, <3>3, <3>5 DEF Custody
  <2> QED
    BY <1>1, <1>3, <1>5, <1>6, <2>2, <2>4 DEF Left, At
<1>12. CASE FinishJob(w) \/ Crash(w) \/ FinalizeRead(w) \/ FinalizeWrite(w) \/ \E s \in Slot : Reap(w, s)
  <2>1. UNCHANGED artifacts
    BY <1>12 DEF FinishJob, Crash, FinalizeRead, FinalizeWrite, Reap
  <2>2. workers'[w].pc \in {"idle", "finalize", "finalizing"}
    BY <1>1, <1>12 DEF FinishJob, Crash, FinalizeRead, FinalizeWrite, Reap, Rest, Idle, At
  <2>3. /\ \A v \in Worker : ~Writes(v)' /\ workers'[v].pc \notin {"loaded", "working", "returned"}
        /\ \A v \in Worker : ~Busy(v)'
    BY <1>1, <2>2 DEF Writes, Busy, JobState, AtJob
  <2>4. Clean' <=> Clean
    BY <2>1 DEF artifacts, Clean
  <2>5. FinishJob(w) /\ At(w, "returned") /\ Doing(w, {"cleanup"}) => Clean
    BY DEF Left
  <2>6. \/ \E t \in Tab : requests'[t].pc = "committed" /\ requests'[t].op = "delete"
        \/ \E s \in Slot : jobs'[s] # NoJob /\ jobs'[s].stage = "cleanup"
        \/ Clean' /\ \A v \in Worker : ~Writes(v)'
    BY <1>4, <1>6, <1>8, <2>3, <2>4, <2>5 DEF Custody
  <2>7. Custody(paths)'
    BY <1>4, <1>6, <1>7, <2>1, <2>3, <2>6 DEF Custody, artifacts
  <2> QED
    BY <1>3, <1>5, <1>6, <2>3, <2>7 DEF Left, At
<1>13. ~Load(w)
  BY <1>2 DEF Load
<1> QED
  BY <1>10, <1>11, <1>12, <1>13 DEF WorkerStep, Progress, Take, Handles

LEMMA LeftStep ==
    ASSUME Orderly, \A v, w \in Worker : v = w, LeftInv, [Next]_vars
    PROVE  LeftInv'
<1>1. TypeInv /\ OneIsOpen /\ SlotsAgree
  BY DEF LeftInv
<1>2. TypeInv' /\ OneIsOpen' /\ SlotsAgree'
  BY <1>1, TypeStep, OneOpenStep, SlotsStep DEF Orderly
<1>3. (IF Alive THEN Kept ELSE Left)'
  <2>1. CASE Alive
    <3>1. ASSUME NEW t \in Tab, RequestStep(t), ~Delete(t)
          PROVE  Kept' /\ Alive'
      <4>1. Alive'
        <5>1. draft'.status # "deleted"
          <6>1. CASE Retry(t) \/ Reanalyze(t)
            BY <1>1, <2>1, <6>1 DEF Retry, Reanalyze, Restart, SetStatus, Alive, TypeInv, TypeOK
          <6>2. CASE Upload(t)
            BY <1>1, <6>2 DEF Upload, TypeInv, TypeOK
          <6>3. CASE draft' = draft
            BY <2>1, <6>3 DEF Alive
          <6> QED
            BY <3>1, <6>1, <6>2, <6>3 DEF RequestStep, Check, ReportReanalyze, Export, Download, Collect,
               EnqueueFirst, EnqueueLost, Refused, tables
        <5> QED
          BY <5>1 DEF Alive
      <4> QED
        BY <1>1, <2>1, <3>1, <4>1, KeptRequest DEF LeftInv
    <3>2. ASSUME NEW t \in Tab, Delete(t)
          PROVE  Left' /\ ~Alive'
      BY <1>1, <2>1, <3>2, DeleteLeaves DEF LeftInv
    <3>3. ASSUME NEW w \in Worker, WorkerStep(w)
          PROVE  Kept' /\ Alive'
      <4>1. Alive'
        <5>1. CASE Present
          BY <1>1, <3>3, <5>1, WorkerTables DEF Alive, Present, DraftStatus, InProgress
        <5>2. CASE ~Present
          BY <1>1, <2>1, <3>3, <5>2, AbsentStep DEF Alive
        <5> QED
          BY <5>1, <5>2
      <4> QED
        BY <1>1, <2>1, <3>3, <4>1, KeptWorker DEF LeftInv
    <3>4. CASE UNCHANGED vars
      <4>1. Kept' /\ Alive'
        BY <2>1, <3>4 DEF LeftInv, vars, Alive, Kept, Busy, Latest
      <4> QED
        BY <4>1
    <3> QED
      BY <3>1, <3>2, <3>3, <3>4 DEF Next, Request, RequestStep, WorkerStep
  <2>2. CASE ~Alive
    <3>1. CASE UNCHANGED vars
      <4>1. ~Alive' /\ Left'
        BY <2>2, <3>1 DEF LeftInv, vars, Alive, Left, Custody, Clean, Writes, Busy, At, Doing, Open
      <4> QED
        BY <4>1
    <3> QED
      BY <1>1, <2>2, <3>1, LeftRequest, LeftWorker DEF LeftInv, Next, Request, RequestStep, WorkerStep
  <2> QED
    BY <2>1, <2>2
<1> QED
  BY <1>2, <1>3 DEF LeftInv

\* A draft is forgotten only when none of its files, graphs and renderings is left:
\* from the delete on somebody has the list of what there was.  It takes one worker
\* (of two, the one may write what the other has just deleted), requests that are
\* not in each other's way, and no delete that dies before its enqueue; workers may
\* die, and their calls fail, wherever they are.
THEOREM NothingIsLeft ==
    ASSUME Orderly, \A v, w \in Worker : v = w
    PROVE  Spec => []NothingLeftBehind
<1>1. Init => LeftInv
  <2> SUFFICES ASSUME Init PROVE LeftInv
    OBVIOUS
  <2>1. OneIsOpen /\ SlotsAgree
    BY DEF Init, OneIsOpen, Open, SlotsAgree, Holds, Idle
  <2>2. Alive /\ Kept
    BY DEF Init, Alive, Kept, Busy, JobState, AtJob, Idle, NoJob
  <2> QED
    BY <2>1, <2>2, InitType DEF LeftInv
<1>2. LeftInv => NothingLeftBehind
  <2> SUFFICES ASSUME LeftInv, Forgotten PROVE Clean
    BY DEF NothingLeftBehind, RenderingsDieToo, Clean
  <2>1. Left
    BY DEF LeftInv, Forgotten, Alive
  <2>2. PICK paths \in SUBSET Version : Custody(paths)
    BY <2>1 DEF Left
  <2> QED
    BY <2>2 DEF Custody, Forgotten
<1> QED
  BY <1>1, <1>2, LeftStep, PTL DEF Spec
=============================================================================
