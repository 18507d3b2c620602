------------------------- MODULE DraftWizard_proofs -------------------------
(***************************************************************************)
(* Proofs about DraftWizard, for any number of requests, workers, clauses, *)
(* questions, jobs and drafts.                                             *)
(***************************************************************************)
EXTENDS DraftWizard, SequenceTheorems, FiniteSetTheorems, TLAPS

-----------------------------------------------------------------------------
(* The inductive invariant *)

JobIds == 1 .. Len(jobs)
Of(k)  == {j \in JobIds : jobs[j].kind = k}

\* The forms that may come from an old page without harm, and no job that is
\* repeated after it has committed.
Orderly == Again \subseteq {"clause", "drafted", "review", "reviewed"} /\ "rerun" \notin Faults

JobsKnow ==
    /\ \A j \in JobIds : jobs[j].status = "pending" => jobs[j].attempts < MaxAttempts
    /\ \A r \in Requests : requests[r].form = "answer" => requests[r].item \in Questions
    /\ \A d \in drafts : d < nextDraft
TypeInv == TypeOK /\ JobsKnow /\ OneReviewDraft

\* The job of a step, and what it brings
StepKinds == {"clarify", "research", "structure", "draft"}
StepOf(k) == CASE k = "clarify" -> 2 [] k = "research" -> 3 [] k = "structure" -> 4 [] k = "draft" -> 5
Done(k) ==
    CASE k = "clarify"   -> session.asked
      [] k = "research"  -> session.research
      [] k = "structure" -> session.outline # None
      [] k = "draft"     -> session.content.outline # None

\* A step has one job at most, which came with it, and which has succeeded when,
\* and only when, its result is there.
JobIs(k) ==
    /\ \A i, j \in Of(k) : i = j
    /\ \A j \in Of(k) : session.step >= StepOf(k) /\ (jobs[j].status = "success" <=> Done(k))
    /\ Of(k) = {} => ~Done(k)
    /\ "enqueue" \notin Faults /\ session.step >= StepOf(k) => Of(k) # {}
StepJobs == \A k \in StepKinds : JobIs(k)

\* An abandoned session stays at the step whose job has failed.
EndsHold ==
    /\ ~session.asked => session.answered = {}
    /\ session.status = "abandoned" =>
          \E k \in StepKinds : session.step = StepOf(k) /\ \E j \in Of(k) : jobs[j].status = "failed"
    /\ session.status = "completed" => session.step = 7

\* What a job or a request has read is still so when it writes.
ReadsHold ==
    /\ \A j \in Of("draft") : jobs[j].outline \in {None, session.outline}
    /\ \A j \in Of("regenerate") :
          /\ session.content.outline # None
          /\ jobs[j].status = "running" => jobs[j].content.outline = session.outline
    /\ \A r \in Requests : requests[r].form = "clause" =>
          session.content.outline # None /\ requests[r].content.outline = session.outline

\* The forms of the first steps are of the current page, which shows its result.  They
\* come alone, and so do the steps of an export.
Waiting == Missing(session.step)
Early   == {"intent", "answer", "clarified", "researched", "outline"}
Closing == {"export", "notify"}
FormsHold ==
    /\ \A r \in Requests : requests[r].form \in Forms => session.step >= Page[requests[r].form]
    /\ \A r \in Requests : requests[r].form \in Early =>
          /\ session.step = Page[requests[r].form] /\ ~Waiting
          /\ \A q \in Requests : requests[q].form # "none" => q = r
          /\ requests[r].form = "answer" => requests[r].answered = session.answered
    /\ \A r \in Requests : requests[r].form \in Closing =>
          /\ session.step = 7
          /\ \A q \in Requests : requests[q].form \in Closing => q = r
          /\ requests[r].form = "notify" => notices = 0

SessionInv ==
    /\ TypeInv /\ StepJobs /\ EndsHold /\ ReadsHold /\ FormsHold
    /\ PrerequisitesMet /\ TextMatchesOutline /\ OneNotice

\* Nothing is undone by a step.
Kept ==
    /\ session.answered \subseteq session'.answered
    /\ session.status # "active" => session'.status = session.status

-----------------------------------------------------------------------------
(* Jobs, sessions and requests are what they are said to be *)

LEMMA KindsAre == Kinds = StepKinds \cup {"regenerate"}
BY SMT DEF Kinds, StepJob, StepKinds

LEMMA NoContentIs == NoContent \in Content /\ NoContent.outline = None
BY SMT DEF NoContent, Content, None, Texts

LEMMA NewJobIs ==
    ASSUME NEW kind \in Kinds, NEW clause \in Clauses \cup {None}
    PROVE  /\ NewJob(kind, clause) \in Job
           /\ NewJob(kind, clause).kind = kind
           /\ NewJob(kind, clause).status = "pending"
           /\ NewJob(kind, clause).attempts = 0
           /\ NewJob(kind, clause).outline = None
<1> MaxAttempts \in Nat \ {0}
    BY SizesAssumption
<1> QED
    BY NoContentIs DEF NewJob, Job, None

LEMMA IdleIs == Idle \in Request /\ Idle.form = "none"
BY NoContentIs DEF Idle, Request, None

\* A job is appended.
LEMMA Grown ==
    ASSUME jobs \in Seq(Job), NEW J \in Job, jobs' = Append(jobs, J)
    PROVE  /\ jobs' \in Seq(Job)
           /\ JobIds' = JobIds \cup {Len(jobs) + 1}
           /\ Len(jobs) + 1 \notin JobIds
           /\ \A j \in JobIds : jobs'[j] = jobs[j]
           /\ jobs'[Len(jobs) + 1] = J
BY SMT DEF JobIds

\* A job is replaced.
LEMMA Changed ==
    ASSUME jobs \in Seq(Job), NEW j \in JobIds, NEW J \in Job, jobs' = [jobs EXCEPT ![j] = J]
    PROVE  /\ jobs' \in Seq(Job)
           /\ JobIds' = JobIds
           /\ jobs'[j] = J
           /\ \A i \in JobIds : i # j => jobs'[i] = jobs[i]
BY SMT DEF JobIds

LEMMA JobAt ==
    ASSUME jobs \in Seq(Job), NEW j \in JobIds
    PROVE  jobs[j] \in Job
BY SMT DEF JobIds

\* What starting a job does to it
LEMMA Started ==
    ASSUME TypeOK, NEW j \in JobIds, StartJob(j), jobs[j].attempts < MaxAttempts
    PROVE  /\ jobs' \in Seq(Job)
           /\ JobIds' = JobIds
           /\ \A i \in JobIds : i # j => jobs'[i] = jobs[i]
           /\ jobs'[j].kind = jobs[j].kind
           /\ jobs'[j].status = "running"
           /\ jobs'[j].outline \in {None, session.outline}
           /\ jobs[j].kind = "regenerate" => jobs'[j].content = session.content
<1> DEFINE out == IF jobs[j].kind = "draft" /\ ~session.blank THEN session.outline ELSE None
           con == IF jobs[j].kind = "regenerate" THEN session.content ELSE NoContent
           J   == [jobs[j] EXCEPT !.status = "running", !.attempts = @ + 1,
                                  !.outline = out, !.content = con]
<1>1. jobs[j] \in Job /\ jobs \in Seq(Job)
      BY JobAt DEF TypeOK
<1>2. out \in Nat /\ con \in Content /\ out \in {None, session.outline}
      BY NoContentIs DEF TypeOK, Session, None
<1>3. jobs[j].kind = "regenerate" => con = session.content
      OBVIOUS
<1>4. jobs' = [jobs EXCEPT ![j] = J]
  <2>1. jobs' = [jobs EXCEPT ![j].status = "running", ![j].attempts = @ + 1,
                             ![j].outline = out, ![j].content = con]
        BY DEF StartJob
  <2> HIDE DEF out, con
  <2>2. DOMAIN jobs = JobIds
        BY <1>1 DEF JobIds
  <2> QED
        BY <2>1, <2>2, <1>1 DEF Job
<1> HIDE DEF out, con
<1>5. /\ J \in Job /\ J.kind = jobs[j].kind /\ J.status = "running"
      /\ J.outline = out /\ J.content = con
  <2>1. jobs[j].attempts + 1 \in 0 .. MaxAttempts
        BY <1>1, SizesAssumption DEF Job
  <2> QED
        BY <1>1, <1>2, <2>1 DEF Job
<1> HIDE DEF J
<1> QED
    BY <1>1, <1>2, <1>3, <1>4, <1>5, Changed

\* What settling a job does to it
LEMMA SettledIs ==
    ASSUME TypeOK, NEW j \in JobIds, NEW status \in {"pending", "success", "failed"},
           jobs' = Settled(j, status)
    PROVE  /\ jobs' \in Seq(Job)
           /\ JobIds' = JobIds
           /\ \A i \in JobIds : i # j => jobs'[i] = jobs[i]
           /\ jobs'[j].kind = jobs[j].kind
           /\ jobs'[j].attempts = jobs[j].attempts
           /\ jobs'[j].status = status
           /\ jobs'[j].outline = None
<1> DEFINE J == [jobs[j] EXCEPT !.status = status, !.outline = None, !.content = NoContent]
<1>1. jobs[j] \in Job /\ jobs \in Seq(Job)
      BY JobAt DEF TypeOK
<1>2. jobs' = [jobs EXCEPT ![j] = J]
  <2>1. DOMAIN jobs = JobIds
        BY <1>1 DEF JobIds
  <2> QED
        BY <2>1, <1>1 DEF Settled, Job
<1>3. /\ J \in Job /\ J.kind = jobs[j].kind /\ J.status = status
      /\ J.attempts = jobs[j].attempts /\ J.outline = None
      BY <1>1, NoContentIs DEF Job, None
<1> HIDE DEF J
<1> QED
    BY <1>1, <1>2, <1>3, Changed

-----------------------------------------------------------------------------
(* Types, and one draft for the review *)

\* A step is left from one of the first six.
LEMMA AdvancedIs ==
    ASSUME NEW s \in Session, CanLeave(s)
    PROVE  /\ Advanced(s) \in Session
           /\ Advanced(s) = [s EXCEPT !.step = s.step + 1]
           /\ s.step \in 1 .. 6
<1>1. s.step \in 1 .. 7 /\ s.step # 7
      BY DEF CanLeave, Session, Steps
<1> QED
    BY <1>1 DEF Advanced, Session, Steps

\* The queue after an enqueue
LEMMA EnqueuedIs ==
    ASSUME jobs \in Seq(Job), NEW kind \in Kinds, NEW clause \in Clauses \cup {None},
           jobs' \in Enqueued(kind, clause)
    PROVE  \/ /\ "enqueue" \in Faults
              /\ jobs' = jobs
           \/ /\ jobs' \in Seq(Job)
              /\ JobIds' = JobIds \cup {Len(jobs) + 1}
              /\ Len(jobs) + 1 \notin JobIds
              /\ \A j \in JobIds : jobs'[j] = jobs[j]
              /\ jobs'[Len(jobs) + 1] = NewJob(kind, clause)
<1>1. CASE jobs' = Append(jobs, NewJob(kind, clause))
      BY <1>1, NewJobIs, Grown
<1>2. CASE jobs' # Append(jobs, NewJob(kind, clause))
      BY <1>2 DEF Enqueued
<1> QED
    BY <1>1, <1>2

\* What a job that has not run yet may have
PendingKnow == \A j \in JobIds : jobs[j].status = "pending" => jobs[j].attempts < MaxAttempts

LEMMA TypeEnqueued ==
    ASSUME TypeInv, NEW kind \in Kinds, NEW clause \in Clauses \cup {None},
           jobs' \in Enqueued(kind, clause) \cup {jobs}
    PROVE  jobs' \in Seq(Job) /\ PendingKnow'
<1> USE DEF TypeInv, TypeOK, JobsKnow, PendingKnow
<1>1. CASE jobs' = jobs
      BY <1>1 DEF JobIds
<1>2. CASE jobs' # jobs
  <2>1. /\ jobs' \in Seq(Job)
        /\ JobIds' = JobIds \cup {Len(jobs) + 1}
        /\ \A j \in JobIds : jobs'[j] = jobs[j]
        /\ jobs'[Len(jobs) + 1] = NewJob(kind, clause)
        BY <1>2, EnqueuedIs
  <2> QED
        BY <2>1, NewJobIs, SizesAssumption
<1> QED
    BY <1>1, <1>2

\* A step is left, or it is not.
LEMMA TypeLeave ==
    ASSUME TypeInv, NEW r \in Requests, NEW form, NEW s \in Session, NEW kind \in Kinds,
           s.review = session.review, Leave(r, form, s, kind)
    PROVE  TypeInv'
<1> USE DEF TypeInv, TypeOK
<1>1. session' \in Session /\ session'.review = session.review
      BY AdvancedIs DEF Leave, Session
<1>2. jobs' \in Seq(Job) /\ PendingKnow'
  <2>1. jobs' \in Enqueued(kind, None) \cup {jobs}
        BY DEF Leave
  <2> QED
        BY <2>1, TypeEnqueued DEF None
<1>3. /\ requests' = [requests EXCEPT ![r] = Idle]
      /\ UNCHANGED <<drafts, nextDraft, notices>>
      BY DEF Leave, Respond
<1>4. requests' \in [Requests -> Request]
      BY <1>3, IdleIs
<1>5. \A q \in Requests : requests'[q].form = "answer" => requests'[q].item \in Questions
      BY <1>3, IdleIs DEF JobsKnow
<1> QED
    BY <1>1, <1>2, <1>3, <1>4, <1>5 DEF JobsKnow, PendingKnow, OneReviewDraft

\* A request is answered and the jobs are left alone.
LEMMA TypeQuiet ==
    ASSUME TypeInv, NEW r \in Requests, NEW R \in Request, R.form # "answer",
           requests' = [requests EXCEPT ![r] = R], UNCHANGED jobs,
           session' \in Session, notices' \in Nat,
           session'.review = session.review, UNCHANGED <<drafts, nextDraft>>
    PROVE  TypeInv'
<1> USE DEF TypeInv, TypeOK
<1>1. requests' \in [Requests -> Request]
      OBVIOUS
<1>2. \A q \in Requests : requests'[q].form = "answer" => requests'[q].item \in Questions
      BY DEF JobsKnow
<1> QED
    BY <1>1, <1>2 DEF JobsKnow, JobIds, OneReviewDraft

LEMMA TypeJob ==
    ASSUME TypeInv, NEW j \in JobIds, jobs' \in Seq(Job), JobIds' = JobIds,
           \A i \in JobIds : i # j => jobs'[i] = jobs[i],
           jobs'[j].status = "pending" => jobs'[j].attempts < MaxAttempts,
           session' \in Session, session'.review = session.review,
           UNCHANGED <<requests, drafts, nextDraft, notices>>
    PROVE  TypeInv'
BY DEF TypeInv, TypeOK, JobsKnow, OneReviewDraft

\* A text of the clauses is replaced.
LEMMA ContentIs ==
    ASSUME NEW content \in Content, NEW c, NEW t \in Texts
    PROVE  /\ [content EXCEPT !.text[c] = t] \in Content
           /\ [content EXCEPT !.text[c] = t].outline = content.outline
BY DEF Content

LEMMA FilledIs ==
    ASSUME TypeOK, NEW j \in JobIds
    PROVE  /\ Filled(j) \in Session
           /\ Filled(j).review = session.review
           /\ Filled(j).step = session.step
           /\ Filled(j).status = session.status
<1>1. session \in Session /\ jobs[j] \in Job
      BY JobAt DEF TypeOK
<1>2. jobs[j].kind \in {"clarify", "research", "structure", "draft", "regenerate"}
      BY <1>1, KindsAre DEF Job, StepKinds
<1>3. CASE jobs[j].kind = "clarify"
      BY <1>1, <1>3 DEF Filled, Session
<1>4. CASE jobs[j].kind = "research"
      BY <1>1, <1>4 DEF Filled, Session
<1>5. CASE jobs[j].kind = "structure"
  <2>1. session.outline + 1 \in Nat
        BY <1>1 DEF Session
  <2>2. Filled(j) = [session EXCEPT !.outline = session.outline + 1, !.blank = FALSE]
        BY <1>1, <1>5 DEF Filled, Session
  <2> QED
        BY <1>1, <2>1, <2>2 DEF Session
<1>6. CASE jobs[j].kind = "draft"
  <2>1. [NoContent EXCEPT !.outline = jobs[j].outline] \in Content
        BY <1>1, NoContentIs DEF Content, Job
  <2> QED
        BY <1>1, <1>6, <2>1 DEF Filled, Session
<1>7. CASE jobs[j].kind = "regenerate"
  <2> DEFINE C == [jobs[j].content EXCEPT !.text[jobs[j].clause] = "regenerated"]
  <2>1. C \in Content
        BY <1>1, ContentIs DEF Job, Texts
  <2>2. Filled(j) = [session EXCEPT !.content = C]
        BY <1>7 DEF Filled
  <2> HIDE DEF C
  <2> QED
        BY <1>1, <2>1, <2>2 DEF Session
<1> QED
    BY <1>2, <1>3, <1>4, <1>5, <1>6, <1>7

LEMMA TypeInit == Init => TypeInv
<1> SUFFICES ASSUME Init PROVE TypeInv
    OBVIOUS
<1> USE DEF Init
<1>1. session \in Session
      BY NoContentIs DEF Session, Steps, None
<1>2. jobs \in Seq(Job) /\ JobIds = {}
      BY DEF JobIds
<1>3. requests \in [Requests -> Request] /\ \A r \in Requests : requests[r].form = "none"
      BY IdleIs
<1> QED
    BY <1>1, <1>2, <1>3, SizesAssumption DEF TypeInv, TypeOK, JobsKnow, OneReviewDraft, None

LEMMA TypeReceive ==
    ASSUME TypeInv, NEW r \in Requests, Receive(r)
    PROVE  TypeInv'
<1> USE DEF TypeInv, TypeOK
<1>0. PICK f \in Forms :
         \E i \in CASE f = "answer" -> {q \in Unasked : \A p \in Unasked : q <= p}
                   [] f = "clause" -> Clauses
                   [] OTHER        -> {None} :
            requests' = [requests EXCEPT ![r] =
                  [form |-> f, item |-> i,
                   answered |-> IF f = "answer" THEN session.answered ELSE {},
                   content |-> IF f = "clause" THEN session.content ELSE NoContent]]
      BY DEF Receive
<1>1. PICK i : requests' = [requests EXCEPT ![r] =
                  [form |-> f, item |-> i,
                   answered |-> IF f = "answer" THEN session.answered ELSE {},
                   content |-> IF f = "clause" THEN session.content ELSE NoContent]]
               /\ i \in CASE f = "answer" -> {q \in Unasked : \A p \in Unasked : q <= p}
                       [] f = "clause" -> Clauses
                       [] OTHER        -> {None}
      BY <1>0
<1>2. i \in Questions \cup Clauses \cup {None} /\ (f = "answer" => i \in Questions)
  <2>1. CASE f = "answer"
        BY <1>1, <2>1 DEF Unasked
  <2>2. CASE f = "clause"
        BY <1>1, <2>2
  <2>3. CASE f # "answer" /\ f # "clause"
        BY <1>1, <2>3
  <2> QED
        BY <2>1, <2>2, <2>3
<1> DEFINE a == IF f = "answer" THEN session.answered ELSE {}
           c == IF f = "clause" THEN session.content ELSE NoContent
           R == [form |-> f, item |-> i, answered |-> a, content |-> c]
<1>3. a \in SUBSET Questions /\ c \in Content
      BY NoContentIs DEF Session
<1>4. requests' = [requests EXCEPT ![r] = R]
      BY <1>1
<1> HIDE DEF a, c
<1>5. R \in Request /\ R.form = f /\ R.item = i
      BY <1>2, <1>3 DEF Request
<1> HIDE DEF R
<1>6. requests' \in [Requests -> Request]
      BY <1>4, <1>5
<1>7. \A q \in Requests : requests'[q].form = "answer" => requests'[q].item \in Questions
      BY <1>2, <1>4, <1>5 DEF JobsKnow
<1>8. UNCHANGED <<session, jobs, drafts, nextDraft, notices>>
      BY DEF Receive
<1> QED
    BY <1>6, <1>7, <1>8 DEF JobsKnow, JobIds, OneReviewDraft

LEMMA TypeRequest ==
    ASSUME TypeInv, NEW r \in Requests,
           SubmitIntent(r) \/ LeaveClarify(r) \/ LeaveResearch(r) \/ SubmitStructure(r)
    PROVE  TypeInv'
<1> session \in Session
    BY DEF TypeInv, TypeOK
<1>k. {"clarify", "research", "structure", "draft"} \subseteq Kinds
      BY KindsAre DEF StepKinds
<1>1. CASE SubmitIntent(r)
  <2> DEFINE s == [session EXCEPT !.intent = TRUE]
  <2>1. s \in Session /\ s.review = session.review
        BY DEF Session
  <2>2. Leave(r, "intent", s, "clarify")
        BY <1>1 DEF SubmitIntent
  <2> HIDE DEF s
  <2> QED
        BY <1>k, <2>1, <2>2, TypeLeave
<1>2. CASE LeaveClarify(r)
      BY <1>k, <1>2, TypeLeave DEF LeaveClarify
<1>3. CASE LeaveResearch(r)
      BY <1>k, <1>3, TypeLeave DEF LeaveResearch
<1>4. CASE SubmitStructure(r)
  <2>1. PICK b \in BOOLEAN :
             Leave(r, "outline", [session EXCEPT !.outline = @ + 1, !.blank = b], "draft")
        BY <1>4 DEF SubmitStructure
  <2> DEFINE s == [session EXCEPT !.outline = @ + 1, !.blank = b]
  <2>2. session.outline + 1 \in Nat
        BY DEF Session
  <2>3. s = [session EXCEPT !.outline = session.outline + 1, !.blank = b]
        BY DEF Session
  <2>4. s \in Session /\ s.review = session.review
        BY <2>2, <2>3 DEF Session
  <2>5. Leave(r, "outline", s, "draft")
        BY <2>1
  <2> HIDE DEF s
  <2> QED
        BY <1>k, <2>4, <2>5, TypeLeave
<1> QED
    BY <1>1, <1>2, <1>3, <1>4

LEMMA TypeWrite ==
    ASSUME TypeInv, NEW r \in Requests,
           LeaveQuietly(r) \/ Answer(r) \/ SaveClause(r) \/ Export(r) \/ Notify(r)
    PROVE  TypeInv'
<1> session \in Session /\ requests \in [Requests -> Request] /\ notices \in Nat
    BY DEF TypeInv, TypeOK
<1>1. CASE LeaveQuietly(r)
  <2>1. session' \in Session /\ session'.review = session.review
        BY <1>1, AdvancedIs DEF LeaveQuietly, Session
  <2> QED
        BY <1>1, <2>1, IdleIs, TypeQuiet DEF LeaveQuietly, Respond
<1>2. CASE Answer(r)
  <2>1. requests[r].answered \cup {requests[r].item} \in SUBSET Questions
        BY <1>2 DEF Answer, TypeInv, JobsKnow, Request
  <2>2. session' \in Session /\ session'.review = session.review
        BY <1>2, <2>1 DEF Answer, Session
  <2> QED
        BY <1>2, <2>2, IdleIs, TypeQuiet DEF Answer, Respond
<1>3. CASE SaveClause(r)
  <2> DEFINE C == [requests[r].content EXCEPT !.text[requests[r].item] = "edited"]
  <2>1. C \in Content
        BY ContentIs DEF Request, Texts
  <2>2. session' = [session EXCEPT !.content = C]
        BY <1>3 DEF SaveClause
  <2> HIDE DEF C
  <2>3. session' \in Session /\ session'.review = session.review
        BY <2>1, <2>2 DEF Session
  <2> QED
        BY <1>3, <2>3, IdleIs, TypeQuiet DEF SaveClause, Respond
<1>4. CASE Export(r)
  <2>1. session' \in Session /\ session'.review = session.review
        BY <1>4 DEF Export, Session
  <2>2. PICK R : R \in {Idle, [Idle EXCEPT !.form = "notify"]} /\ requests' = [requests EXCEPT ![r] = R]
        BY <1>4 DEF Export
  <2>3. R \in Request /\ R.form # "answer"
        BY <2>2, IdleIs DEF Request
  <2> QED
        BY <1>4, <2>1, <2>2, <2>3, TypeQuiet DEF Export
<1>5. CASE Notify(r)
  <2>1. notices' \in Nat
        BY <1>5 DEF Notify
  <2>2. session' = session
        BY <1>5 DEF Notify
  <2> QED
        BY <1>5, <2>1, <2>2, IdleIs, TypeQuiet DEF Notify, Respond
<1> QED
    BY <1>1, <1>2, <1>3, <1>4, <1>5

LEMMA TypeReview ==
    ASSUME TypeInv, \/ \E r \in Requests : TriggerReview(r)
                    \/ \E d \in drafts : DeleteDraft(d)
                    \/ \E c \in Clauses : Regenerate(c)
    PROVE  TypeInv'
<1> USE DEF TypeInv, TypeOK
<1>1. CASE \E r \in Requests : TriggerReview(r)
  <2>1. PICK r \in Requests : TriggerReview(r)
        BY <1>1
  <2>2. requests' = [requests EXCEPT ![r] = Idle] /\ UNCHANGED <<jobs, notices>>
        BY <2>1 DEF TriggerReview, Respond
  <2>3. requests' \in [Requests -> Request]
        BY <2>2, IdleIs
  <2>4. \A q \in Requests : requests'[q].form = "answer" => requests'[q].item \in Questions
        BY <2>2, IdleIs DEF JobsKnow
  <2>5. CASE session.review # None
    <3>1. UNCHANGED <<session, drafts, nextDraft>>
          BY <2>1, <2>5 DEF TriggerReview
    <3> QED
          BY <2>2, <2>3, <2>4, <3>1 DEF JobsKnow, JobIds, OneReviewDraft
  <2>6. CASE session.review = None
    <3>1. /\ nextDraft <= MaxDrafts /\ drafts' = drafts \cup {nextDraft}
          /\ nextDraft' = nextDraft + 1 /\ session' = [session EXCEPT !.review = nextDraft]
          BY <2>1, <2>6 DEF TriggerReview
    <3>2. drafts = {}
          BY <2>6 DEF OneReviewDraft, None
    <3>3. session' \in Session /\ session'.review = nextDraft
          BY <3>1 DEF Session
    <3>4. nextDraft' \in 1 .. (MaxDrafts + 1) /\ drafts' = {nextDraft} /\ drafts' \subseteq 1 .. MaxDrafts
          BY <3>1, <3>2, SizesAssumption
    <3> QED
          BY <2>2, <2>3, <2>4, <3>1, <3>3, <3>4 DEF JobsKnow, JobIds, OneReviewDraft
  <2> QED
        BY <2>5, <2>6
<1>2. CASE \E d \in drafts : DeleteDraft(d)
  <2>1. PICK d \in drafts : DeleteDraft(d)
        BY <1>2
  <2>2. session.review = d /\ d # None
        BY DEF OneReviewDraft, None
  <2>3. session' = [session EXCEPT !.review = None] /\ drafts' = drafts \ {d}
        /\ UNCHANGED <<jobs, requests, nextDraft, notices>>
        BY <2>1, <2>2 DEF DeleteDraft
  <2>4. session' \in Session /\ session'.review = None /\ drafts' = {}
        BY <2>2, <2>3 DEF Session, None, OneReviewDraft
  <2> QED
        BY <2>3, <2>4 DEF JobsKnow, JobIds, OneReviewDraft
<1>3. CASE \E c \in Clauses : Regenerate(c)
  <2>1. PICK c \in Clauses : Regenerate(c)
        BY <1>3
  <2>2. jobs' \in Enqueued("regenerate", c) /\ UNCHANGED <<session, requests, drafts, nextDraft, notices>>
        BY <2>1 DEF Regenerate
  <2>3. jobs' \in Seq(Job) /\ PendingKnow'
        BY <2>2, KindsAre, TypeEnqueued
  <2> QED
        BY <2>2, <2>3 DEF JobsKnow, PendingKnow, OneReviewDraft
<1> QED
    BY <1>1, <1>2, <1>3

LEMMA TypeJobs ==
    ASSUME TypeInv, NEW j \in JobIds, StartJob(j) \/ FinishJob(j) \/ FailJob(j)
    PROVE  TypeInv'
<1> session \in Session /\ TypeOK /\ jobs[j] \in Job
    BY JobAt DEF TypeInv, TypeOK
<1>1. CASE StartJob(j)
  <2>1. jobs[j].attempts < MaxAttempts
        BY <1>1 DEF StartJob, TypeInv, JobsKnow
  <2>2. UNCHANGED <<session, requests, drafts, nextDraft, notices>>
        BY <1>1 DEF StartJob
  <2>3. /\ jobs' \in Seq(Job)
        /\ JobIds' = JobIds
        /\ \A i \in JobIds : i # j => jobs'[i] = jobs[i]
        /\ jobs'[j].status = "running"
        BY <1>1, <2>1, Started
  <2> QED
        BY <2>2, <2>3, TypeJob
<1>2. CASE FinishJob(j) \/ FailJob(j)
  <2>1. PICK status \in {"pending", "success", "failed"} :
             jobs' = Settled(j, status) /\ (status = "pending" => jobs[j].attempts < MaxAttempts)
        BY <1>2 DEF FinishJob, FailJob, Retried
  <2>2. /\ jobs' \in Seq(Job)
        /\ JobIds' = JobIds
        /\ \A i \in JobIds : i # j => jobs'[i] = jobs[i]
        /\ jobs'[j].attempts = jobs[j].attempts
        /\ jobs'[j].status = status
        BY <2>1, SettledIs
  <2>3. session' \in Session /\ session'.review = session.review
    <3>1. CASE FinishJob(j)
          BY <3>1, FilledIs DEF FinishJob
    <3>2. CASE FailJob(j)
          BY <3>2 DEF FailJob, Session
    <3> QED
          BY <1>2, <3>1, <3>2
  <2>4. UNCHANGED <<requests, drafts, nextDraft, notices>>
        BY <1>2 DEF FinishJob, FailJob
  <2> QED
        BY <2>1, <2>2, <2>3, <2>4, TypeJob
<1> QED
    BY <1>1, <1>2

LEMMA TypeNext == TypeInv /\ [Next]_vars => TypeInv'
<1> SUFFICES ASSUME TypeInv, [Next]_vars PROVE TypeInv'
    OBVIOUS
<1>1. CASE UNCHANGED vars
      BY <1>1 DEF vars, TypeInv, TypeOK, JobsKnow, JobIds, OneReviewDraft
<1>2. CASE \E r \in Requests : Receive(r)
      BY <1>2, TypeReceive
<1>3. CASE \E r \in Requests :
               SubmitIntent(r) \/ LeaveClarify(r) \/ LeaveResearch(r) \/ SubmitStructure(r)
      BY <1>3, TypeRequest
<1>4. CASE \E r \in Requests :
               LeaveQuietly(r) \/ Answer(r) \/ SaveClause(r) \/ Export(r) \/ Notify(r)
      BY <1>4, TypeWrite
<1>5. CASE \/ \E r \in Requests : TriggerReview(r)
           \/ \E d \in drafts : DeleteDraft(d)
           \/ \E c \in Clauses : Regenerate(c)
      BY <1>5, TypeReview
<1>6. CASE JobStep
      BY <1>6, TypeJobs DEF JobStep, JobIds
<1> QED
    BY <1>1, <1>2, <1>3, <1>4, <1>5, <1>6 DEF Next

-----------------------------------------------------------------------------
(* A step has its job *)

LEMMA StepsAre == \A k \in StepKinds : StepOf(k) \in 2 .. 5
BY DEF StepKinds, StepOf

LEMMA SessionIs ==
    ASSUME TypeInv
    PROVE  session \in Session /\ session.step \in 1 .. 7
BY DEF TypeInv, TypeOK, Session, Steps

LEMMA SameOf ==
    ASSUME JobIds' = JobIds, \A j \in JobIds : jobs'[j].kind = jobs[j].kind, NEW k
    PROVE  Of(k)' = Of(k)
BY DEF Of

LEMMA JobStays ==
    ASSUME NEW k, JobIs(k), Of(k)' = Of(k), Done(k)' <=> Done(k),
           \A j \in Of(k) : jobs'[j].status = "success" <=> jobs[j].status = "success",
           session.step >= StepOf(k) <=> session'.step >= StepOf(k)
    PROVE  JobIs(k)'
BY DEF JobIs

LEMMA StepJobsStay ==
    ASSUME StepJobs, session.step \in 1 .. 7, session'.step \in 1 .. 7,
           \A k \in StepKinds : /\ Of(k)' = Of(k)
                                /\ \A j \in Of(k) : jobs'[j].status = "success" <=> jobs[j].status = "success"
                                /\ Done(k)' <=> Done(k),
           session'.step # session.step => session.step >= 5 /\ session'.step >= 5
    PROVE  StepJobs'
<1> SUFFICES ASSUME NEW k \in StepKinds PROVE JobIs(k)'
    BY DEF StepJobs
<1>1. JobIs(k) /\ StepOf(k) \in 2 .. 5
      BY StepsAre DEF StepJobs
<1>2. session.step >= StepOf(k) <=> session'.step >= StepOf(k)
      BY <1>1
<1> QED
    BY <1>1, <1>2, JobStays

\* A step is reached with its job, or without one when the enqueue has failed.
LEMMA JobCame ==
    ASSUME NEW k \in StepKinds, JobIs(k), session.step \in 1 .. 7, session.step + 1 = StepOf(k),
           session'.step = StepOf(k), Done(k)' <=> Done(k),
           \/ Of(k)' = Of(k) /\ "enqueue" \in Faults
           \/ \E j : Of(k)' = Of(k) \cup {j} /\ jobs'[j].status = "pending"
    PROVE  JobIs(k)'
<1>1. StepOf(k) \in 2 .. 5
      BY StepsAre
<1>2. Of(k) = {} /\ ~Done(k)
      BY <1>1 DEF JobIs
<1> QED
    BY <1>1, <1>2 DEF JobIs

\* A step's job brings its result.
LEMMA JobDone ==
    ASSUME NEW k \in StepKinds, JobIs(k), Of(k)' = Of(k), NEW j \in Of(k),
           jobs'[j].status = "success", Done(k)', session'.step = session.step
    PROVE  JobIs(k)'
BY DEF JobIs

LEMMA EndsStay ==
    ASSUME EndsHold, \A k \in StepKinds : /\ Of(k)' = Of(k)
                                /\ \A j \in Of(k) : jobs[j].status = "failed" => jobs'[j].status = "failed",
           session'.step = session.step, session'.status = session.status,
           ~session'.asked => session'.answered = {}
    PROVE  EndsHold'
BY DEF EndsHold

-----------------------------------------------------------------------------
(* What has been read is still so *)

LEMMA NoClauses ==
    ASSUME ReadsHold, session.content.outline = None
    PROVE  Of("regenerate") = {} /\ \A r \in Requests : requests[r].form # "clause"
BY DEF ReadsHold

LEMMA NoDraftJob ==
    ASSUME SessionInv, session.step <= 4
    PROVE  /\ Of("draft") = {} /\ Of("regenerate") = {}
           /\ \A r \in Requests : requests[r].form # "clause"
           /\ session.content.outline = None
<1>1. JobIs("draft") /\ StepOf("draft") = 5 /\ (Done("draft") <=> session.content.outline # None)
      BY DEF SessionInv, StepJobs, StepKinds, StepOf, Done
<1>2. session.step \in 1 .. 7
      BY SessionIs DEF SessionInv
<1>3. Of("draft") = {} /\ session.content.outline = None
      BY <1>1, <1>2 DEF JobIs
<1> QED
    BY <1>3, NoClauses DEF SessionInv

\* What was read stays so while the outline does, and while requests only end.
LEMMA ReadsStay ==
    ASSUME ReadsHold, session'.outline = session.outline,
           session.content.outline # None => session'.content.outline # None,
           \A j \in Of("draft")' : j \in Of("draft") /\ jobs'[j].outline \in {None, jobs[j].outline},
           \A j \in Of("regenerate")' :
              /\ session.content.outline # None
              /\ jobs'[j].status = "running" =>
                    j \in Of("regenerate") /\ jobs[j].status = "running"
                       /\ jobs'[j].content = jobs[j].content,
           \A r \in Requests : requests'[r].form = "clause" => requests'[r] = requests[r]
    PROVE  ReadsHold'
<1>1. \A j \in Of("draft")' : jobs'[j].outline \in {None, session'.outline}
      BY DEF ReadsHold
<1>2. \A j \in Of("regenerate")' :
          /\ session'.content.outline # None
          /\ jobs'[j].status = "running" => jobs'[j].content.outline = session'.outline
      BY DEF ReadsHold
<1>3. \A r \in Requests : requests'[r].form = "clause" =>
          session'.content.outline # None /\ requests'[r].content.outline = session'.outline
      BY DEF ReadsHold
<1> QED
    BY <1>1, <1>2, <1>3 DEF ReadsHold, None

\* Nothing was read of an outline that is written before there are clauses.
LEMMA NothingRead ==
    ASSUME \A j \in Of("draft")' : jobs'[j].outline = None, Of("regenerate")' = {},
           \A r \in Requests : requests'[r].form # "clause"
    PROVE  ReadsHold'
BY DEF ReadsHold

-----------------------------------------------------------------------------
(* The forms that come alone *)

LEMMA FormsStay ==
    ASSUME FormsHold, TypeInv, session'.step \in 1 .. 7, session.step <= session'.step,
           \A r \in Requests : requests'[r] = requests[r] \/ requests'[r].form = "none",
           notices' = notices,
           \A r \in Requests : requests'[r].form \in Early =>
              session'.step = session.step /\ (~Waiting => ~Waiting') /\ session'.answered = session.answered
    PROVE  FormsHold'
<1> session.step \in 1 .. 7
    BY SessionIs
<1>1. \A r \in Requests : requests'[r].form \in Forms => session'.step >= Page[requests'[r].form]
  <2> SUFFICES ASSUME NEW r \in Requests, requests'[r].form \in Forms
               PROVE  session'.step >= Page[requests'[r].form]
      OBVIOUS
  <2>1. "none" \notin Forms
        BY DEF Forms, Page
  <2>2. requests'[r] = requests[r]
        BY <2>1
  <2>3. Page[requests[r].form] \in 1 .. 7
        BY <2>2 DEF Forms, Page
  <2> QED
        BY <2>2, <2>3 DEF FormsHold
<1>2. \A r \in Requests : requests'[r].form \in Early =>
          /\ session'.step = Page[requests'[r].form] /\ ~Waiting'
          /\ \A q \in Requests : requests'[q].form # "none" => q = r
          /\ requests'[r].form = "answer" => requests'[r].answered = session'.answered
  <2> SUFFICES ASSUME NEW r \in Requests, requests'[r].form \in Early
               PROVE  /\ session'.step = Page[requests'[r].form] /\ ~Waiting'
                      /\ \A q \in Requests : requests'[q].form # "none" => q = r
                      /\ requests'[r].form = "answer" => requests'[r].answered = session'.answered
      OBVIOUS
  <2>1. requests'[r] = requests[r]
        BY DEF Early
  <2> QED
        BY <2>1 DEF FormsHold
<1>3. \A r \in Requests : requests'[r].form \in Closing =>
          /\ session'.step = 7
          /\ \A q \in Requests : requests'[q].form \in Closing => q = r
          /\ requests'[r].form = "notify" => notices' = 0
  <2> SUFFICES ASSUME NEW r \in Requests, requests'[r].form \in Closing
               PROVE  /\ session'.step = 7
                      /\ \A q \in Requests : requests'[q].form \in Closing => q = r
                      /\ requests'[r].form = "notify" => notices' = 0
      OBVIOUS
  <2>1. "none" \notin Closing
        BY DEF Closing
  <2>2. requests'[r] = requests[r]
        BY <2>1
  <2>3. session.step = 7
        BY <2>2 DEF FormsHold
  <2> QED
        BY <2>1, <2>2, <2>3 DEF FormsHold
<1> QED
    BY <1>1, <1>2, <1>3 DEF FormsHold

LEMMA NoForms ==
    ASSUME \A r \in Requests : requests'[r].form = "none"
    PROVE  FormsHold'
BY DEF FormsHold, Forms, Page, Early, Closing

LEMMA Responded ==
    ASSUME TypeInv, NEW r \in Requests, requests' = [requests EXCEPT ![r] = Idle]
    PROVE  /\ requests'[r].form = "none"
           /\ \A q \in Requests : q # r => requests'[q] = requests[q]
           /\ \A q \in Requests : requests'[q] = requests[q] \/ requests'[q].form = "none"
BY IdleIs DEF TypeInv, TypeOK

\* An early form is answered: there is no other.
LEMMA EarlyAlone ==
    ASSUME TypeInv, FormsHold, NEW r \in Requests, requests[r].form \in Early,
           requests' = [requests EXCEPT ![r] = Idle]
    PROVE  \A q \in Requests : requests'[q].form = "none"
<1>1. \A q \in Requests : requests[q].form # "none" => q = r
      BY DEF FormsHold
<1>2. /\ requests'[r].form = "none"
      /\ \A q \in Requests : q # r => requests'[q] = requests[q]
      BY Responded
<1> QED
    BY <1>1, <1>2

\* A form that is not an early one is open: none is.
LEMMA NoEarly ==
    ASSUME FormsHold, NEW r \in Requests, requests[r].form \notin Early, requests[r].form # "none"
    PROVE  \A q \in Requests : requests[q].form \notin Early
BY DEF FormsHold

LEMMA WaitingIs ==
    ASSUME NEW k \in StepKinds, session.step = StepOf(k)
    PROVE  Waiting <=> ~Done(k)
<1>1. CASE k = "clarify"
      BY <1>1 DEF StepOf, Waiting, Missing, Done
<1>2. CASE k = "research"
      BY <1>2 DEF StepOf, Waiting, Missing, Done
<1>3. CASE k = "structure"
      BY <1>3 DEF StepOf, Waiting, Missing, Done
<1>4. CASE k = "draft"
      BY <1>4 DEF StepOf, Waiting, Missing, Done
<1> QED
    BY <1>1, <1>2, <1>3, <1>4 DEF StepKinds

\* A session whose page shows a result before the last is active.
LEMMA NotOver ==
    ASSUME SessionInv, session.step < 7, ~Waiting
    PROVE  session.status = "active"
<1> SUFFICES ASSUME session.status # "active" PROVE FALSE
    OBVIOUS
<1>1. session.status = "abandoned"
      BY SessionIs DEF SessionInv, EndsHold, Session
<1>2. PICK k \in StepKinds : session.step = StepOf(k) /\ \E j \in Of(k) : jobs[j].status = "failed"
      BY <1>1 DEF SessionInv, EndsHold
<1>3. ~Done(k)
      BY <1>2 DEF SessionInv, StepJobs, JobIs
<1> QED
    BY <1>2, <1>3, WaitingIs

-----------------------------------------------------------------------------
(* The session holds together: receiving a form *)

LEMMA SessionReceive ==
    ASSUME Orderly, SessionInv, TypeInv', NEW r \in Requests, Receive(r)
    PROVE  SessionInv' /\ Kept
<1>1. session \in Session /\ session.step \in 1 .. 7 /\ requests \in [Requests -> Request]
      BY SessionIs DEF SessionInv, TypeInv, TypeOK
<1>2. PICK f \in Forms : MaySend(f) /\ \E i : requests' = [requests EXCEPT ![r] =
                  [form |-> f, item |-> i,
                   answered |-> IF f = "answer" THEN session.answered ELSE {},
                   content |-> IF f = "clause" THEN session.content ELSE NoContent]]
      BY DEF Receive
<1>3. UNCHANGED <<session, jobs, drafts, nextDraft, notices>> /\ requests[r] = Idle
      BY DEF Receive
<1>4. /\ requests'[r].form = f
      /\ f = "answer" => requests'[r].answered = session.answered
      /\ f = "clause" => requests'[r].content = session.content
      /\ \A q \in Requests : q # r => requests'[q] = requests[q]
      BY <1>1, <1>2
<1>5. session.step >= Page[f] /\ ~Missing(Page[f])
      BY <1>2 DEF MaySend, Shown
<1>6. f \notin {"clause", "drafted", "review", "reviewed"} =>
         session.step = Page[f] /\ \A q \in Requests : requests[q].form = "none"
      BY <1>2 DEF MaySend, Orderly, Open
<1>7. /\ \A k \in StepKinds : Of(k)' = Of(k) /\ (Done(k)' <=> Done(k))
      /\ Of("draft")' = Of("draft") /\ Of("regenerate")' = Of("regenerate")
      /\ Waiting' <=> Waiting
      BY <1>3 DEF Of, JobIds, Done, Waiting, Missing
<1>8. StepJobs'
      BY <1>1, <1>3, <1>7, StepJobsStay DEF SessionInv
<1>9. EndsHold'
      BY <1>3, <1>7, EndsStay DEF SessionInv, EndsHold
<1>10. ReadsHold'
  <2>1. f = "clause" => session.content.outline # None /\ session.content.outline = session.outline
        BY <1>5 DEF Missing, Page, SessionInv, TextMatchesOutline
  <2>2. \A q \in Requests : requests'[q].form = "clause" =>
           session'.content.outline # None /\ requests'[q].content.outline = session'.outline
        BY <2>1, <1>3, <1>4 DEF SessionInv, ReadsHold
  <2> QED
        BY <2>2, <1>3, <1>7 DEF SessionInv, ReadsHold
<1>11. FormsHold'
  <2> USE DEF SessionInv
  <2>1. \A q \in Requests : requests'[q].form \in Forms => session'.step >= Page[requests'[q].form]
        BY <1>3, <1>4, <1>5 DEF FormsHold
  <2>2. \A q \in Requests : requests'[q].form \in Early => ~(\E p \in Requests : requests[p].form \in Early)
    <3> SUFFICES ASSUME NEW q \in Requests, requests'[q].form \in Early,
                        NEW p \in Requests, requests[p].form \in Early
                 PROVE  FALSE
        OBVIOUS
    <3>1. requests[p].form # "none" /\ p # r
          BY <1>3, IdleIs DEF Early
    <3>2. session.step = Page[requests[p].form] /\ Page[requests[p].form] <= 4
          BY DEF FormsHold, Early, Page
    <3>3. f \in {"clause", "drafted", "review", "reviewed"}
          BY <1>6, <3>1
    <3>4. Page[f] >= 5
          BY <3>3 DEF Page
    <3>5. Page[f] \in Nat
          BY <3>3 DEF Page
    <3> QED
          BY <1>1, <1>5, <3>2, <3>4, <3>5
  <2>3. \A q \in Requests : requests[q].form \in Early => session.step <= 4
        BY DEF FormsHold, Early, Page
  <2>4. f \in {"clause", "drafted", "review", "reviewed"} => session.step >= 5
        BY <1>1, <1>5 DEF Page
  <2>5. \A q \in Requests : requests'[q].form \in Early => q = r /\ f \in Early
    <3> SUFFICES ASSUME NEW q \in Requests, requests'[q].form \in Early, q # r PROVE FALSE
        BY <1>4
    <3>1. requests[q].form \in Early
          BY <1>4
    <3> QED
          BY <2>2, <3>1
  <2>6. f \in Early => /\ session.step = Page[f] /\ ~Waiting
                       /\ \A q \in Requests : requests'[q].form # "none" => q = r
        BY <1>4, <1>5, <1>6 DEF Early, Waiting
  <2>7. \A q \in Requests : requests'[q].form \in Early =>
          /\ session'.step = Page[requests'[q].form] /\ ~Waiting'
          /\ \A p \in Requests : requests'[p].form # "none" => p = q
          /\ requests'[q].form = "answer" => requests'[q].answered = session'.answered
        BY <2>5, <2>6, <1>3, <1>4, <1>7
  <2>8. \A q \in Requests : requests'[q].form \in Closing =>
          /\ session'.step = 7
          /\ \A p \in Requests : requests'[p].form \in Closing => p = q
          /\ requests'[q].form = "notify" => notices' = 0
    <3>1. f # "notify"
          BY DEF Forms, Page
    <3>2. CASE f = "export"
      <4>1. session.step = 7 /\ \A q \in Requests : requests[q].form = "none"
            BY <3>2, <1>6 DEF Page
      <4>2. \A q \in Requests : requests'[q].form \in Closing => q = r
            BY <4>1, <1>4 DEF Closing
      <4> QED
            BY <4>1, <4>2, <1>3, <1>4, <3>1
    <3>3. CASE f # "export"
      <4>1. \A q \in Requests : requests'[q].form \in Closing => q # r /\ requests'[q] = requests[q]
            BY <1>4, <3>1, <3>3 DEF Closing
      <4> QED
            BY <4>1, <1>3 DEF FormsHold
    <3> QED
          BY <3>2, <3>3
  <2> QED
        BY <2>1, <2>7, <2>8 DEF FormsHold
<1>12. (PrerequisitesMet /\ TextMatchesOutline /\ OneNotice)' /\ Kept
      BY <1>3 DEF SessionInv, PrerequisitesMet, TextMatchesOutline, OneNotice, Kept
<1> QED
    BY <1>8, <1>9, <1>10, <1>11, <1>12 DEF SessionInv

-----------------------------------------------------------------------------
(* The session holds together: leaving a step *)

\* The result that the page shows has been earned when the step is left.
LEMMA Earned ==
    ASSUME SessionInv, NEW s \in Session, CanLeave(s), s.step = session.step, s.step \in 1 .. 4,
           s.intent \/ s.intent = session.intent, s.answered = session.answered,
           s.research = session.research, s.content = session.content,
           session' = [s EXCEPT !.step = s.step + 1], nextDraft' = nextDraft
    PROVE  PrerequisitesMet'
<1>1. /\ session'.step = session.step + 1 /\ session'.intent = s.intent
      /\ session'.answered = session.answered /\ session'.research = session.research
      /\ session'.outline = s.outline
      BY DEF Session
<1>2. CASE s.step = 1
      BY <1>1, <1>2 DEF CanLeave, PrerequisitesMet
<1>3. CASE s.step = 2
      BY <1>1, <1>3 DEF CanLeave, PrerequisitesMet, SessionInv
<1>4. CASE s.step = 3
      BY <1>1, <1>4 DEF CanLeave, PrerequisitesMet, SessionInv
<1>5. CASE s.step = 4
      BY <1>1, <1>5 DEF CanLeave, PrerequisitesMet, SessionInv
<1> QED
    BY <1>2, <1>3, <1>4, <1>5

LEMMA StepOfInjective == \A k, l \in StepKinds : StepOf(k) = StepOf(l) => k = l
BY DEF StepKinds, StepOf

LEMMA LeaveHolds ==
    ASSUME SessionInv, TypeInv', NEW r \in Requests, NEW form \in Early, NEW k \in StepKinds,
           NEW s \in Session, Leave(r, form, s, k), Page[form] + 1 = StepOf(k), Page[form] \in 1 .. 4,
           s.step = session.step, s.status = session.status, s.asked = session.asked,
           s.answered = session.answered, s.research = session.research,
           s.content = session.content, s.intent \/ s.intent = session.intent,
           s.outline # None <=> session.outline # None
    PROVE  SessionInv' /\ Kept
<1> USE DEF SessionInv
<1>1. session \in Session /\ session.step \in 1 .. 7 /\ jobs \in Seq(Job)
      BY SessionIs DEF TypeInv, TypeOK
<1>2. /\ requests[r].form = form /\ requests' = [requests EXCEPT ![r] = Idle]
      /\ UNCHANGED <<drafts, nextDraft, notices>>
      BY DEF Leave, Respond
<1>3. session.step = Page[form] /\ session.step \in 1 .. 4 /\ ~Waiting
      BY <1>2 DEF FormsHold
<1>4. \A q \in Requests : requests'[q].form = "none"
      BY <1>2, EarlyAlone
<1>5. FormsHold'
      BY <1>4, NoForms
<1>6. Of("draft") = {} /\ Of("regenerate") = {} /\ session.content.outline = None
      BY <1>3, NoDraftJob
<1>7. CASE ~CanLeave(s)
  <2>1. UNCHANGED <<session, jobs, notices, nextDraft>>
        BY <1>2, <1>7 DEF Leave
  <2>2. /\ \A l \in StepKinds : Of(l)' = Of(l) /\ (Done(l)' <=> Done(l))
        /\ Of("draft")' = {} /\ Of("regenerate")' = {}
        BY <1>6, <2>1 DEF Of, JobIds, Done
  <2>3. StepJobs'
        BY <1>1, <2>1, <2>2, StepJobsStay
  <2>4. EndsHold'
        BY <2>1, <2>2, EndsStay DEF EndsHold
  <2>5. ReadsHold'
        BY <1>4, <2>2, NothingRead
  <2>6. (PrerequisitesMet /\ TextMatchesOutline /\ OneNotice)' /\ Kept
        BY <2>1 DEF PrerequisitesMet, TextMatchesOutline, OneNotice, Kept
  <2> QED
        BY <1>5, <2>3, <2>4, <2>5, <2>6
<1>8. CASE CanLeave(s)
  <2>1. session' = [s EXCEPT !.step = s.step + 1] /\ jobs' \in Enqueued(k, None)
        BY <1>8, AdvancedIs DEF Leave
  <2>2. /\ session'.step = session.step + 1 /\ session'.step = StepOf(k)
        /\ session'.status = session.status
        /\ session'.asked = session.asked /\ session'.answered = session.answered
        /\ session'.research = session.research /\ session'.outline = s.outline
        /\ session'.content = session.content
        BY <1>3, <2>1 DEF Session
  <2>3. PrerequisitesMet'
        BY <1>2, <1>3, <1>8, <2>1, Earned
  <2>4. k \in Kinds /\ None \in Clauses \cup {None}
        BY KindsAre
  <2>5. \/ "enqueue" \in Faults /\ jobs' = jobs
        \/ /\ JobIds' = JobIds \cup {Len(jobs) + 1}
           /\ Len(jobs) + 1 \notin JobIds
           /\ \A j \in JobIds : jobs'[j] = jobs[j]
           /\ jobs'[Len(jobs) + 1] = NewJob(k, None)
        BY <1>1, <2>1, <2>4, EnqueuedIs
  <2> DEFINE n == Len(jobs) + 1
  <2>6. \A l : l # k => Of(l)' = Of(l)
    <3> SUFFICES ASSUME NEW l, l # k PROVE Of(l)' = Of(l)
        OBVIOUS
    <3>1. NewJob(k, None).kind # l
          BY <2>4, NewJobIs
    <3> QED
          BY <2>5, <3>1 DEF Of, JobIds
  <2>7. /\ \A j \in Of(k) : jobs'[j] = jobs[j]
        /\ \/ Of(k)' = Of(k) /\ "enqueue" \in Faults
           \/ Of(k)' = Of(k) \cup {n} /\ jobs'[n].status = "pending" /\ jobs'[n].outline = None
    <3>1. NewJob(k, None).kind = k /\ NewJob(k, None).status = "pending" /\ NewJob(k, None).outline = None
          BY <2>4, NewJobIs
    <3> QED
          BY <2>5, <3>1 DEF Of, JobIds
  <2>8. \A l \in StepKinds : Done(l)' <=> Done(l)
        BY <2>2 DEF StepKinds, Done
  <2>9. StepJobs'
    <3> SUFFICES ASSUME NEW l \in StepKinds PROVE JobIs(l)'
        BY DEF StepJobs
    <3>1. JobIs(l)
          BY DEF StepJobs
    <3>2. CASE l = k
      <4>1. \/ Of(k)' = Of(k) /\ "enqueue" \in Faults
            \/ \E j : Of(k)' = Of(k) \cup {j} /\ jobs'[j].status = "pending"
            BY <2>7
      <4>2. session.step + 1 = StepOf(k)
            BY <2>2
      <4> QED
            BY <1>1, <2>2, <2>8, <3>1, <3>2, <4>1, <4>2, JobCame
    <3>3. CASE l # k
      <4>1. session.step >= StepOf(l) <=> session'.step >= StepOf(l)
        <5>1. StepOf(l) # session.step + 1
              BY <2>2, <3>3, StepOfInjective
        <5>2. StepOf(l) \in 2 .. 5
              BY StepsAre
        <5> QED
              BY <1>1, <2>2, <5>1, <5>2
      <4>2. Of(l)' = Of(l) /\ \A j \in Of(l) : jobs'[j] = jobs[j]
            BY <2>5, <2>6, <3>3 DEF Of
      <4> QED
            BY <2>8, <3>1, <4>1, <4>2, JobStays
    <3> QED
          BY <3>2, <3>3
  <2>10. session.status = "active"
         BY <1>3, NotOver
  <2>11. EndsHold'
         BY <2>2, <2>10 DEF EndsHold
  <2>12. ReadsHold'
    <3>1. \A j \in Of("draft")' : jobs'[j].outline = None
          BY <1>6, <2>6, <2>7
    <3>2. Of("regenerate")' = {}
          BY <1>6, <2>6 DEF StepKinds
    <3> QED
          BY <1>4, <3>1, <3>2, NothingRead
  <2>13. (TextMatchesOutline /\ OneNotice)' /\ Kept
         BY <1>2, <1>6, <2>2 DEF TextMatchesOutline, OneNotice, Kept
  <2> QED
        BY <1>5, <2>3, <2>9, <2>11, <2>12, <2>13
<1> QED
    BY <1>7, <1>8

LEMMA SessionLeave ==
    ASSUME SessionInv, TypeInv', NEW r \in Requests,
           SubmitIntent(r) \/ LeaveClarify(r) \/ LeaveResearch(r) \/ SubmitStructure(r)
    PROVE  SessionInv' /\ Kept
<1> session \in Session
    BY SessionIs DEF SessionInv
<1>p. /\ Page["intent"] = 1 /\ Page["clarified"] = 2 /\ Page["researched"] = 3 /\ Page["outline"] = 4
      /\ StepOf("clarify") = 2 /\ StepOf("research") = 3 /\ StepOf("structure") = 4 /\ StepOf("draft") = 5
      /\ {"intent", "clarified", "researched", "outline"} \subseteq Early
      /\ {"clarify", "research", "structure", "draft"} \subseteq StepKinds
      BY DEF Page, StepOf, Early, StepKinds
<1>1. CASE SubmitIntent(r)
  <2> DEFINE s == [session EXCEPT !.intent = TRUE]
  <2>1. /\ s \in Session /\ s.intent
        /\ s.step = session.step /\ s.status = session.status /\ s.asked = session.asked
        /\ s.answered = session.answered /\ s.research = session.research
        /\ s.content = session.content /\ s.outline = session.outline
        BY DEF Session
  <2>2. Leave(r, "intent", s, "clarify")
        BY <1>1 DEF SubmitIntent
  <2> HIDE DEF s
  <2> QED
        BY <1>p, <2>1, <2>2, LeaveHolds
<1>2. CASE LeaveClarify(r)
      BY <1>p, <1>2, LeaveHolds DEF LeaveClarify
<1>3. CASE LeaveResearch(r)
      BY <1>p, <1>3, LeaveHolds DEF LeaveResearch
<1>4. CASE SubmitStructure(r)
  <2>1. PICK b \in BOOLEAN :
             Leave(r, "outline", [session EXCEPT !.outline = @ + 1, !.blank = b], "draft")
        BY <1>4 DEF SubmitStructure
  <2> DEFINE s == [session EXCEPT !.outline = @ + 1, !.blank = b]
  <2>2. session.outline + 1 \in Nat /\ session.outline + 1 # None /\ session.outline # None
    <3>1. session.step = 4 /\ ~Waiting
          BY <1>p, <2>1 DEF Leave, SessionInv, FormsHold
    <3>2. session.outline # None
          BY <3>1 DEF Waiting, Missing
    <3> QED
          BY <3>2 DEF Session, None
  <2>3. s = [session EXCEPT !.outline = session.outline + 1, !.blank = b]
        BY DEF Session
  <2>4. /\ s \in Session /\ s.intent = session.intent
        /\ s.step = session.step /\ s.status = session.status /\ s.asked = session.asked
        /\ s.answered = session.answered /\ s.research = session.research
        /\ s.content = session.content /\ s.outline = session.outline + 1
        BY <2>2, <2>3 DEF Session
  <2>5. Leave(r, "outline", s, "draft")
        BY <2>1
  <2>6. s.outline # None <=> session.outline # None
        BY <2>2, <2>4
  <2> HIDE DEF s
  <2> QED
        BY <1>p, <2>4, <2>5, <2>6, LeaveHolds
<1> QED
    BY <1>1, <1>2, <1>3, <1>4

-----------------------------------------------------------------------------
(* The session holds together: the other forms *)

\* A form is answered; the jobs, and all that the steps promise, stay as they are.
LEMMA WriteHolds ==
    ASSUME SessionInv, TypeInv', NEW r \in Requests, requests[r].form # "none",
           requests' = [requests EXCEPT ![r] = Idle], UNCHANGED <<jobs, notices>>,
           session'.step = session.step, session'.status = session.status,
           session'.intent = session.intent, session'.asked = session.asked,
           session'.research = session.research, session'.outline = session.outline,
           session'.content.outline = session.content.outline,
           nextDraft <= nextDraft',
           \/ session'.answered = session.answered
           \/ session.step = 2 /\ ~Waiting /\ session.answered \subseteq session'.answered
                /\ requests[r].form \in Early
    PROVE  SessionInv' /\ Kept
<1> USE DEF SessionInv
<1>1. session \in Session /\ session.step \in 1 .. 7
      BY SessionIs
<1>2. /\ \A k \in StepKinds : Of(k)' = Of(k) /\ (Done(k)' <=> Done(k))
      /\ Of("draft")' = Of("draft") /\ Of("regenerate")' = Of("regenerate")
      /\ Waiting' <=> Waiting
      BY DEF Of, JobIds, Done, StepKinds, Waiting, Missing
<1>3. /\ \A q \in Requests : requests'[q] = requests[q] \/ requests'[q].form = "none"
      /\ \A q \in Requests : requests'[q].form = "clause" => requests'[q] = requests[q]
      BY Responded
<1>4. StepJobs'
      BY <1>1, <1>2, StepJobsStay
<1>5. EndsHold'
  <2>1. ~session'.asked => session'.answered = {}
        BY DEF EndsHold, Waiting, Missing
  <2> QED
        BY <1>2, <2>1, EndsStay
<1>6. ReadsHold'
  <2>1. \A j \in Of("regenerate")' : session.content.outline # None
        BY <1>2 DEF ReadsHold
  <2> QED
        BY <1>2, <1>3, <2>1, ReadsStay
<1>7. FormsHold'
  <2>1. CASE session'.answered = session.answered
        BY <1>1, <1>2, <1>3, <2>1, FormsStay
  <2>2. CASE requests[r].form \in Early
        BY <2>2, EarlyAlone, NoForms
  <2> QED
        BY <2>1, <2>2
<1>8. PrerequisitesMet'
  <2>1. session.step >= 7 => nextDraft' > 1
        BY DEF PrerequisitesMet, TypeInv, TypeOK
  <2> QED
        BY <2>1 DEF PrerequisitesMet
<1>9. (TextMatchesOutline /\ OneNotice)' /\ Kept
      BY DEF TextMatchesOutline, OneNotice, Kept
<1> QED
    BY <1>4, <1>5, <1>6, <1>7, <1>8, <1>9

LEMMA SessionQuiet ==
    ASSUME SessionInv, TypeInv', NEW r \in Requests, LeaveQuietly(r)
    PROVE  SessionInv' /\ Kept
<1> USE DEF SessionInv
<1>1. session \in Session /\ session.step \in 1 .. 7
      BY SessionIs
<1>2. /\ requests[r].form \in {"drafted", "reviewed"}
      /\ requests' = [requests EXCEPT ![r] = Idle]
      /\ UNCHANGED <<jobs, drafts, nextDraft, notices>>
      BY DEF LeaveQuietly, Respond
<1>3. requests[r].form \in Forms /\ requests[r].form \notin Early /\ requests[r].form # "none"
      BY <1>2 DEF Forms, Page, Early
<1>4. session.step >= 5
      BY <1>1, <1>2, <1>3 DEF FormsHold, Page
<1>5. CASE ~CanLeave(session)
  <2>1. session' = session
        BY <1>5 DEF LeaveQuietly
  <2>2. nextDraft <= nextDraft'
        BY <1>2 DEF TypeInv, TypeOK
  <2> QED
        BY <1>2, <1>3, <2>1, <2>2, WriteHolds
<1>6. CASE CanLeave(session)
  <2>1. session' = [session EXCEPT !.step = session.step + 1] /\ session.step \in {5, 6}
        BY <1>1, <1>4, <1>6, AdvancedIs DEF LeaveQuietly
  <2>2. /\ session'.step = session.step + 1
        /\ session'.status = session.status /\ session'.intent = session.intent
        /\ session'.asked = session.asked /\ session'.answered = session.answered
        /\ session'.research = session.research /\ session'.outline = session.outline
        /\ session'.content = session.content
        BY <1>1, <2>1 DEF Session
  <2>3. ~Waiting
        BY <1>6, <2>1 DEF Waiting, Missing, CanLeave
  <2>4. session.status = "active"
        BY <2>1, <2>3, NotOver
  <2>5. /\ \A k \in StepKinds : Of(k)' = Of(k) /\ (Done(k)' <=> Done(k))
        /\ Of("draft")' = Of("draft") /\ Of("regenerate")' = Of("regenerate")
        BY <1>2, <2>2 DEF Of, JobIds, Done, StepKinds
  <2>6. StepJobs'
        BY <1>1, <1>2, <2>1, <2>2, <2>5, StepJobsStay
  <2>7. EndsHold'
        BY <2>2, <2>4 DEF EndsHold
  <2>8. /\ \A q \in Requests : requests'[q] = requests[q] \/ requests'[q].form = "none"
        /\ \A q \in Requests : requests'[q].form = "clause" => requests'[q] = requests[q]
        /\ \A q \in Requests : requests'[q].form \notin Early
    <3>1. \A q \in Requests : requests'[q] = requests[q] \/ requests'[q].form = "none"
          BY <1>2, Responded
    <3>2. \A q \in Requests : requests[q].form \notin Early
          BY <1>3, NoEarly
    <3> QED
          BY <3>1, <3>2 DEF Early
  <2>9. ReadsHold'
    <3>1. \A j \in Of("regenerate")' : session.content.outline # None
          BY <2>5 DEF ReadsHold
    <3> QED
          BY <1>2, <2>2, <2>5, <2>8, <3>1, ReadsStay
  <2>10. FormsHold'
         BY <1>2, <2>1, <2>2, <2>8, FormsStay
  <2>11. PrerequisitesMet'
    <3>1. CASE session.step = 5
          BY <1>6, <2>2, <3>1 DEF PrerequisitesMet, CanLeave
    <3>2. CASE session.step = 6
      <4>1. session.review # None
            BY <1>6, <3>2 DEF CanLeave
      <4>2. session.review \in drafts /\ nextDraft' > session.review /\ session.review >= 1
            <5>1. session.review \in drafts
              BY <4>1 DEF TypeInv, TypeOK
        <5>2. session.review \in 1 .. MaxDrafts /\ session.review < nextDraft
              BY <5>1 DEF TypeInv, TypeOK, JobsKnow
        <5> QED
              BY <1>2, <5>1, <5>2, SizesAssumption
      <4>3. nextDraft' > 1
            BY <1>1, <1>2, <4>2 DEF Session, TypeInv, TypeOK
      <4> QED
            BY <2>2, <3>2, <4>3 DEF PrerequisitesMet
    <3> QED
          BY <2>1, <3>1, <3>2
  <2>12. (TextMatchesOutline /\ OneNotice)' /\ Kept
         BY <1>2, <2>2 DEF TextMatchesOutline, OneNotice, Kept
  <2> QED
        BY <2>6, <2>7, <2>9, <2>10, <2>11, <2>12
<1> QED
    BY <1>5, <1>6

LEMMA SessionWrite ==
    ASSUME SessionInv, TypeInv', NEW r \in Requests, Answer(r) \/ SaveClause(r) \/ TriggerReview(r)
    PROVE  SessionInv' /\ Kept
<1> USE DEF SessionInv
<1>1. session \in Session /\ requests[r] \in Request /\ nextDraft \in Nat
      BY SessionIs DEF TypeInv, TypeOK
<1>2. CASE Answer(r)
  <2>1. requests[r].form = "answer" /\ requests[r].form \in Early
        BY <1>2 DEF Answer, Early
  <2>2. session.step = 2 /\ ~Waiting /\ requests[r].answered = session.answered
        BY <2>1 DEF FormsHold, Page
  <2>3. session' = [session EXCEPT !.answered = session.answered \cup {requests[r].item}]
        BY <1>2, <2>2 DEF Answer
  <2>4. /\ requests' = [requests EXCEPT ![r] = Idle] /\ UNCHANGED <<jobs, notices>>
        /\ nextDraft <= nextDraft' /\ requests[r].form # "none"
        BY <1>1, <1>2, <2>1 DEF Answer, Respond
  <2>5. /\ session'.step = session.step /\ session'.status = session.status
        /\ session'.intent = session.intent /\ session'.asked = session.asked
        /\ session'.research = session.research /\ session'.outline = session.outline
        /\ session'.content = session.content
        /\ session.answered \subseteq session'.answered
        BY <1>1, <2>3 DEF Session
  <2> QED
        BY <2>1, <2>2, <2>4, <2>5, WriteHolds
<1>3. CASE SaveClause(r)
  <2> DEFINE C == [requests[r].content EXCEPT !.text[requests[r].item] = "edited"]
  <2>1. C \in Content /\ C.outline = requests[r].content.outline
        BY <1>1, ContentIs DEF Request, Texts
  <2>2. session' = [session EXCEPT !.content = C]
        BY <1>3 DEF SaveClause
  <2> HIDE DEF C
  <2>3. requests[r].form = "clause"
        BY <1>3 DEF SaveClause
  <2>4. C.outline = session.content.outline
        BY <2>1, <2>3 DEF ReadsHold, TextMatchesOutline
  <2>5. /\ requests' = [requests EXCEPT ![r] = Idle] /\ UNCHANGED <<jobs, notices>>
        /\ nextDraft <= nextDraft' /\ requests[r].form # "none"
        BY <1>1, <1>3, <2>3 DEF SaveClause, Respond
  <2>6. /\ session'.step = session.step /\ session'.status = session.status
        /\ session'.intent = session.intent /\ session'.asked = session.asked
        /\ session'.research = session.research /\ session'.outline = session.outline
        /\ session'.content.outline = session.content.outline
        /\ session'.answered = session.answered
        BY <1>1, <2>2, <2>4 DEF Session
  <2> QED
        BY <2>5, <2>6, WriteHolds
<1>4. CASE TriggerReview(r)
  <2>1. /\ requests' = [requests EXCEPT ![r] = Idle] /\ UNCHANGED <<jobs, notices>>
        /\ requests[r].form # "none"
        BY <1>4 DEF TriggerReview, Respond
  <2>2. nextDraft <= nextDraft' /\ (session' = session \/ session' = [session EXCEPT !.review = nextDraft])
        BY <1>1, <1>4 DEF TriggerReview
  <2>3. /\ session'.step = session.step /\ session'.status = session.status
        /\ session'.intent = session.intent /\ session'.asked = session.asked
        /\ session'.research = session.research /\ session'.outline = session.outline
        /\ session'.content = session.content
        /\ session'.answered = session.answered
        BY <1>1, <2>2 DEF Session
  <2> QED
        BY <2>1, <2>2, <2>3, WriteHolds
<1> QED
    BY <1>2, <1>3, <1>4

\* The jobs and the requests stay, and of the session only the reference to the draft changes.
LEMMA SessionDelete ==
    ASSUME SessionInv, TypeInv', NEW d \in drafts, DeleteDraft(d)
    PROVE  SessionInv' /\ Kept
<1> USE DEF SessionInv
<1>1. session \in Session /\ session.step \in 1 .. 7
      BY SessionIs
<1>2. UNCHANGED <<jobs, requests, nextDraft, notices>>
      BY DEF DeleteDraft
<1>3. /\ session'.step = session.step /\ session'.status = session.status
      /\ session'.intent = session.intent /\ session'.asked = session.asked
      /\ session'.research = session.research /\ session'.outline = session.outline
      /\ session'.content = session.content
      /\ session'.answered = session.answered
      BY <1>1 DEF DeleteDraft, Session
<1>4. /\ \A k \in StepKinds : Of(k)' = Of(k) /\ (Done(k)' <=> Done(k))
      /\ Of("draft")' = Of("draft") /\ Of("regenerate")' = Of("regenerate")
      /\ Waiting' <=> Waiting
      BY <1>2, <1>3 DEF Of, JobIds, Done, StepKinds, Waiting, Missing
<1>5. StepJobs'
      BY <1>1, <1>2, <1>3, <1>4, StepJobsStay
<1>6. EndsHold'
      BY <1>2, <1>3, <1>4, EndsStay DEF EndsHold
<1>7. ReadsHold'
      BY <1>2, <1>3, <1>4 DEF ReadsHold
<1>8. FormsHold'
      BY <1>1, <1>2, <1>3, <1>4, FormsStay
<1>9. (PrerequisitesMet /\ TextMatchesOutline /\ OneNotice)' /\ Kept
      BY <1>2, <1>3 DEF PrerequisitesMet, TextMatchesOutline, OneNotice, Kept
<1> QED
    BY <1>5, <1>6, <1>7, <1>8, <1>9

LEMMA SessionRegenerate ==
    ASSUME SessionInv, TypeInv', NEW c \in Clauses, Regenerate(c)
    PROVE  SessionInv' /\ Kept
<1> USE DEF SessionInv
<1>1. session \in Session /\ session.step \in 1 .. 7 /\ jobs \in Seq(Job)
      BY SessionIs DEF TypeInv, TypeOK
<1>2. /\ session.content.outline # None /\ jobs' \in Enqueued("regenerate", c)
      /\ UNCHANGED <<session, requests, drafts, nextDraft, notices>>
      BY DEF Regenerate
<1>3. "regenerate" \in Kinds /\ c \in Clauses \cup {None}
      BY KindsAre
<1>4. \/ jobs' = jobs
      \/ /\ JobIds' = JobIds \cup {Len(jobs) + 1}
         /\ Len(jobs) + 1 \notin JobIds
         /\ \A j \in JobIds : jobs'[j] = jobs[j]
         /\ jobs'[Len(jobs) + 1] = NewJob("regenerate", c)
      BY <1>1, <1>2, <1>3, EnqueuedIs
<1>5. NewJob("regenerate", c).kind = "regenerate" /\ NewJob("regenerate", c).status = "pending"
      BY <1>3, NewJobIs
<1>6. \A k \in StepKinds : /\ Of(k)' = Of(k) /\ (Done(k)' <=> Done(k))
                           /\ \A j \in Of(k) : jobs'[j] = jobs[j]
  <2> SUFFICES ASSUME NEW k \in StepKinds
               PROVE  Of(k)' = Of(k) /\ (Done(k)' <=> Done(k)) /\ \A j \in Of(k) : jobs'[j] = jobs[j]
      OBVIOUS
  <2>1. k # "regenerate"
        BY DEF StepKinds
  <2>2. Done(k)' <=> Done(k)
        BY <1>2 DEF Done
  <2> QED
        BY <1>4, <1>5, <2>1, <2>2 DEF Of, JobIds
<1>7. StepJobs'
      BY <1>1, <1>2, <1>6, StepJobsStay
<1>8. EndsHold'
      BY <1>2, <1>6, EndsStay DEF EndsHold
<1>9. ReadsHold'
  <2>1. "draft" \in StepKinds
        BY DEF StepKinds
  <2>2. \A j \in Of("draft")' : jobs'[j].outline \in {None, session'.outline}
        BY <1>2, <1>6, <2>1 DEF ReadsHold
  <2>3. \A j \in Of("regenerate")' : jobs'[j].status = "running" => j \in Of("regenerate") /\ jobs'[j] = jobs[j]
        BY <1>4, <1>5 DEF Of, JobIds
  <2> QED
        BY <1>2, <2>2, <2>3 DEF ReadsHold
<1>10. FormsHold'
  <2>1. Waiting' <=> Waiting
        BY <1>2 DEF Waiting, Missing
  <2> QED
        BY <1>1, <1>2, <2>1, FormsStay
<1>11. (PrerequisitesMet /\ TextMatchesOutline /\ OneNotice)' /\ Kept
      BY <1>2 DEF PrerequisitesMet, TextMatchesOutline, OneNotice, Kept
<1> QED
    BY <1>7, <1>8, <1>9, <1>10, <1>11

LEMMA SessionClose ==
    ASSUME SessionInv, TypeInv', NEW r \in Requests, Export(r) \/ Notify(r)
    PROVE  SessionInv' /\ Kept
<1> USE DEF SessionInv
<1>1. session \in Session /\ session.step \in 1 .. 7 /\ requests \in [Requests -> Request]
      BY SessionIs DEF TypeInv, TypeOK
<1>2. requests[r].form \in Closing /\ UNCHANGED <<jobs, drafts, nextDraft>>
      BY DEF Export, Notify, Closing
<1>3. session.step = 7 /\ \A q \in Requests : q # r => requests[q].form \notin Closing
      BY <1>2 DEF FormsHold
<1>4. /\ session'.step = session.step
      /\ session'.intent = session.intent /\ session'.asked = session.asked
      /\ session'.research = session.research /\ session'.outline = session.outline
      /\ session'.content = session.content
      /\ session'.answered = session.answered
      /\ session'.status \in {"completed", session.status}
      BY <1>1 DEF Export, Notify, Session
<1>5. session.status # "abandoned"
      BY <1>3, StepsAre DEF EndsHold
<1>6. session'.status # "abandoned" /\ (session.status # "active" => session'.status = session.status)
      BY <1>1, <1>4, <1>5 DEF Session
<1>7. /\ \A k \in StepKinds : Of(k)' = Of(k) /\ (Done(k)' <=> Done(k))
      /\ Of("draft")' = Of("draft") /\ Of("regenerate")' = Of("regenerate")
      BY <1>2, <1>4 DEF Of, JobIds, Done, StepKinds
<1>8. StepJobs'
      BY <1>1, <1>2, <1>4, <1>7, StepJobsStay
<1>9. EndsHold'
      BY <1>3, <1>4, <1>6 DEF EndsHold
<1>10. /\ requests'[r].form \in {"none", "notify"}
       /\ requests'[r].form = "notify" => notices' = 0
       /\ \A q \in Requests : q # r => requests'[q] = requests[q]
  <2>1. CASE Export(r)
    <3>1. PICK R : /\ R \in {Idle, [Idle EXCEPT !.form = "notify"]} /\ requests' = [requests EXCEPT ![r] = R]
                   /\ notices # 0 => R = Idle
          BY <2>1 DEF Export
    <3>2. R.form \in {"none", "notify"} /\ (notices # 0 => R.form = "none")
          BY <3>1, IdleIs DEF Request
    <3> QED
          BY <1>1, <2>1, <3>1, <3>2 DEF Export
  <2>2. CASE Notify(r)
        BY <2>2, <1>1, IdleIs DEF Notify, Respond
  <2> QED
        BY <2>1, <2>2
<1>11. ReadsHold'
  <2>1. \A q \in Requests : requests'[q].form = "clause" => requests'[q] = requests[q]
        BY <1>10
  <2> QED
        BY <1>2, <1>4, <1>7, <2>1 DEF ReadsHold
<1>12. FormsHold'
  <2>1. requests[r].form \notin Early /\ requests[r].form # "none"
        BY <1>2 DEF Early, Closing
  <2>2. \A q \in Requests : requests'[q].form \notin Early
        BY <1>10, <2>1, NoEarly DEF Early
  <2>3. \A q \in Requests : requests'[q].form \in Closing => q = r
        BY <1>3, <1>10
  <2>4. \A q \in Requests : requests'[q].form \in Forms => session'.step >= Page[requests'[q].form]
        BY <1>3, <1>4, <1>10 DEF FormsHold, Forms, Page
  <2> QED
        BY <1>3, <1>4, <1>10, <2>2, <2>3, <2>4 DEF FormsHold
<1>13. PrerequisitesMet' /\ TextMatchesOutline' /\ Kept
       BY <1>2, <1>4, <1>6 DEF PrerequisitesMet, TextMatchesOutline, Kept
<1>14. OneNotice'
  <2>1. CASE Export(r)
        BY <2>1 DEF Export, OneNotice
  <2>2. CASE Notify(r)
    <3>1. notices = 0
          BY <2>2 DEF Notify, FormsHold, Closing
    <3> QED
          BY <2>2, <3>1 DEF Notify, OneNotice
  <2> QED
        BY <2>1, <2>2
<1> QED
    BY <1>8, <1>9, <1>11, <1>12, <1>13, <1>14

-----------------------------------------------------------------------------
(* The session holds together: jobs *)

\* A step's job that runs is the current step's, whose page waits for it.
LEMMA RunningIs ==
    ASSUME SessionInv, NEW k \in StepKinds, NEW j \in Of(k), jobs[j].status = "running"
    PROVE  /\ ~Done(k) /\ Waiting /\ session.step = StepOf(k)
           /\ \A r \in Requests : requests[r].form \notin Early
<1> USE DEF SessionInv
<1>1. session \in Session /\ session.step \in 1 .. 7
      BY SessionIs
<1>2. ~Done(k) /\ session.step >= StepOf(k)
      BY DEF StepJobs, JobIs
<1>3. session.step = StepOf(k)
  <2>1. CASE k = "clarify"
    <3>1. session.answered = {}
          BY <1>2, <2>1 DEF EndsHold, Done
    <3>2. ~(Cardinality(session.answered) >= MinAnswers)
          BY <3>1, FS_EmptySet, SizesAssumption
    <3> QED
          BY <1>1, <1>2, <2>1, <3>2 DEF PrerequisitesMet, StepOf
  <2>2. CASE k = "research"
        BY <1>1, <1>2, <2>2 DEF PrerequisitesMet, StepOf, Done
  <2>3. CASE k = "structure"
        BY <1>1, <1>2, <2>3 DEF PrerequisitesMet, StepOf, Done
  <2>4. CASE k = "draft"
        BY <1>1, <1>2, <2>4 DEF PrerequisitesMet, StepOf, Done
  <2> QED
        BY <2>1, <2>2, <2>3, <2>4 DEF StepKinds
<1>4. Waiting
      BY <1>2, <1>3, WaitingIs
<1> QED
    BY <1>2, <1>3, <1>4 DEF FormsHold

LEMMA KindOf ==
    ASSUME TypeInv, NEW j \in JobIds
    PROVE  /\ jobs[j].kind \in StepKinds \cup {"regenerate"} /\ j \in Of(jobs[j].kind)
           /\ "regenerate" \notin StepKinds
<1>1. jobs[j].kind \in Kinds
      BY JobAt DEF TypeInv, TypeOK, Job
<1> QED
    BY <1>1, KindsAre DEF Of, StepKinds

\* The jobs stay but for one that ran and does not run any more.
LEMMA Ended ==
    ASSUME TypeInv, NEW j \in JobIds, jobs[j].status = "running",
           NEW status \in {"pending", "success", "failed"}, jobs' = Settled(j, status)
    PROVE  /\ \A k : Of(k)' = Of(k)
           /\ jobs'[j].status = status
           /\ \A i \in JobIds : i # j => jobs'[i] = jobs[i]
           /\ \A i \in Of("draft")' : i \in Of("draft") /\ jobs'[i].outline \in {None, jobs[i].outline}
           /\ \A i \in Of("regenerate")' : jobs'[i].status = "running" =>
                 i \in Of("regenerate") /\ jobs[i].status = "running" /\ jobs'[i].content = jobs[i].content
           /\ \A k : \A i \in Of(k) : jobs[i].status = "failed" => jobs'[i].status = "failed"
<1>1. /\ JobIds' = JobIds
      /\ \A i \in JobIds : i # j => jobs'[i] = jobs[i]
      /\ jobs'[j].kind = jobs[j].kind
      /\ jobs'[j].status = status
      /\ jobs'[j].outline = None
      BY SettledIs DEF TypeInv
<1>2. \A i \in JobIds : jobs'[i].kind = jobs[i].kind
      BY <1>1
<1>3. \A k : Of(k)' = Of(k)
      BY <1>1, <1>2, SameOf
<1>4. \A k : Of(k) \subseteq JobIds
      BY DEF Of
<1>5. \A i \in Of("draft") : jobs'[i].outline \in {None, jobs[i].outline}
      BY <1>1, <1>4
<1>6. \A i \in Of("regenerate") : jobs'[i].status = "running" => i # j
      BY <1>1
<1>7. \A k : \A i \in Of(k) : jobs[i].status = "failed" => jobs'[i].status = "failed"
      BY <1>1, <1>4
<1> QED
    BY <1>1, <1>3, <1>4, <1>5, <1>6, <1>7

LEMMA SessionStart ==
    ASSUME SessionInv, TypeInv', NEW j \in JobIds, StartJob(j)
    PROVE  SessionInv' /\ Kept
<1> USE DEF SessionInv
<1>1. session \in Session /\ session.step \in 1 .. 7
      BY SessionIs
<1>2. UNCHANGED <<session, requests, drafts, nextDraft, notices>> /\ jobs[j].status = "pending"
      BY DEF StartJob
<1>3. /\ JobIds' = JobIds
      /\ \A i \in JobIds : i # j => jobs'[i] = jobs[i]
      /\ jobs'[j].kind = jobs[j].kind
      /\ jobs'[j].status = "running"
      /\ jobs'[j].outline \in {None, session.outline}
      /\ jobs[j].kind = "regenerate" => jobs'[j].content = session.content
      BY <1>2, Started DEF TypeInv, JobsKnow
<1>4. \A i \in JobIds : jobs'[i].kind = jobs[i].kind
      BY <1>3
<1>5. /\ \A k : Of(k)' = Of(k)
      /\ \A k : Of(k) \subseteq JobIds
      BY <1>3, <1>4, SameOf DEF Of
<1>6. \A k \in StepKinds : Done(k)' <=> Done(k)
      BY <1>2 DEF Done
<1>7. StepJobs'
  <2>1. \A k \in StepKinds : \A i \in Of(k) : jobs'[i].status = "success" <=> jobs[i].status = "success"
        BY <1>2, <1>3, <1>5
  <2> QED
        BY <1>1, <1>2, <1>5, <1>6, <2>1, StepJobsStay
<1>8. EndsHold'
  <2>1. \A k \in StepKinds : \A i \in Of(k) : jobs[i].status = "failed" => jobs'[i].status = "failed"
        BY <1>2, <1>3, <1>5
  <2> QED
        BY <1>2, <1>5, <2>1, EndsStay DEF EndsHold
<1>9. ReadsHold'
  <2>1. \A i \in Of("draft")' : jobs'[i].outline \in {None, session'.outline}
        BY <1>2, <1>3, <1>5 DEF ReadsHold
  <2>2. \A i \in Of("regenerate")' : jobs'[i].status = "running" => jobs'[i].content.outline = session'.outline
    <3> SUFFICES ASSUME NEW i \in Of("regenerate"), jobs'[i].status = "running"
                 PROVE  jobs'[i].content.outline = session.outline
        BY <1>2, <1>5
    <3>1. session.content.outline = session.outline
          BY DEF ReadsHold, TextMatchesOutline
    <3>2. CASE i = j
          BY <1>3, <3>1, <3>2 DEF Of
    <3>3. CASE i # j
          BY <1>3, <1>5, <3>3 DEF ReadsHold
    <3> QED
          BY <3>2, <3>3
  <2> QED
        BY <1>2, <1>5, <2>1, <2>2 DEF ReadsHold
<1>10. FormsHold'
  <2>1. Waiting' <=> Waiting
        BY <1>2 DEF Waiting, Missing
  <2> QED
        BY <1>1, <1>2, <2>1, FormsStay
<1>11. (PrerequisitesMet /\ TextMatchesOutline /\ OneNotice)' /\ Kept
      BY <1>2 DEF PrerequisitesMet, TextMatchesOutline, OneNotice, Kept
<1> QED
    BY <1>7, <1>8, <1>9, <1>10, <1>11

\* What the job of a step brings, and what it leaves alone
LEMMA FilledStep ==
    ASSUME SessionInv, NEW k \in StepKinds, NEW j \in Of(k), jobs[j].status = "running",
           jobs[j].kind = "draft" => jobs[j].outline # None, session' = Filled(j)
    PROVE  /\ session'.step = session.step /\ session'.status = session.status
           /\ session'.intent = session.intent
           /\ Done(k)' /\ \A l \in StepKinds : l # k => (Done(l)' <=> Done(l))
           /\ ~session'.asked => session'.answered = {}
           /\ session.answered \subseteq session'.answered
           /\ session'.answered # session.answered => session.step = 2
           /\ k # "structure" => session'.outline = session.outline
           /\ session'.content.outline \in {session.content.outline, session'.outline}
           /\ session.content.outline # None => session'.content.outline # None
<1> USE DEF SessionInv
<1>1. session \in Session /\ jobs[j] \in Job /\ jobs[j].kind = k
      BY SessionIs, JobAt DEF Of, TypeInv, TypeOK
<1>2. ~Done(k) /\ session.step = StepOf(k)
      BY RunningIs
<1>3. CASE k = "clarify"
  <2>1. session' = [session EXCEPT !.asked = TRUE, !.answered = {}]
        BY <1>1, <1>3 DEF Filled
  <2>2. session.answered = {}
        BY <1>2, <1>3 DEF Done, EndsHold
  <2>3. /\ session'.step = session.step /\ session'.status = session.status
        /\ session'.intent = session.intent /\ session'.asked /\ session'.answered = {}
        /\ session'.research = session.research /\ session'.outline = session.outline
        /\ session'.content = session.content
        BY <1>1, <2>1 DEF Session
  <2> QED
        BY <1>3, <2>2, <2>3 DEF Done, StepKinds
<1>4. CASE k = "research"
  <2>1. session' = [session EXCEPT !.research = TRUE]
        BY <1>1, <1>4 DEF Filled
  <2>2. /\ session'.step = session.step /\ session'.status = session.status
        /\ session'.intent = session.intent /\ session'.asked = session.asked
        /\ session'.answered = session.answered
        /\ session'.research /\ session'.outline = session.outline
        /\ session'.content = session.content
        BY <1>1, <2>1 DEF Session
  <2> QED
        BY <1>4, <2>2 DEF Done, StepKinds, EndsHold
<1>5. CASE k = "structure"
  <2>1. session' = [session EXCEPT !.outline = session.outline + 1, !.blank = FALSE]
        BY <1>1, <1>5 DEF Filled, Session
  <2>2. /\ session'.step = session.step /\ session'.status = session.status
        /\ session'.intent = session.intent /\ session'.asked = session.asked
        /\ session'.answered = session.answered
        /\ session'.research = session.research /\ session'.outline = session.outline + 1
        /\ session'.content = session.content
        BY <1>1, <2>1 DEF Session
  <2>3. session'.outline # None
        BY <1>1, <2>2 DEF Session, None
  <2> QED
        BY <1>5, <2>2, <2>3 DEF Done, StepKinds, EndsHold
<1>6. CASE k = "draft"
  <2> DEFINE C == [NoContent EXCEPT !.outline = jobs[j].outline]
  <2>1. session' = [session EXCEPT !.content = C]
        BY <1>1, <1>6 DEF Filled
  <2>2. C.outline = jobs[j].outline
        BY NoContentIs DEF Content
  <2> HIDE DEF C
  <2>3. /\ session'.step = session.step /\ session'.status = session.status
        /\ session'.intent = session.intent /\ session'.asked = session.asked
        /\ session'.answered = session.answered
        /\ session'.research = session.research /\ session'.outline = session.outline
        /\ session'.content = C
        BY <1>1, <2>1 DEF Session
  <2>4. jobs[j].outline # None /\ jobs[j].outline = session.outline
        BY <1>1, <1>6 DEF ReadsHold
  <2> QED
        BY <1>6, <2>2, <2>3, <2>4 DEF Done, StepKinds, EndsHold
<1> QED
    BY <1>3, <1>4, <1>5, <1>6 DEF StepKinds

LEMMA SessionFilled ==
    ASSUME SessionInv, TypeInv', NEW k \in StepKinds, NEW j \in Of(k), jobs[j].status = "running",
           jobs[j].kind = "draft" => jobs[j].outline # None, session' = Filled(j),
           jobs' = Settled(j, "success"), UNCHANGED <<requests, drafts, nextDraft, notices>>
    PROVE  SessionInv' /\ Kept
<1> USE DEF SessionInv
<1>1. session \in Session /\ session.step \in 1 .. 7 /\ j \in JobIds
      BY SessionIs DEF Of
<1>2. /\ session'.step = session.step /\ session'.status = session.status
      /\ session'.intent = session.intent
      /\ Done(k)' /\ \A l \in StepKinds : l # k => (Done(l)' <=> Done(l))
      /\ ~session'.asked => session'.answered = {}
      /\ session.answered \subseteq session'.answered
      /\ session'.answered # session.answered => session.step = 2
      /\ k # "structure" => session'.outline = session.outline
      /\ session'.content.outline \in {session.content.outline, session'.outline}
      /\ session.content.outline # None => session'.content.outline # None
      BY FilledStep
<1>3. /\ ~Done(k) /\ session.step = StepOf(k)
      /\ \A r \in Requests : requests[r].form \notin Early
      BY RunningIs
<1>4. /\ \A l : Of(l)' = Of(l)
      /\ jobs'[j].status = "success"
      /\ \A i \in JobIds : i # j => jobs'[i] = jobs[i]
      /\ \A i \in Of("draft")' : i \in Of("draft") /\ jobs'[i].outline \in {None, jobs[i].outline}
      /\ \A i \in Of("regenerate")' : jobs'[i].status = "running" =>
            i \in Of("regenerate") /\ jobs[i].status = "running" /\ jobs'[i].content = jobs[i].content
      /\ \A l : \A i \in Of(l) : jobs[i].status = "failed" => jobs'[i].status = "failed"
      BY <1>1, Ended
<1>5. StepJobs'
  <2> SUFFICES ASSUME NEW l \in StepKinds PROVE JobIs(l)'
      BY DEF StepJobs
  <2>1. JobIs(l)
        BY DEF StepJobs
  <2>2. CASE l = k
        BY <1>2, <1>4, <2>1, <2>2, JobDone
  <2>3. CASE l # k
    <3>1. \A i \in Of(l) : jobs'[i] = jobs[i]
          BY <1>4, <2>3 DEF Of
    <3> QED
          BY <1>2, <1>4, <2>1, <2>3, <3>1, JobStays
  <2> QED
        BY <2>2, <2>3
<1>6. EndsHold'
      BY <1>2, <1>4, EndsStay
<1>7. ReadsHold' /\ TextMatchesOutline'
  <2>1. CASE k = "structure"
    <3>1. /\ Of("draft") = {} /\ Of("regenerate") = {} /\ session.content.outline = None
          /\ \A r \in Requests : requests[r].form # "clause"
          BY <1>3, <2>1, NoDraftJob DEF StepOf
    <3>2. ReadsHold'
          BY <1>4, <3>1, NothingRead
    <3> QED
          BY <1>2, <3>1, <3>2 DEF TextMatchesOutline
  <2>2. CASE k # "structure"
    <3>1. \A i \in Of("regenerate")' : session.content.outline # None
          BY <1>4 DEF ReadsHold
    <3>2. ReadsHold'
          BY <1>2, <1>4, <2>2, <3>1, ReadsStay
    <3> QED
          BY <1>2, <2>2, <3>2 DEF TextMatchesOutline
  <2> QED
        BY <2>1, <2>2
<1>8. FormsHold'
      BY <1>1, <1>2, <1>3, FormsStay
<1>9. PrerequisitesMet'
  <2>1. /\ session.research => session'.research
        /\ session.outline # None => session'.outline # None
        BY <1>2, <1>3 DEF StepKinds, Done
  <2> QED
        BY <1>2, <2>1 DEF PrerequisitesMet
<1>10. OneNotice' /\ Kept
      BY <1>2 DEF OneNotice, Kept
<1> QED
    BY <1>5, <1>6, <1>7, <1>8, <1>9, <1>10

LEMMA SessionRegenerated ==
    ASSUME SessionInv, TypeInv', NEW j \in Of("regenerate"), jobs[j].status = "running",
           session' = Filled(j), jobs' = Settled(j, "success"),
           UNCHANGED <<requests, drafts, nextDraft, notices>>
    PROVE  SessionInv' /\ Kept
<1> USE DEF SessionInv
<1>1. session \in Session /\ session.step \in 1 .. 7 /\ j \in JobIds /\ jobs[j] \in Job
      /\ jobs[j].kind = "regenerate"
      BY SessionIs, JobAt DEF Of, TypeInv, TypeOK
<1> DEFINE C == [jobs[j].content EXCEPT !.text[jobs[j].clause] = "regenerated"]
<1>2. C \in Content /\ C.outline = jobs[j].content.outline
      BY <1>1, ContentIs DEF Job, Texts
<1>3. session' = [session EXCEPT !.content = C]
      BY <1>1 DEF Filled
<1> HIDE DEF C
<1>4. session.content.outline # None /\ C.outline = session.content.outline
      BY <1>2 DEF ReadsHold, TextMatchesOutline
<1>5. /\ session'.step = session.step /\ session'.status = session.status
      /\ session'.intent = session.intent /\ session'.asked = session.asked
      /\ session'.research = session.research /\ session'.outline = session.outline
      /\ session'.content.outline = session.content.outline
      /\ session'.answered = session.answered
      BY <1>1, <1>3, <1>4 DEF Session
<1>6. /\ \A l : Of(l)' = Of(l)
      /\ \A i \in JobIds : i # j => jobs'[i] = jobs[i]
      /\ \A i \in Of("draft")' : i \in Of("draft") /\ jobs'[i].outline \in {None, jobs[i].outline}
      /\ \A i \in Of("regenerate")' : jobs'[i].status = "running" =>
            i \in Of("regenerate") /\ jobs[i].status = "running" /\ jobs'[i].content = jobs[i].content
      /\ \A l : \A i \in Of(l) : jobs[i].status = "failed" => jobs'[i].status = "failed"
      BY <1>1, Ended
<1>7. \A l \in StepKinds : Done(l)' <=> Done(l)
      BY <1>5 DEF Done, StepKinds
<1>8. StepJobs'
  <2>1. \A l \in StepKinds : \A i \in Of(l) : i # j /\ i \in JobIds
        BY <1>1 DEF Of, StepKinds
  <2>2. \A l \in StepKinds : \A i \in Of(l) : jobs'[i].status = "success" <=> jobs[i].status = "success"
        BY <1>6, <2>1
  <2> QED
        BY <1>1, <1>5, <1>6, <1>7, <2>2, StepJobsStay
<1>9. EndsHold'
      BY <1>5, <1>6, EndsStay DEF EndsHold
<1>10. ReadsHold'
      BY <1>4, <1>5, <1>6, ReadsStay
<1>11. FormsHold'
  <2>1. Waiting' <=> Waiting
        BY <1>5 DEF Waiting, Missing
  <2> QED
        BY <1>1, <1>5, <2>1, FormsStay
<1>12. (PrerequisitesMet /\ TextMatchesOutline /\ OneNotice)' /\ Kept
      BY <1>5 DEF PrerequisitesMet, TextMatchesOutline, OneNotice, Kept
<1> QED
    BY <1>8, <1>9, <1>10, <1>11, <1>12

LEMMA SessionFailed ==
    ASSUME SessionInv, TypeInv', NEW j \in JobIds, FailJob(j)
    PROVE  SessionInv' /\ Kept
<1> USE DEF SessionInv
<1>1. session \in Session /\ session.step \in 1 .. 7 /\ jobs[j] \in Job
      BY SessionIs, JobAt DEF TypeInv, TypeOK
<1>2. jobs[j].status = "running" /\ UNCHANGED <<requests, drafts, nextDraft, notices>>
      BY DEF FailJob
<1>3. PICK status \in {"pending", "failed"} :
           /\ jobs' = Settled(j, status)
           /\ status = (IF jobs[j].attempts < MaxAttempts THEN "pending" ELSE "failed")
      BY DEF FailJob, Retried
<1>4. /\ \A l : Of(l)' = Of(l)
      /\ jobs'[j].status = status
      /\ \A i \in JobIds : i # j => jobs'[i] = jobs[i]
      /\ \A i \in Of("draft")' : i \in Of("draft") /\ jobs'[i].outline \in {None, jobs[i].outline}
      /\ \A i \in Of("regenerate")' : jobs'[i].status = "running" =>
            i \in Of("regenerate") /\ jobs[i].status = "running" /\ jobs'[i].content = jobs[i].content
      /\ \A l : \A i \in Of(l) : jobs[i].status = "failed" => jobs'[i].status = "failed"
      BY <1>2, <1>3, Ended
<1>5. /\ session'.step = session.step /\ session'.intent = session.intent
      /\ session'.asked = session.asked /\ session'.research = session.research
      /\ session'.outline = session.outline /\ session'.content = session.content
      /\ session'.answered = session.answered
      BY <1>1 DEF FailJob, Session
<1>6. /\ \A l \in StepKinds : Done(l)' <=> Done(l)
      /\ Waiting' <=> Waiting
      BY <1>5 DEF Done, StepKinds, Waiting, Missing
<1>7. StepJobs'
  <2>1. \A l \in StepKinds : \A i \in Of(l) : jobs'[i].status = "success" <=> jobs[i].status = "success"
        BY <1>2, <1>4 DEF Of
  <2> QED
        BY <1>1, <1>4, <1>5, <1>6, <2>1, StepJobsStay
<1>8. EndsHold' /\ Kept
  <2>1. CASE session' = session
    <3>1. EndsHold'
          BY <1>4, <2>1, EndsStay DEF EndsHold
    <3> QED
          BY <2>1, <3>1 DEF Kept
  <2>2. CASE session' # session
    <3>1. /\ session' = [session EXCEPT !.status = "abandoned"]
          /\ jobs[j].attempts >= MaxAttempts /\ jobs[j].kind # "regenerate"
          BY <2>2 DEF FailJob
    <3>2. status = "failed"
          BY <1>1, <1>3, <3>1, SizesAssumption DEF Job
    <3>3. jobs[j].kind \in StepKinds /\ j \in Of(jobs[j].kind)
          BY <3>1, KindOf
    <3>4. PICK k \in StepKinds : k = jobs[j].kind
          BY <3>3
    <3>5. session.step = StepOf(k) /\ StepOf(k) \in 2 .. 5
          BY <1>2, <3>3, <3>4, RunningIs, StepsAre
    <3>6. session'.status = "abandoned" /\ session.status # "completed"
          BY <1>1, <3>1, <3>5 DEF Session, EndsHold
    <3>7. j \in Of(k)' /\ jobs'[j].status = "failed"
          BY <1>4, <3>2, <3>3, <3>4
    <3>8. EndsHold'
      <4>1. \E l \in StepKinds : session'.step = StepOf(l) /\ \E i \in Of(l)' : jobs'[i].status = "failed"
            BY <1>5, <3>5, <3>7
      <4> QED
            BY <1>5, <3>6, <4>1 DEF EndsHold
    <3>9. session.status # "active" => session.status = "abandoned"
          BY <1>1, <3>6 DEF Session
    <3> QED
          BY <1>5, <3>6, <3>8, <3>9 DEF Kept
  <2> QED
        BY <2>1, <2>2
<1>9. ReadsHold'
  <2>1. \A i \in Of("regenerate")' : session.content.outline # None
        BY <1>4 DEF ReadsHold
  <2> QED
        BY <1>2, <1>4, <1>5, <2>1, ReadsStay
<1>10. FormsHold'
      BY <1>1, <1>2, <1>5, <1>6, FormsStay
<1>11. (PrerequisitesMet /\ TextMatchesOutline /\ OneNotice)'
      BY <1>2, <1>5 DEF PrerequisitesMet, TextMatchesOutline, OneNotice
<1> QED
    BY <1>7, <1>8, <1>9, <1>10, <1>11

LEMMA SessionJob ==
    ASSUME Orderly, SessionInv, TypeInv', NEW j \in JobIds, StartJob(j) \/ FinishJob(j) \/ FailJob(j)
    PROVE  SessionInv' /\ Kept
<1>1. CASE StartJob(j)
      BY <1>1, SessionStart
<1>2. CASE FinishJob(j)
  <2>1. /\ jobs[j].status = "running" /\ (jobs[j].kind = "draft" => jobs[j].outline # None)
        /\ session' = Filled(j) /\ jobs' = Settled(j, "success")
        /\ UNCHANGED <<requests, drafts, nextDraft, notices>>
        BY <1>2 DEF FinishJob, Orderly
  <2>2. jobs[j].kind \in StepKinds \cup {"regenerate"} /\ j \in Of(jobs[j].kind)
        BY KindOf DEF SessionInv
  <2>3. CASE jobs[j].kind \in StepKinds
        BY <2>1, <2>2, <2>3, SessionFilled
  <2>4. CASE jobs[j].kind = "regenerate"
        BY <2>1, <2>2, <2>4, SessionRegenerated
  <2> QED
        BY <2>2, <2>3, <2>4
<1>3. CASE FailJob(j)
      BY <1>3, SessionFailed
<1> QED
    BY <1>1, <1>2, <1>3

LEMMA SessionInit == Init => SessionInv
<1> SUFFICES ASSUME Init PROVE SessionInv
    OBVIOUS
<1>1. TypeInv
      BY TypeInit
<1>2. /\ session.step = 1 /\ session.status = "active" /\ ~session.asked /\ session.answered = {}
      /\ ~session.research /\ session.outline = None /\ session.content.outline = None
      BY NoContentIs DEF Init
<1>3. \A k : Of(k) = {}
      BY DEF Of, JobIds, Init
<1>4. \A r \in Requests : requests[r].form = "none"
      BY IdleIs DEF Init
<1>5. \A k \in StepKinds : ~Done(k)
      BY <1>2 DEF StepKinds, Done
<1>6. StepJobs
      BY <1>2, <1>3, <1>5, StepsAre DEF StepJobs, JobIs
<1>7. EndsHold
      BY <1>2 DEF EndsHold
<1>8. ReadsHold
      BY <1>3, <1>4 DEF ReadsHold
<1>9. FormsHold
      BY <1>4 DEF FormsHold, Forms, Page, Early, Closing
<1>10. PrerequisitesMet /\ TextMatchesOutline /\ OneNotice
      BY <1>2 DEF PrerequisitesMet, TextMatchesOutline, OneNotice, Init
<1> QED
    BY <1>1, <1>6, <1>7, <1>8, <1>9, <1>10 DEF SessionInv

LEMMA SessionNext ==
    ASSUME Orderly, SessionInv, [Next]_vars
    PROVE  SessionInv' /\ Kept
<1>1. TypeInv'
      BY TypeNext DEF SessionInv
<1>2. CASE UNCHANGED vars
  <2> session.step \in 1 .. 7
      BY SessionIs DEF SessionInv
  <2>u. UNCHANGED <<session, jobs, requests, drafts, nextDraft, notices>>
        BY <1>2 DEF vars
  <2>o. /\ \A k : Of(k)' = Of(k)
        /\ \A k \in StepKinds : Done(k)' <=> Done(k)
        /\ Waiting' <=> Waiting
        BY <2>u DEF Of, JobIds, Done, Waiting, Missing
  <2>1. StepJobs' /\ EndsHold'
        BY <2>u, <2>o, StepJobsStay, EndsStay DEF SessionInv, EndsHold
  <2>3. ReadsHold' /\ FormsHold'
        BY <2>u, <2>o, FormsStay DEF SessionInv, ReadsHold
  <2>2. (PrerequisitesMet /\ TextMatchesOutline /\ OneNotice)' /\ Kept
        BY <1>2 DEF vars, SessionInv, PrerequisitesMet, TextMatchesOutline, OneNotice, Kept
  <2> QED
        BY <1>1, <2>1, <2>2, <2>3 DEF SessionInv
<1>3. CASE \E r \in Requests : Receive(r)
      BY <1>1, <1>3, SessionReceive
<1>4. CASE \E r \in Requests :
               SubmitIntent(r) \/ LeaveClarify(r) \/ LeaveResearch(r) \/ SubmitStructure(r)
      BY <1>1, <1>4, SessionLeave
<1>5. CASE \E r \in Requests : LeaveQuietly(r)
      BY <1>1, <1>5, SessionQuiet
<1>6. CASE \E r \in Requests : Answer(r) \/ SaveClause(r) \/ TriggerReview(r)
      BY <1>1, <1>6, SessionWrite
<1>7. CASE \E r \in Requests : Export(r) \/ Notify(r)
      BY <1>1, <1>7, SessionClose
<1>8. CASE \E c \in Clauses : Regenerate(c)
      BY <1>1, <1>8, SessionRegenerate
<1>9. CASE \E d \in drafts : DeleteDraft(d)
      BY <1>1, <1>9, SessionDelete
<1>10. CASE JobStep
      BY <1>1, <1>10, SessionJob DEF JobStep, JobIds
<1> QED
    BY <1>2, <1>3, <1>4, <1>5, <1>6, <1>7, <1>8, <1>9, <1>10 DEF Next

-----------------------------------------------------------------------------
(* Theorems *)

\* The session, its jobs, its requests and the draft made for its review are
\* always what the columns of their rows may hold (DraftWizard.TypeOK).
THEOREM TypeCorrect == Spec => []TypeOK
<1>1. TypeInv => TypeOK
      BY DEF TypeInv
<1> QED
    BY <1>1, TypeInit, TypeNext, PTL DEF Spec

\* Pressing the review button twice, or deleting the draft between two presses,
\* never leaves a draft that the session does not name (#852 E3), whatever the
\* faults and the forms that come from old pages.
THEOREM ReviewHasOneDraft == Spec => []OneReviewDraft
<1>1. TypeInv => OneReviewDraft
      BY DEF TypeInv
<1> QED
    BY <1>1, TypeInit, TypeNext, PTL DEF Spec

LEMMA SessionAlways == ASSUME Orderly PROVE Spec => []SessionInv
<1>1. SessionInv /\ [Next]_vars => SessionInv'
      BY SessionNext
<1> QED
    BY <1>1, SessionInit, PTL DEF Spec

\* Each step of a session is earned, its text is that of its outline, and one
\* draft and one notice come of it (DraftWizard.SessionHangsTogether), as long as
\* the forms of the first four steps and the export are sent once and no
\* committed job is repeated.
THEOREM SessionHolds == ASSUME Orderly PROVE Spec => []SessionHangsTogether
<1>1. SessionInv => SessionHangsTogether
      BY DEF SessionInv, TypeInv, SessionHangsTogether
<1> QED
    BY <1>1, SessionAlways, PTL

\* A page that waits for its result has a job that will bring it or that is shown
\* to have failed (DraftWizard.StepHasItsJob), when no enqueue fails.
THEOREM StepsHaveJobs ==
    ASSUME Orderly, "enqueue" \notin Faults
    PROVE  Spec => []StepHasItsJob
<1>1. SessionInv => StepHasItsJob
  <2> SUFFICES ASSUME SessionInv, NEW n \in 2 .. 5, session.step = n, Missing(n)
               PROVE  \E j \in Latest(StepJob[n]) : jobs[j].status # "success"
      BY DEF StepHasItsJob
  <2>1. PICK k \in StepKinds : k = StepJob[n] /\ StepOf(k) = n
    <3>1. CASE n = 2
          BY <3>1 DEF StepJob, StepKinds, StepOf
    <3>2. CASE n = 3
          BY <3>2 DEF StepJob, StepKinds, StepOf
    <3>3. CASE n = 4
          BY <3>3 DEF StepJob, StepKinds, StepOf
    <3>4. CASE n = 5
          BY <3>4 DEF StepJob, StepKinds, StepOf
    <3> QED
          BY <3>1, <3>2, <3>3, <3>4
  <2>2. Waiting /\ ~Done(k)
        BY <2>1, WaitingIs DEF Waiting
  <2>3. /\ \A i, j \in Of(k) : i = j
        /\ \A j \in Of(k) : jobs[j].status # "success"
        /\ Of(k) # {}
    <3>1. JobIs(k)
          BY DEF SessionInv, StepJobs
    <3>2. session.step >= StepOf(k)
          BY <2>1
    <3> QED
          BY <2>2, <3>1, <3>2 DEF JobIs
  <2>4. PICK j \in Of(k) : jobs[j].status # "success"
        BY <2>3
  <2>5. j \in Latest(k)
    <3>1. j \in JobIds /\ jobs[j].kind = k
          BY DEF Of
    <3>2. ASSUME NEW i \in (j + 1) .. Len(jobs), jobs[i].kind = k
          PROVE  FALSE
      <4>1. i \in JobIds /\ i # j
            BY <3>1 DEF JobIds
      <4>2. i \in Of(k)
            BY <3>2, <4>1 DEF Of
      <4> QED
            BY <2>3, <4>1, <4>2
    <3> QED
          BY <3>1, <3>2 DEF Latest, JobIds
  <2> QED
        BY <2>1, <2>4, <2>5
<1> QED
    BY <1>1, SessionAlways, PTL

\* No step takes back an answer or reopens a session that has ended
\* (DraftWizard.NothingIsUndone).
THEOREM NothingUndone == ASSUME Orderly PROVE Spec => NothingIsUndone
<1>1. SessionInv /\ [Next]_vars => [session.answered \subseteq session'.answered]_vars
      BY SessionNext DEF Kept
<1>2. SessionInv /\ [Next]_vars =>
          [session.status # "active" => session'.status = session.status]_vars
      BY SessionNext DEF Kept
<1>3. Spec => AnswersKept
      BY <1>1, SessionAlways, PTL DEF Spec, AnswersKept
<1>4. Spec => TerminalStatus
      BY <1>2, SessionAlways, PTL DEF Spec, TerminalStatus
<1> QED
    BY <1>3, <1>4 DEF NothingIsUndone
=============================================================================
