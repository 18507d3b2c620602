---------------------------- MODULE DraftWizard ----------------------------
(***************************************************************************)
(* One session of the drafting wizard: the forms its owner submits         *)
(* (app/drafter/routes.py), the guarded steps (state_machine.py), and the  *)
(* jobs that fill the steps in the background (handlers.py).               *)
(*                                                                         *)
(* A form handler reads the session, awaits the form's body, and then runs *)
(* to its end without another await: a request is therefore two steps, and *)
(* between them other requests and jobs go on.  A job reads the session    *)
(* when it starts and writes one column of it when it ends.                *)
(***************************************************************************)
EXTENDS Naturals, Sequences, FiniteSets

CONSTANTS
    Requests,       \* slots for requests that are being handled
    NQuestions,     \* questions of the interview
    MinAnswers,     \* answers the interview needs (3 in the code)
    Clauses,        \* clauses of the drafted law
    Workers,        \* job workers
    MaxAttempts,    \* max_attempts of a job
    MaxJobs,        \* bound: jobs
    MaxDrafts,      \* bound: drafts made for review
    Again,          \* forms that may be sent from a page that is no longer current
    Faults          \* subset of {"enqueue", "rerun"}

ASSUME SizesAssumption ==
    /\ {NQuestions, MinAnswers, Workers, MaxAttempts, MaxJobs, MaxDrafts} \subseteq Nat \ {0}
    /\ MinAnswers <= NQuestions

VARIABLES
    session,    \* the drafting_sessions row
    jobs,       \* the session's background_jobs, oldest first
    requests,   \* form requests between their read of the session and their write
    drafts,     \* drafts made for review that exist
    nextDraft,
    notices     \* drafter_complete notifications of the session

vars == <<session, jobs, requests, drafts, nextDraft, notices>>

None == 0

Steps == 1..7
StepJob == [n \in 2..5 |-> CASE n = 2 -> "clarify" [] n = 3 -> "research"
                             [] n = 4 -> "structure" [] n = 5 -> "draft"]
Kinds == {StepJob[n] : n \in 2..5} \cup {"regenerate"}

\* The page a form stands on
Page == [intent |-> 1, answer |-> 2, clarified |-> 2, researched |-> 3, outline |-> 4,
         drafted |-> 5, clause |-> 5, review |-> 6, reviewed |-> 6, export |-> 7]
Forms == DOMAIN Page

Questions == 1..NQuestions
Texts     == {"drafted", "edited", "regenerated"}

\* outline: the structure the clauses were written for; None while there are no clauses
Content   == [outline : Nat, text : [Clauses -> Texts]]
NoContent == [outline |-> None, text |-> [c \in Clauses |-> "drafted"]]

Session == [step : Steps, status : {"active", "completed", "abandoned"},
            intent : BOOLEAN, asked : BOOLEAN, answered : SUBSET Questions,
            research : BOOLEAN, outline : Nat, blank : BOOLEAN,
            content : Content, review : Nat]

Job == [kind : Kinds, clause : Clauses \cup {None},
        status : {"pending", "running", "success", "failed"},
        attempts : 0..MaxAttempts, outline : Nat, content : Content]

Request == [form : Forms \cup {"none", "notify"}, item : Questions \cup Clauses \cup {None},
            answered : SUBSET Questions, content : Content]
Idle == [form |-> "none", item |-> None, answered |-> {}, content |-> NoContent]

Init ==
    /\ session = [step |-> 1, status |-> "active", intent |-> FALSE, asked |-> FALSE,
                  answered |-> {}, research |-> FALSE, outline |-> None, blank |-> FALSE,
                  content |-> NoContent, review |-> None]
    /\ jobs = <<>>
    /\ requests = [r \in Requests |-> Idle]
    /\ drafts = {}
    /\ nextDraft = 1
    /\ notices = 0

-----------------------------------------------------------------------------
\* The state machine

Missing(n) ==
    CASE n = 2 -> ~session.asked
      [] n = 3 -> ~session.research
      [] n = 4 -> session.outline = None
      [] n = 5 -> session.content.outline = None
      [] OTHER -> FALSE

\* _GUARDS: what the step that is left must have produced
CanLeave(s) ==
    CASE s.step = 1 -> s.intent
      [] s.step = 2 -> Cardinality(s.answered) >= MinAnswers
      [] s.step = 3 -> s.research
      [] s.step = 4 -> s.outline # None
      [] s.step = 5 -> s.content.outline # None
      [] s.step = 6 -> s.review # None
      [] OTHER      -> FALSE

Advanced(s) == [s EXCEPT !.step = @ + 1]

NewJob(kind, clause) ==
    [kind |-> kind, clause |-> clause, status |-> "pending", attempts |-> 0,
     outline |-> None, content |-> NoContent]

\* What an enqueue leaves behind.  It follows the commit of the step, and a
\* failure of it is logged.
Enqueued(kind, clause) ==
    {Append(jobs, NewJob(kind, clause))} \cup IF "enqueue" \in Faults THEN {jobs} ELSE {}

-----------------------------------------------------------------------------
\* Requests

Open     == {r \in Requests : requests[r].form # "none"}
Room     == Len(jobs) + Cardinality(Open) < MaxJobs
Unasked  == Questions \ session.answered

\* The page shows the form: its step has been reached and what it shows is there.
Shown(f) ==
    /\ session.step >= Page[f]
    /\ ~Missing(Page[f])
    /\ f = "answer"    => Unasked # {}
    /\ f = "clarified" => Cardinality(session.answered) >= MinAnswers
    /\ f = "review"    => session.review = None
    /\ f = "reviewed"  => session.review # None

\* A form that is not sent again comes from the current page, one at a time.
MaySend(f) ==
    /\ Shown(f)
    /\ f \notin Again => session.step = Page[f] /\ Open = {}

\* The handler reads the session (fetch_session) and awaits the form.
Receive(r) ==
    /\ requests[r] = Idle
    /\ Room
    /\ \E f \in Forms :
         /\ MaySend(f)
         /\ \E i \in CASE f = "answer" -> {q \in Unasked : \A p \in Unasked : q <= p}
                       [] f = "clause" -> Clauses
                       [] OTHER        -> {None} :
              requests' = [requests EXCEPT ![r] =
                  [form |-> f, item |-> i,
                   answered |-> IF f = "answer" THEN session.answered ELSE {},
                   content |-> IF f = "clause" THEN session.content ELSE NoContent]]
    /\ UNCHANGED <<session, jobs, drafts, nextDraft, notices>>

Respond(r) == requests' = [requests EXCEPT ![r] = Idle]

\* The transaction of a step form: the form's column is written, the session is
\* read back, and it is advanced from whatever step it is at.  A step that may
\* not be left rolls all of it back.  The job that follows is the form's.
Leave(r, form, s, kind) ==
    /\ requests[r].form = form
    /\ IF CanLeave(s)
       THEN session' = Advanced(s) /\ jobs' \in Enqueued(kind, None)
       ELSE UNCHANGED <<session, jobs>>
    /\ Respond(r)
    /\ UNCHANGED <<drafts, nextDraft, notices>>

\* Mutants: the job of another step is enqueued.
IntentToResearch(r)   == Leave(r, "intent", [session EXCEPT !.intent = TRUE], "research")
ResearchToResearch(r) == Leave(r, "researched", session, "research")

SubmitIntent(r)     == Leave(r, "intent", [session EXCEPT !.intent = TRUE], "clarify")
LeaveClarify(r)     == Leave(r, "clarified", session, "research")
LeaveResearch(r)    == Leave(r, "researched", session, "structure")

\* Mutant: the job is enqueued before the commit, and starts at once.
EarlyStructure(r) ==
    /\ requests[r].form = "outline"
    /\ session' = Advanced([session EXCEPT !.outline = @ + 1])
    /\ jobs' = Append(jobs, [NewJob("draft", None) EXCEPT !.status = "running", !.attempts = 1,
                                                          !.outline = session.outline])
    /\ Respond(r)
    /\ UNCHANGED <<drafts, nextDraft, notices>>

\* Chapters whose number and title were cleared are dropped: the outline may be blank.
SubmitStructure(r) ==
    \E blank \in BOOLEAN :
        Leave(r, "outline", [session EXCEPT !.outline = @ + 1, !.blank = blank], "draft")

\* Steps 5 and 6 are left without a job.
LeaveQuietly(r) ==
    /\ requests[r].form \in {"drafted", "reviewed"}
    /\ session' = IF CanLeave(session) THEN Advanced(session) ELSE session
    /\ Respond(r)
    /\ UNCHANGED <<jobs, drafts, nextDraft, notices>>

\* The answers are written back as they were read, with one more.
Answer(r) ==
    /\ requests[r].form = "answer"
    /\ session' = [session EXCEPT !.answered = requests[r].answered \cup {requests[r].item}]
    /\ Respond(r)
    /\ UNCHANGED <<jobs, drafts, nextDraft, notices>>

\* The clauses are written back as they were read, with one text replaced.
SaveClause(r) ==
    /\ requests[r].form = "clause"
    /\ session' = [session EXCEPT !.content =
                       [requests[r].content EXCEPT !.text[requests[r].item] = "edited"]]
    /\ Respond(r)
    /\ UNCHANGED <<jobs, drafts, nextDraft, notices>>

\* regenerate_clause enqueues a job; a failure is shown and nothing waits for it.
Regenerate(c) ==
    /\ session.content.outline # None
    /\ Room
    /\ jobs' \in Enqueued("regenerate", c)
    /\ UNCHANGED <<session, requests, drafts, nextDraft, notices>>

\* submit_review: under the session's advisory lock the claim is read again; the
\* draft is created by a transaction of its own and then claimed.
TriggerReview(r) ==
    /\ requests[r].form = "review"
    /\ IF session.review = None
       THEN /\ nextDraft <= MaxDrafts
            /\ drafts' = drafts \cup {nextDraft}
            /\ nextDraft' = nextDraft + 1
            /\ session' = [session EXCEPT !.review = nextDraft]
       ELSE UNCHANGED <<session, drafts, nextDraft>>
    /\ Respond(r)
    /\ UNCHANGED <<jobs, notices>>

\* Mutant: the reference is kept.
DanglingDelete(d) ==
    /\ drafts' = drafts \ {d}
    /\ UNCHANGED <<session, jobs, requests, nextDraft, notices>>

\* A draft is deleted: the session's reference to it becomes null (migration 006).
DeleteDraft(d) ==
    /\ drafts' = drafts \ {d}
    /\ session' = IF session.review = d THEN [session EXCEPT !.review = None] ELSE session
    /\ UNCHANGED <<jobs, requests, nextDraft, notices>>

\* export_docx marks the session completed, whatever it was, and looks for a
\* notification of the session ...
Export(r) ==
    /\ requests[r].form = "export"
    /\ session' = [session EXCEPT !.status = "completed"]
    /\ requests' = [requests EXCEPT ![r] =
                        IF notices = 0 THEN [Idle EXCEPT !.form = "notify"] ELSE Idle]
    /\ UNCHANGED <<jobs, drafts, nextDraft, notices>>

\* ... which it then inserts, on another connection.
Notify(r) ==
    /\ requests[r].form = "notify"
    /\ notices' = notices + 1
    /\ Respond(r)
    /\ UNCHANGED <<session, jobs, drafts, nextDraft>>

-----------------------------------------------------------------------------
\* Jobs

Running == {j \in 1..Len(jobs) : jobs[j].status = "running"}

\* The handler reads the session.
StartJob(j) ==
    /\ jobs[j].status = "pending"
    /\ Cardinality(Running) < Workers
    /\ jobs' = [jobs EXCEPT ![j].status = "running", ![j].attempts = @ + 1,
                            ![j].outline = IF jobs[j].kind = "draft" /\ ~session.blank
                                           THEN session.outline ELSE None,
                            ![j].content = IF jobs[j].kind = "regenerate" THEN session.content
                                                                          ELSE NoContent]
    /\ UNCHANGED <<session, requests, drafts, nextDraft, notices>>

\* What a finished job leaves in the session
Filled(j) ==
    CASE jobs[j].kind = "clarify"    -> [session EXCEPT !.asked = TRUE, !.answered = {}]
      [] jobs[j].kind = "research"   -> [session EXCEPT !.research = TRUE]
      [] jobs[j].kind = "structure"  -> [session EXCEPT !.outline = @ + 1, !.blank = FALSE]
      [] jobs[j].kind = "draft"      ->
            [session EXCEPT !.content = [NoContent EXCEPT !.outline = jobs[j].outline]]
      [] jobs[j].kind = "regenerate" ->
            [session EXCEPT !.content = [jobs[j].content EXCEPT !.text[jobs[j].clause] = "regenerated"]]

Settled(j, status) ==
    [jobs EXCEPT ![j].status = status, ![j].outline = None, ![j].content = NoContent]
Retried(j) == Settled(j, IF jobs[j].attempts < MaxAttempts THEN "pending" ELSE "failed")

\* A blank outline is refused before the retry gate of drafter_draft.
FinishJob(j) ==
    /\ jobs[j].status = "running"
    /\ jobs[j].kind = "draft" => jobs[j].outline # None
    /\ session' = Filled(j)
    /\ jobs' \in {Settled(j, "success")} \cup IF "rerun" \in Faults THEN {Retried(j)} ELSE {}
    /\ UNCHANGED <<requests, drafts, nextDraft, notices>>

\* Mutant: a regeneration that fails abandons the session like the others.
FailAnyJob(j) ==
    /\ jobs[j].status = "running"
    /\ jobs' = Retried(j)
    /\ \/ UNCHANGED session
       \/ /\ jobs[j].attempts >= MaxAttempts
          /\ session' = [session EXCEPT !.status = "abandoned"]
    /\ UNCHANGED <<requests, drafts, nextDraft, notices>>

\* The last attempt abandons the session, unless it failed outside the retry
\* gate (budget, blank outline, the write of the research) or was reaped, or
\* the job is a regeneration.
FailJob(j) ==
    /\ jobs[j].status = "running"
    /\ jobs' = Retried(j)
    /\ \/ UNCHANGED session
       \/ /\ jobs[j].attempts >= MaxAttempts
          /\ jobs[j].kind # "regenerate"
          /\ session' = [session EXCEPT !.status = "abandoned"]
    /\ UNCHANGED <<requests, drafts, nextDraft, notices>>

-----------------------------------------------------------------------------

JobStep == \E j \in 1..Len(jobs) : StartJob(j) \/ FinishJob(j) \/ FailJob(j)

Next ==
    \/ \E r \in Requests :
         \/ Receive(r)
         \/ SubmitIntent(r) \/ LeaveClarify(r) \/ LeaveResearch(r) \/ SubmitStructure(r)
         \/ LeaveQuietly(r) \/ Answer(r) \/ SaveClause(r)
         \/ TriggerReview(r) \/ Export(r) \/ Notify(r)
    \/ \E c \in Clauses : Regenerate(c)
    \/ \E d \in drafts : DeleteDraft(d)
    \/ JobStep

Spec == Init /\ [][Next]_vars

\* A worker that is not shut down claims what is pending and ends what it runs.
\* The forms owe nothing.
LiveSpec == Spec /\ WF_vars(JobStep)

-----------------------------------------------------------------------------
\* Properties

TypeOK ==
    /\ session \in Session
    /\ jobs \in Seq(Job)
    /\ requests \in [Requests -> Request]
    /\ drafts \subseteq 1..MaxDrafts
    /\ nextDraft \in 1..(MaxDrafts + 1)
    /\ notices \in Nat
    /\ session.review \in drafts \cup {None}

\* A step that has been reached has everything the steps before it promise,
\* and three answers were really given (#816, _GUARDS); the draft that was made
\* for review may have been deleted since.
PrerequisitesMet ==
    /\ session.step >= 2 => session.intent
    /\ session.step >= 3 => Cardinality(session.answered) >= MinAnswers
    /\ session.step >= 4 => session.research
    /\ session.step >= 5 => session.outline # None
    /\ session.step >= 6 => session.content.outline # None
    /\ session.step >= 7 => nextDraft > 1

Latest(kind) == {j \in 1..Len(jobs) : jobs[j].kind = kind
                   /\ \A i \in (j + 1)..Len(jobs) : jobs[i].kind # kind}
JobFailed(n) == \E j \in Latest(StepJob[n]) : jobs[j].status = "failed"

\* A step whose page waits for a result has a job that will bring it, or one
\* that failed and is shown to have failed: "No job enqueued yet - shouldn't
\* happen" (_step_renderers.py).
StepHasItsJob ==
    \A n \in 2..5 : session.step = n /\ Missing(n) =>
        \E j \in Latest(StepJob[n]) : jobs[j].status # "success"

\* The clauses were written for the outline the session shows and exports.
TextMatchesOutline ==
    session.content.outline # None => session.content.outline = session.outline

\* Every draft that was made for review and exists is the one the session names:
\* pressing the button twice makes one draft (#852 E3).
OneReviewDraft == drafts \subseteq {session.review}

\* The owner is told once that the draft is ready, however often it is downloaded.
OneNotice == notices <= 1

\* A session hangs together, whatever forms were sent twice and whatever jobs ended
\* late: its step is earned, its text is that of its outline, and one draft and one
\* notice have come of it.
SessionHangsTogether == PrerequisitesMet /\ TextMatchesOutline /\ OneReviewDraft /\ OneNotice

\* An answer that was saved stays saved.
AnswersKept == [][session.answered \subseteq session'.answered]_vars

\* Completed and abandoned sessions stay so (archive_warning.py: both are terminal).
TerminalStatus == [][session.status # "active" => session'.status = session.status]_vars

\* What was done stays done: answers, and the end of a session.
NothingIsUndone == AnswersKept /\ TerminalStatus

\* A clause its owner has edited changes only by a regeneration of that clause.
EditsAreKept ==
    [][\A c \in Clauses :
         session.content.text[c] = "edited" /\ session'.content.text[c] # "edited" =>
            \E j \in Running : jobs[j].kind = "regenerate" /\ jobs[j].clause = c
                                 /\ jobs'[j].status # "running"]_vars

\* A page that waits for a job is reloaded in the end: with the result or an error.
WaitEnds ==
    \A n \in 2..5 : (session.step = n /\ Missing(n)) ~> (~Missing(n) \/ JobFailed(n))

=============================================================================
