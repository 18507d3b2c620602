------------------------- MODULE SyncPipeline_proofs -------------------------
(***************************************************************************)
(* Proofs about SyncPipeline, for any number of runs and pushes, any sizes *)
(* of the graphs, and whatever the environment may do.                     *)
(***************************************************************************)
EXTENDS SyncPipeline, TLAPS

\* The facts about the constants that the provers need, in one place.
LEMMA Constants ==
    /\ MaxPush \in Nat /\ MinTriples \in Nat \ {0} /\ NoRun \notin Run
    /\ Size \in [Known -> Nat]
    /\ 0 \in Known /\ Commit \subseteq Known /\ Known \subseteq Nat
BY SyncAssumption DEF Known, Commit

----------------------------------------------------------------------------
(* The inductive invariant *)

\* The lock is the run's that is between lock and release.
LockIsHeld == \A r \in Run : lock = r <=> runs[r].pc \in Pipeline

\* Only pushes that have happened are delivered and synced.
PastIsKnown ==
    /\ \A c \in Commit : requests[c] # "none" => c <= head
    /\ \A c \in accepted : c <= head
    /\ live.commit <= head

\* Nothing more is going to happen to the push: its sync succeeded, or failed, or
\* was given up without a word.
Closed(c) == Settled(c) \/ c <= unlogged

\* What a run between lock and release may rely on.  Once it has cloned, its
\* commit is not older than the live one; from the verification on, the staging
\* graph is its own; from the COPY to the success row, so is the live graph; and
\* before it gives the lock back, its commit is closed.
Cloned == Pipeline \ {"insert", "clone"}
HolderInv(r) ==
    /\ runs[r].pc \in Cloned => live.commit <= runs[r].commit /\ runs[r].commit <= head
    /\ runs[r].pc \in {"verify", "promote"} => staging = runs[r].commit
    /\ runs[r].pc \in {"check", "clean", "succeed"} =>
          live = [commit |-> runs[r].commit, whole |-> TRUE]
    /\ runs[r].pc \in {"after", "release"} => Closed(runs[r].commit)

IndInv ==
    /\ TypeOK /\ LockIsHeld /\ PastIsKnown
    /\ \A r \in Run : HolderInv(r)
    /\ ForgottenIsUnlogged

----------------------------------------------------------------------------
(* Steps of a run *)

PC == {"free", "start", "loser", "note", "unqueued", "drain", "spawn", "done"} \cup Pipeline
Rows == {"none", "recent", "old", "closed"}

\* What a step leaves alone and what it changes when it updates one run.
LEMMA RunChanges ==
    ASSUME TypeOK, NEW r \in Run, NEW state \in RunState,
           runs' = [runs EXCEPT ![r] = state]
    PROVE  /\ runs' \in [Run -> RunState]
           /\ runs'[r] = state
           /\ \A q \in Run : q # r => runs'[q] = runs[q]
BY DEF TypeOK

LEMMA GoChanges ==
    ASSUME TypeOK, NEW r \in Run, NEW pc \in PC, Go(r, pc)
    PROVE  /\ runs' \in [Run -> RunState]
           /\ runs'[r].pc = pc
           /\ runs'[r].commit = runs[r].commit
           /\ \A q \in Run : q # r => runs'[q] = runs[q]
BY DEF TypeOK, Go, RunState, PC

LEMMA RowChanges ==
    ASSUME TypeOK, NEW r \in Run, NEW pc \in PC, NEW row \in Rows,
           runs' = [runs EXCEPT ![r] = [@ EXCEPT !.pc = pc, !.row = row]]
    PROVE  /\ runs' \in [Run -> RunState]
           /\ runs'[r].pc = pc
           /\ runs'[r].commit = runs[r].commit
           /\ \A q \in Run : q # r => runs'[q] = runs[q]
BY DEF TypeOK, RunState, PC, Rows

LEMMA CloneChanges ==
    ASSUME TypeOK, NEW r \in Run, NEW pc \in PC,
           runs' = [runs EXCEPT ![r] = [@ EXCEPT !.pc = pc, !.commit = head]]
    PROVE  /\ runs' \in [Run -> RunState]
           /\ runs'[r].pc = pc
           /\ runs'[r].commit = head
           /\ \A q \in Run : q # r => runs'[q] = runs[q]
BY DEF TypeOK, RunState, PC

LEMMA FreshRuns ==
    /\ Free \in RunState
    /\ \A by \in {"hook", "admin", "rerun", "cli"}, proc \in {"web", "cli"}, row \in Rows :
          /\ Started(by, proc, row) \in RunState
          /\ Started(by, proc, row).pc = "start"
BY Constants DEF Free, Started, RunState, Rows

LEMMA FinalizedType ==
    ASSUME TypeOK, NEW r \in Run
    PROVE  \A logged \in BOOLEAN : Finalized(r, logged) \in Rows
BY DEF Finalized, Rows, TypeOK, RunState

LEMMA LoggingType == Logging \subseteq BOOLEAN
BY DEF Logging

LEMMA CloseChanges ==
    ASSUME TypeOK, NEW r \in Run, NEW pc \in PC, NEW logged \in BOOLEAN,
           runs' = [runs EXCEPT ![r] = [@ EXCEPT !.pc = pc, !.row = Finalized(r, logged)]]
    PROVE  /\ runs' \in [Run -> RunState]
           /\ runs'[r].pc = pc
           /\ runs'[r].commit = runs[r].commit
           /\ \A q \in Run : q # r => runs'[q] = runs[q]
<1>1. Finalized(r, logged) \in Rows
  BY FinalizedType
<1> QED
  BY <1>1, RowChanges

\* What the three steps that finalise a row have in common.
LEMMA Finalizes ==
    ASSUME NEW r \in Run, NoteSkip(r) \/ Succeed(r) \/ Fail(r)
    PROVE  \E pc \in PC \cap {"done", "after", "release"}, logged \in BOOLEAN :
               runs' = [runs EXCEPT ![r] = [@ EXCEPT !.pc = pc, !.row = Finalized(r, logged)]]
BY LoggingType DEF NoteSkip, Succeed, Fail, PC, Pipeline

LEMMA UpdateType ==
    ASSUME NEW g, NEW h, NEW u \in Update(g, h)
    PROVE  u[1] \in {g, h} /\ u[2] \in BOOLEAN /\ (u[2] => u[1] = h)
<1>1. u = <<h, TRUE>> \/ u = <<g, FALSE>> \/ u = <<h, FALSE>>
  BY DEF Update
<1>2. /\ <<h, TRUE>>[1] = h /\ <<h, TRUE>>[2] = TRUE
      /\ <<g, FALSE>>[1] = g /\ <<g, FALSE>>[2] = FALSE
      /\ <<h, FALSE>>[1] = h /\ <<h, FALSE>>[2] = FALSE
  OBVIOUS
<1> QED
  BY <1>1, <1>2

----------------------------------------------------------------------------
(* Type correctness *)

\* The live graph is a commit's only because the staging graph that is copied is.
LEMMA TypeOKStep ==
    ASSUME TypeOK, \A r \in Run : At(r, "promote") => staging = runs[r].commit,
           [Next]_vars
    PROVE  TypeOK'
<1> USE Constants
<1> USE DEF hooks, admins, graphs, told
<1>1. CASE UNCHANGED vars
  BY <1>1 DEF TypeOK, vars
<1>2. CASE Push
  BY <1>2 DEF Push, TypeOK, Known
<1>3. ASSUME NEW c \in Commit, Deliver(c)
      PROVE  TypeOK'
  BY <1>3 DEF Deliver, TypeOK
<1>4. ASSUME NEW c \in Commit, Handle(c)
      PROVE  TypeOK'
  <2>1. \A kept \in Swept : kept \subseteq Commit
    BY DEF TypeOK, Swept
  <2>2. CASE QueueDelivery(c)
    BY <2>1, <2>2 DEF QueueDelivery, Answer, TypeOK
  <2>3. CASE StoreDelivery(c)
    BY <2>1, <2>3 DEF StoreDelivery, TypeOK
  <2>4. CASE Refuse(c)
    BY <2>4 DEF Refuse, Answer, TypeOK
  <2>5. ASSUME NEW r \in Run, StartFromWebhook(c, r)
        PROVE  TypeOK'
    <3>1. Started("hook", "web", "none") \in RunState
      BY FreshRuns DEF Rows
    <3> QED
      BY <2>5, <3>1 DEF StartFromWebhook, Answer, TypeOK
  <2> QED
    BY <1>4, <2>2, <2>3, <2>4, <2>5 DEF Handle
<1>5. CASE AdminClick
  BY <1>5 DEF AdminClick, TypeOK, SeesRunning, RecentRow
<1>6. CASE AdminHandler
  <2>1. CASE AdminQueue
    BY <2>1 DEF AdminQueue, TypeOK
  <2>2. ASSUME NEW r \in Run, AdminStart(r)
        PROVE  TypeOK'
    <3>1. \A row \in Rows : Started("admin", "web", row) \in RunState
      BY FreshRuns
    <3> QED
      BY <2>2, <3>1 DEF AdminStart, TypeOK, Rows
  <2> QED
    BY <1>6, <2>1, <2>2 DEF AdminHandler
<1>7. ASSUME NEW r \in Run, CliStart(r) \/ SpawnRerun(r) \/ Finish(r) \/ CliExit(r)
      PROVE  TypeOK'
  <2>1. /\ Started("cli", "cli", "none") \in RunState
        /\ Started("rerun", runs[r].proc, "none") \in RunState
        /\ Free \in RunState
    BY FreshRuns DEF Rows, TypeOK, RunState
  <2>2. runs' \in [Run -> RunState]
    BY <1>7, <2>1 DEF CliStart, SpawnRerun, Finish, CliExit, TypeOK
  <2> QED
    BY <1>7, <2>2
       DEF CliStart, SpawnRerun, Finish, CliExit, TypeOK, Leftover, ClearFlag, Remembered
<1>8. ASSUME NEW r \in Run, AcquireLock(r) \/ LoseLock(r) \/ Verify(r) \/ Ingest(r)
                            \/ ReleaseLock(r) \/ Drain(r) \/ CheckLive(r)
      PROVE  TypeOK'
  <2>1. PICK pc \in PC : Go(r, pc)
    BY <1>8 DEF AcquireLock, LoseLock, Verify, Ingest, ReleaseLock, Drain, CheckLive, PC,
                Pipeline
  <2>2. runs' \in [Run -> RunState]
    BY <2>1, GoChanges
  <2> QED
    BY <1>8, <2>2 DEF AcquireLock, LoseLock, Verify, Ingest, ReleaseLock, Drain, CheckLive,
                      TypeOK
<1>9. ASSUME NEW r \in Run, NoteSkip(r) \/ InsertRow(r) \/ Succeed(r) \/ Fail(r)
      PROVE  TypeOK'
  <2>1. runs' \in [Run -> RunState]
    <3>1. CASE InsertRow(r)
      <4>1. PICK row \in Rows :
                runs' = [runs EXCEPT ![r] = [@ EXCEPT !.pc = "clone", !.row = row]]
        BY <3>1 DEF InsertRow, TypeOK, RunState, Rows
      <4>2. "clone" \in PC
        BY DEF PC, Pipeline
      <4> QED
        BY <4>1, <4>2, RowChanges
    <3>2. CASE NoteSkip(r) \/ Succeed(r) \/ Fail(r)
      BY <3>2, Finalizes, CloseChanges
    <3> QED
      BY <1>9, <3>1, <3>2
  <2>2. reported' \in Known /\ unlogged' \in Known
    BY <1>9 DEF NoteSkip, InsertRow, Succeed, Fail, GivesUp, TypeOK, Larger, RunState
  <2> QED
    BY <1>9, <2>1, <2>2 DEF NoteSkip, InsertRow, Succeed, Fail, TypeOK
<1>10. ASSUME NEW r \in Run, Clone(r)
       PROVE  TypeOK'
  <2>1. PICK pc \in {"drop", "fail"} :
            runs' = [runs EXCEPT ![r] = [@ EXCEPT !.pc = pc, !.commit = head]]
    BY <1>10 DEF Clone
  <2>2. pc \in PC
    BY DEF PC, Pipeline
  <2>3. runs' \in [Run -> RunState]
    BY <2>1, <2>2, CloneChanges
  <2> QED
    BY <1>10, <2>3 DEF Clone, TypeOK
<1>11. ASSUME NEW r \in Run, DropStale(r) \/ Upload(r) \/ UndoStaging(r) \/ CleanUp(r)
       PROVE  TypeOK'
  <2>1. PICK pc \in PC : Go(r, pc)
    BY <1>11 DEF DropStale, Upload, UndoStaging, CleanUp, PC, Pipeline
  <2>2. runs' \in [Run -> RunState]
    BY <2>1, GoChanges
  <2>3. staging' \in {staging, Nothing, runs[r].commit}
    BY <1>11, UpdateType DEF DropStale, Upload, UndoStaging, CleanUp
  <2>4. staging' \in Known \cup {Nothing}
    BY <2>3 DEF TypeOK, RunState
  <2>5. UNCHANGED <<head, hooks, admins, rerun, lock, phantom, live, told>>
    BY <1>11 DEF DropStale, Upload, UndoStaging, CleanUp
  <2> QED
    BY <2>2, <2>4, <2>5 DEF TypeOK
<1>12. ASSUME NEW r \in Run, Promote(r)
       PROVE  TypeOK'
  <2>0. PICK pc \in PC : Go(r, pc)
    BY <1>12 DEF Promote, PC, Pipeline
  <2>1. runs' \in [Run -> RunState]
    BY <2>0, GoChanges
  <2>2. staging \in Known
    BY <1>12 DEF Promote, TypeOK, RunState
  <2>3. \A w \in BOOLEAN : [commit |-> staging, whole |-> w] \in [commit : Known, whole : BOOLEAN]
    BY <2>2
  <2>4. live' = live \/ \E w \in BOOLEAN : live' = [commit |-> staging, whole |-> w]
    BY <1>12 DEF Promote
  <2>5. live' \in [commit : Known, whole : BOOLEAN]
    BY <2>3, <2>4 DEF TypeOK
  <2> QED
    BY <1>12, <2>1, <2>5 DEF Promote, TypeOK
<1>13. ASSUME NEW r \in Run, RowAges(r)
       PROVE  TypeOK'
  <2>1. [runs[r] EXCEPT !.row = "old"] \in RunState
    BY DEF TypeOK, RunState
  <2> QED
    BY <1>13, <2>1 DEF RowAges, TypeOK
<1>14. CASE Restart
  <2>1. \A r \in Run : Cleaned(r) \in RunState
    BY DEF Cleaned, TypeOK, RunState
  <2>2. runs' \in [Run -> RunState]
    BY <1>14, <2>1, FreshRuns DEF Restart, TypeOK
  <2>3. phantom' \in BOOLEAN /\ lock' \in Run \cup {NoRun}
    BY <1>14 DEF Restart, LockFreed, TypeOK, WebRow
  <2>4. requests' \in [Commit -> {"none", "busy", "idle", "stored", "answered"}]
    BY <1>14 DEF Restart
  <2> QED
    BY <1>14, <2>2, <2>3, <2>4 DEF Restart, TypeOK, Remembered
<1>15. CASE PhantomAges
  BY <1>15 DEF PhantomAges, TypeOK
<1>16. ASSUME NEW r \in Run, QueueRerun(r)
       PROVE  TypeOK'
  <2>1. "note" \in PC /\ "unqueued" \in PC
    BY DEF PC
  <2>2. runs' \in [Run -> RunState]
    BY <1>16, <2>1, GoChanges, CloneChanges DEF QueueRerun
  <2> QED
    BY <1>16, <2>2 DEF QueueRerun, TypeOK
<1> QED
  BY <1>1, <1>2, <1>3, <1>4, <1>5, <1>6, <1>7, <1>8, <1>9, <1>10, <1>11, <1>12, <1>13,
     <1>14, <1>15, <1>16 DEF Next, RunStep

----------------------------------------------------------------------------
(* What the other conjuncts of IndInv need of a step *)

\* Nothing that has happened becomes unknown, and what is closed stays closed.
Monotone ==
    /\ head <= head' /\ live.commit <= live'.commit
    /\ reported <= reported' /\ unlogged <= unlogged'

\* The numbers a state holds.
Numbers ==
    /\ head \in Nat /\ live.commit \in Nat /\ reported \in Nat /\ unlogged \in Nat
    /\ \A r \in Run : runs[r].commit \in Nat

LEMMA StateNumbers == (TypeOK => Numbers) /\ (TypeOK' => Numbers')
<1>1. ASSUME TypeOK PROVE Numbers
  BY <1>1, Constants DEF TypeOK, Numbers, RunState
<1>2. ASSUME TypeOK' PROVE Numbers'
  BY <1>2, Constants DEF TypeOK, Numbers, RunState
<1> QED
  BY <1>1, <1>2

LEMMA ClosedStays ==
    ASSUME TypeOK, TypeOK', Monotone, NEW c \in Nat, Closed(c)
    PROVE  Closed(c)'
BY StateNumbers DEF Numbers, Monotone, Closed, Settled

\* While r holds the lock, no other run is in the pipeline.
LEMMA HolderIsAlone ==
    ASSUME LockIsHeld, NEW r \in Run, runs[r].pc \in Pipeline, NEW q \in Run, q # r
    PROVE  runs[q].pc \notin Pipeline
BY DEF LockIsHeld

\* A step of a run that is not in the pipeline is no concern of the one that is.
LEMMA OutsideStep ==
    ASSUME IndInv, TypeOK', NEW r \in Run, Monotone,
           UNCHANGED <<lock, live, staging>>,
           \A q \in Run : q # r => runs'[q] = runs[q],
           runs[r].pc \notin Pipeline, runs'[r].pc \notin Pipeline
    PROVE  LockIsHeld' /\ \A q \in Run : HolderInv(q)'
<1> USE Constants
<1>1. LockIsHeld'
  BY DEF IndInv, LockIsHeld
<1>2. ASSUME NEW q \in Run
      PROVE  HolderInv(q)'
  <2>1. CASE q = r
    BY <2>1 DEF HolderInv, Cloned, Pipeline
  <2>2. CASE q # r
    <3>1. HolderInv(q) /\ runs'[q] = runs[q]
      BY <2>2 DEF IndInv
    <3>2. Numbers /\ Numbers'
      BY StateNumbers DEF IndInv
    <3>3. Closed(runs[q].commit) => (Closed(runs[q].commit))'
      BY <3>1, <3>2 DEF Numbers, Monotone, Closed, Settled
    <3> QED
      BY <3>1, <3>2, <3>3 DEF HolderInv, Numbers, Monotone
  <2> QED
    BY <2>1, <2>2
<1> QED
  BY <1>1, <1>2

\* A step in the pipeline is answerable for the run's own part only.
LEMMA HolderStep ==
    ASSUME IndInv, TypeOK', NEW r \in Run, UNCHANGED lock,
           \A q \in Run : q # r => runs'[q] = runs[q],
           runs[r].pc \in Pipeline, runs'[r].pc \in Pipeline, HolderInv(r)'
    PROVE  LockIsHeld' /\ \A q \in Run : HolderInv(q)'
<1>1. \A q \in Run : q # r => runs[q].pc \notin Pipeline
  BY HolderIsAlone DEF IndInv
<1> QED
  BY <1>1 DEF IndInv, LockIsHeld, HolderInv, Cloned, Pipeline

\* An accepted push stays remembered over a step that changes run r, if whatever
\* r was going to sync is still going to be, or is closed, or asked for again.
LEMMA StillRemembered ==
    ASSUME IndInv, TypeOK', NEW r \in Run, Monotone, accepted' \subseteq accepted,
           \A q \in Run : q # r => runs'[q] = runs[q],
           rerun => rerun' \/ runs'[r].pc = "spawn",
           \A c \in accepted : WillSync(r, c) => WillSync(r, c)' \/ Closed(c)' \/ rerun'
    PROVE  ForgottenIsUnlogged'
<1> SUFFICES ASSUME NEW c \in accepted'
             PROVE  Closed(c)' \/ rerun' \/ \E q \in Run : WillSync(q, c)'
  BY DEF ForgottenIsUnlogged, Remembered, Closed
<1> USE Constants
<1>1. c \in accepted /\ c \in Nat
  BY DEF IndInv, TypeOK
<1>2. CASE Closed(c)
  BY <1>1, <1>2, ClosedStays DEF IndInv
<1>3. CASE rerun
  BY <1>3 DEF WillSync
<1>4. ASSUME NEW q \in Run, WillSync(q, c)
      PROVE  Closed(c)' \/ rerun' \/ \E p \in Run : WillSync(p, c)'
  <2>1. CASE q = r
    BY <1>1, <1>4, <2>1
  <2>2. CASE q # r
    <3>1. WillSync(q, c)'
      BY <1>4, <2>2 DEF WillSync
    <3> QED
      BY <3>1
  <2> QED
    BY <2>1, <2>2
<1> QED
  BY <1>1, <1>2, <1>3, <1>4 DEF IndInv, ForgottenIsUnlogged, Remembered, Closed

----------------------------------------------------------------------------
(* The steps *)

\* What a run gives up on is closed, and nothing is opened again.
LEMMA GivenUp ==
    ASSUME Numbers, NEW r \in Run, NEW logged \in BOOLEAN, GivesUp(r, logged)
    PROVE  /\ reported <= reported' /\ unlogged <= unlogged'
           /\ runs[r].commit <= reported' \/ runs[r].commit <= unlogged'
<1>1. CASE logged
  BY <1>1 DEF GivesUp, Larger, Numbers
<1>2. CASE ~logged
  BY <1>2 DEF GivesUp, Larger, Numbers
<1> QED
  BY <1>1, <1>2

\* Only a COPY changes the live graph, and only these steps give up on a push.
LEMMA OnlyTheseMoveIt ==
    ASSUME [Next]_vars
    PROVE  /\ UNCHANGED head \/ Push
           /\ UNCHANGED live \/ \E r \in Run : Promote(r)
           /\ UNCHANGED told \/ \E r \in Run : Fail(r) \/ NoteSkip(r)
<1> USE DEF hooks, admins, graphs
<1>1. ASSUME NEW r \in Run, RunStep(r)
      PROVE  UNCHANGED head /\ (UNCHANGED live \/ Promote(r))
                            /\ (UNCHANGED told \/ Fail(r) \/ NoteSkip(r))
  BY <1>1 DEF RunStep, AcquireLock, LoseLock, QueueRerun, NoteSkip, InsertRow, Clone, DropStale,
              Upload, UndoStaging, Verify, Promote, CheckLive, CleanUp, Succeed, Fail, Ingest,
              ReleaseLock, Drain, SpawnRerun, Finish
<1>2. ASSUME NEW c \in Commit, Deliver(c) \/ Handle(c)
      PROVE  UNCHANGED <<head, live, told>>
  BY <1>2 DEF Deliver, Handle, QueueDelivery, StoreDelivery, Refuse, StartFromWebhook
<1>3. CASE AdminClick \/ AdminHandler \/ Restart \/ PhantomAges \/ UNCHANGED vars
  BY <1>3 DEF AdminClick, AdminHandler, AdminQueue, AdminStart, Restart, PhantomAges, vars
<1>4. ASSUME NEW r \in Run, CliStart(r) \/ CliExit(r) \/ RowAges(r)
      PROVE  UNCHANGED <<head, live, told>>
  BY <1>4 DEF CliStart, CliExit, RowAges
<1>5. CASE Push
  BY <1>5 DEF Push
<1> QED
  BY <1>1, <1>2, <1>3, <1>4, <1>5 DEF Next

LEMMA MonotoneStep ==
    ASSUME IndInv, TypeOK', [Next]_vars
    PROVE  Monotone
<1> USE DEF hooks, admins, graphs, told
<1>a. Numbers /\ Numbers'
  BY StateNumbers DEF IndInv
<1>1. ASSUME NEW r \in Run, Promote(r)
      PROVE  live.commit <= live'.commit
  <2>1. /\ staging = runs[r].commit /\ live.commit <= runs[r].commit
    BY <1>1 DEF Promote, At, IndInv, HolderInv, Cloned, Pipeline
  <2>2. live'.commit = live.commit \/ live'.commit = staging
    BY <1>1 DEF Promote
  <2> QED
    BY <1>a, <2>1, <2>2 DEF Numbers
<1>2. ASSUME NEW r \in Run, Fail(r) \/ NoteSkip(r)
      PROVE  reported <= reported' /\ unlogged <= unlogged'
  <2>1. (\E logged \in BOOLEAN : GivesUp(r, logged)) \/ UNCHANGED told
    BY <1>2, LoggingType DEF Fail, NoteSkip
  <2>2. UNCHANGED told => reported <= reported' /\ unlogged <= unlogged'
    BY <1>a DEF Numbers
  <2> QED
    BY <1>a, <2>1, <2>2, GivenUp
<1>3. head <= head'
  BY <1>a, OnlyTheseMoveIt DEF Push, Numbers
<1> QED
  BY <1>a, <1>1, <1>2, <1>3, OnlyTheseMoveIt DEF Monotone, Numbers

LEMMA PastStep ==
    ASSUME IndInv, TypeOK', [Next]_vars
    PROVE  PastIsKnown'
<1> USE DEF hooks, admins, graphs, told
<1>0. Numbers /\ Numbers' /\ Monotone
  BY StateNumbers, MonotoneStep DEF IndInv
<1> DEFINE Pushed == /\ \A c \in Commit : requests'[c] # "none" => c <= head
                     /\ \A c \in accepted' : c <= head
           Synced == live'.commit <= head'
<1>1. Pushed
  <2>1. \A c \in Commit : requests[c] # "none" => c <= head
    BY DEF IndInv, PastIsKnown
  <2>2. \A c \in accepted : c \in Commit /\ c <= head
    BY DEF IndInv, PastIsKnown, TypeOK
  <2>3. requests \in [Commit -> {"none", "busy", "idle", "stored", "answered"}]
    BY DEF IndInv, TypeOK
  <2>4. CASE UNCHANGED <<requests, accepted>>
    BY <2>1, <2>2, <2>4
  <2>5. ASSUME NEW c \in Commit, Deliver(c) \/ Handle(c)
        PROVE  Pushed
    BY <2>1, <2>2, <2>3, <2>5
       DEF Deliver, Handle, QueueDelivery, StoreDelivery, Refuse, StartFromWebhook, Answer
  <2>6. ASSUME NEW r \in Run, CliExit(r)
        PROVE  Pushed
    BY <2>1, <2>2, <2>6 DEF CliExit, Remembered
  <2>7. CASE Restart
    BY <2>1, <2>2, <2>7 DEF Restart, Remembered
  <2>8. CASE Push \/ AdminClick \/ AdminHandler \/ PhantomAges \/ UNCHANGED vars
    BY <2>4, <2>8 DEF Push, AdminClick, AdminHandler, AdminQueue, AdminStart, PhantomAges, vars
  <2>9. ASSUME NEW r \in Run, RunStep(r) \/ CliStart(r) \/ RowAges(r)
        PROVE  UNCHANGED <<requests, accepted>>
    BY <2>9 DEF RunStep, AcquireLock, LoseLock, NoteSkip, InsertRow, Clone, DropStale,
                Upload, UndoStaging, Verify, CheckLive, CleanUp, Succeed, Ingest, Fail,
                ReleaseLock, Drain, SpawnRerun, Finish, Promote, QueueRerun, CliStart, RowAges
  <2> QED
    BY <2>4, <2>5, <2>6, <2>7, <2>8, <2>9 DEF Next
<1>2. Synced
  <2>1. ASSUME NEW r \in Run, Promote(r)
        PROVE  Synced
    <3>1. staging = runs[r].commit /\ runs[r].commit <= head
      BY <2>1 DEF Promote, At, IndInv, HolderInv, Cloned, Pipeline
    <3>2. live'.commit = live.commit \/ live'.commit = staging
      BY <2>1 DEF Promote
    <3> QED
      BY <1>0, <2>1, <3>1, <3>2 DEF Promote, Numbers, IndInv, PastIsKnown
  <2>2. CASE UNCHANGED live
    BY <1>0, <2>2 DEF Numbers, Monotone, IndInv, PastIsKnown
  <2> QED
    BY <2>1, <2>2, OnlyTheseMoveIt
<1>3. \A c \in Nat : c <= head => c <= head'
  BY <1>0 DEF Numbers, Monotone
<1>4. Commit \subseteq Nat /\ accepted' \subseteq Commit
  BY Constants DEF TypeOK
<1> QED
  BY <1>1, <1>2, <1>3, <1>4 DEF PastIsKnown

----------------------------------------------------------------------------
(* The lock, its holder and the accepted pushes, over each action *)

Guarded == LockIsHeld /\ (\A q \in Run : HolderInv(q)) /\ ForgottenIsUnlogged

\* Steps that leave the runs, the graphs and the lock alone.
LEMMA StillStep ==
    ASSUME IndInv, TypeOK', Monotone, UNCHANGED <<runs, lock, live, staging>>,
           rerun' \/ (accepted' \subseteq accepted /\ ~rerun)
    PROVE  Guarded'
<1>1. Numbers /\ Numbers'
  BY StateNumbers DEF IndInv
<1>2. \A c \in Nat : Closed(c) => Closed(c)'
  BY <1>1 DEF Numbers, Monotone, Closed, Settled
<1>3. LockIsHeld'
  BY DEF IndInv, LockIsHeld
<1>4. ASSUME NEW q \in Run
      PROVE  HolderInv(q)'
  BY <1>1, <1>2 DEF IndInv, HolderInv, Numbers, Monotone, Closed, Settled
<1>5. ForgottenIsUnlogged'
  <2>1. CASE rerun'
    BY <2>1 DEF ForgottenIsUnlogged, Remembered
  <2>2. CASE accepted' \subseteq accepted /\ ~rerun
    <3>1. \A c \in accepted : c \in Nat
      BY Constants DEF IndInv, TypeOK
    <3> QED
      BY <1>2, <2>2, <3>1 DEF IndInv, ForgottenIsUnlogged, Remembered, WillSync, Closed, Settled
  <2> QED
    BY <2>1, <2>2
<1> QED
  BY <1>3, <1>4, <1>5 DEF Guarded

\* Steps of the runs that do not have the lock.
LEMMA OutsiderSteps ==
    ASSUME IndInv, TypeOK', Monotone, NEW r \in Run,
           LoseLock(r) \/ QueueRerun(r) \/ NoteSkip(r) \/ Drain(r) \/ SpawnRerun(r) \/ Finish(r)
    PROVE  Guarded'
<1> USE DEF hooks, admins, graphs, told
<1>1. runs[r].commit \in Nat /\ \A c \in accepted : c \in Nat /\ c <= head
  BY StateNumbers, Constants DEF IndInv, TypeOK, Numbers, PastIsKnown
<1>2. UNCHANGED <<lock, live, staging, accepted>>
  BY DEF LoseLock, QueueRerun, NoteSkip, Drain, SpawnRerun, Finish
<1>3. PICK state \in RunState : runs' = [runs EXCEPT ![r] = state]
  <2>1. ASSUME LoseLock(r) \/ Drain(r) \/ SpawnRerun(r) \/ Finish(r)
        PROVE  \E state : runs' = [runs EXCEPT ![r] = state]
    BY <2>1 DEF LoseLock, Drain, SpawnRerun, Finish, Go
  <2>2. ASSUME QueueRerun(r) \/ NoteSkip(r)
        PROVE  \E state : runs' = [runs EXCEPT ![r] = state]
    BY <2>2 DEF QueueRerun, NoteSkip, Go
  <2> QED
    BY <2>1, <2>2 DEF IndInv, TypeOK
<1>4. runs'[r] = state /\ \A q \in Run : q # r => runs'[q] = runs[q]
  BY <1>3, RunChanges DEF IndInv
<1>5. runs[r].pc \in {"start", "loser", "note", "unqueued", "drain", "spawn", "done"}
  BY DEF LoseLock, QueueRerun, NoteSkip, Drain, SpawnRerun, Finish, At
<1>6. /\ runs'[r].pc \in {"free", "start", "loser", "note", "unqueued", "spawn", "done"}
      /\ rerun => rerun' \/ runs'[r].pc = "spawn"
      /\ runs[r].pc \in {"start", "loser", "spawn"} =>
            \/ runs'[r].pc \in {"start", "loser"} \/ rerun'
            \/ runs'[r].pc = "unqueued" /\ runs'[r].commit = head
  <2> USE DEF IndInv
  <2>1. CASE LoseLock(r)
    <3>1. runs'[r].pc = "loser"
      BY <2>1, GoChanges DEF LoseLock, PC
    <3> QED
      BY <2>1, <3>1 DEF LoseLock
  <2>2. CASE QueueRerun(r)
    <3>1. \/ rerun' /\ runs'[r].pc = "note"
          \/ UNCHANGED rerun /\ runs'[r].pc = "unqueued" /\ runs'[r].commit = head
      BY <2>2, GoChanges, CloneChanges DEF QueueRerun, PC
    <3> QED
      BY <3>1
  <2>3. CASE NoteSkip(r)
    <3>1. runs'[r].pc = "done" /\ runs[r].pc \in {"note", "unqueued"} /\ UNCHANGED rerun
      <4>1. PICK logged \in BOOLEAN :
                runs' = [runs EXCEPT ![r] = [@ EXCEPT !.pc = "done", !.row = Finalized(r, logged)]]
        BY <2>3, LoggingType DEF NoteSkip
      <4>2. "done" \in PC
        BY DEF PC
      <4>3. runs'[r].pc = "done"
        BY <4>1, <4>2, CloseChanges
      <4> QED
        BY <2>3, <4>3 DEF NoteSkip
    <3> QED
      BY <3>1
  <2>4. CASE Drain(r)
    BY <2>4, GoChanges DEF Drain, PC, At
  <2>5. CASE SpawnRerun(r)
    <3>1. runs[r].proc \in {"web", "cli"}
      BY DEF TypeOK, RunState
    <3>2. Started("rerun", runs[r].proc, "none").pc = "start"
      BY <3>1, FreshRuns DEF Rows
    <3> QED
      BY <1>4, <2>5, <3>2, RunChanges DEF SpawnRerun, TypeOK
  <2>6. CASE Finish(r)
    BY <2>6 DEF Finish, TypeOK, Free, At
  <2> QED
    BY <2>1, <2>2, <2>3, <2>4, <2>5, <2>6
<1>7. LockIsHeld' /\ \A q \in Run : HolderInv(q)'
  BY <1>2, <1>4, <1>5, <1>6, OutsideStep DEF Pipeline
<1>8. \A c \in accepted : WillSync(r, c) => WillSync(r, c)' \/ Closed(c)' \/ rerun'
  <2>1. Numbers'
    BY StateNumbers
  <2>2. runs[r].pc = "unqueued" =>
            runs[r].commit <= reported' \/ runs[r].commit <= unlogged' \/ UNCHANGED runs
    <3>1. ASSUME runs[r].pc = "unqueued"
          PROVE  \E logged \in BOOLEAN : GivesUp(r, logged)
      BY <3>1, LoggingType DEF LoseLock, QueueRerun, NoteSkip, Drain, SpawnRerun, Finish, At
    <3>2. Numbers
      BY StateNumbers DEF IndInv
    <3> QED
      BY <3>1, <3>2, GivenUp
  <2>3. ASSUME NEW c \in accepted, WillSync(r, c)
        PROVE  WillSync(r, c)' \/ Closed(c)' \/ rerun'
    <3>1. CASE runs[r].pc = "unqueued"
      BY <1>1, <2>1, <2>2, <2>3, <3>1 DEF WillSync, Closed, Settled, Pipeline, Numbers
    <3>2. CASE runs[r].pc # "unqueued"
      BY <1>1, <1>5, <1>6, <2>3, <3>2 DEF WillSync, Pipeline
    <3> QED
      BY <3>1, <3>2
  <2> QED
    BY <2>3
<1>9. ForgottenIsUnlogged'
  BY <1>2, <1>4, <1>6, <1>8, StillRemembered
<1> QED
  BY <1>7, <1>9 DEF Guarded

\* Handlers that start a thread, and the ageing of a row.
LEMMA StartSteps ==
    ASSUME IndInv, TypeOK', Monotone, NEW r \in Run,
           \/ AdminStart(r) \/ CliStart(r) \/ \E c \in Commit : StartFromWebhook(c, r)
    PROVE  Guarded'
<1> USE DEF hooks, admins, graphs, told
<1>1. UNCHANGED <<lock, live, staging, rerun>>
  BY DEF AdminStart, CliStart, StartFromWebhook
<1>2. PICK state \in RunState : runs' = [runs EXCEPT ![r] = state]
  BY DEF AdminStart, CliStart, StartFromWebhook, IndInv, TypeOK
<1>3. runs'[r] = state /\ \A q \in Run : q # r => runs'[q] = runs[q]
  BY <1>2, RunChanges DEF IndInv
<1>4. runs[r].pc = "free"
  BY DEF AdminStart, CliStart, StartFromWebhook, At
<1>5. runs'[r].pc = "start"
  BY FreshRuns DEF AdminStart, CliStart, StartFromWebhook, IndInv, TypeOK, Rows
<1>6. LockIsHeld' /\ \A q \in Run : HolderInv(q)'
  BY <1>1, <1>3, <1>4, <1>5, OutsideStep DEF Pipeline
<1>7. \A c \in accepted' : WillSync(r, c)'
  BY <1>5 DEF WillSync
<1> QED
  BY <1>6, <1>7 DEF Guarded, ForgottenIsUnlogged, Remembered

\* The run that finds the lock free.
LEMMA AcquireStep ==
    ASSUME IndInv, TypeOK', Monotone, NEW r \in Run, AcquireLock(r)
    PROVE  Guarded'
<1> USE DEF hooks, admins, graphs, told
<1>1. /\ UNCHANGED <<live, staging, rerun, accepted>>
      /\ lock = NoRun /\ lock' = r /\ runs[r].pc = "start"
  BY DEF AcquireLock, At
<1>2. /\ runs'[r].pc = "insert"
      /\ \A q \in Run : q # r => runs'[q] = runs[q]
  BY GoChanges DEF AcquireLock, PC, Pipeline, IndInv
<1>3. \A q \in Run : runs[q].pc \notin Pipeline
  BY <1>1, Constants DEF IndInv, LockIsHeld
<1>4. LockIsHeld' /\ \A q \in Run : HolderInv(q)'
  BY <1>1, <1>2, <1>3 DEF LockIsHeld, HolderInv, Cloned, Pipeline
<1>5. ForgottenIsUnlogged'
  BY <1>1, <1>2, StillRemembered DEF WillSync
<1> QED
  BY <1>4, <1>5 DEF Guarded

\* The holder gives the lock back; its commit is closed.
LEMMA ReleaseStep ==
    ASSUME IndInv, TypeOK', Monotone, NEW r \in Run, ReleaseLock(r)
    PROVE  Guarded'
<1> USE DEF hooks, admins, graphs, told
<1>1. /\ UNCHANGED <<live, staging, rerun, accepted, told>>
      /\ lock' = NoRun /\ runs[r].pc = "release"
  BY DEF ReleaseLock, At
<1>2. /\ runs'[r].pc = "drain"
      /\ \A q \in Run : q # r => runs'[q] = runs[q]
  BY GoChanges DEF ReleaseLock, PC, IndInv
<1>3. \A q \in Run : q # r => runs[q].pc \notin Pipeline
  BY <1>1, HolderIsAlone DEF IndInv, Pipeline
<1>4. LockIsHeld' /\ \A q \in Run : HolderInv(q)'
  BY <1>1, <1>2, <1>3, Constants DEF LockIsHeld, HolderInv, Cloned, Pipeline
<1>5. \A c \in accepted : WillSync(r, c) => Closed(c)'
  <2>1. \A c \in accepted : c \in Nat
    BY Constants DEF IndInv, TypeOK
  <2>2. Numbers /\ Closed(runs[r].commit)
    BY <1>1, StateNumbers DEF IndInv, HolderInv
  <2> QED
    BY <1>1, <2>1, <2>2 DEF WillSync, Closed, Settled, Numbers
<1>6. ForgottenIsUnlogged'
  BY <1>1, <1>2, <1>5, StillRemembered
<1> QED
  BY <1>4, <1>6 DEF Guarded

\* The end of a process, and the ageing of a row: what is left of the other
\* runs does what it did, and what only the dead ones knew of is struck.
LEMMA EndSteps ==
    ASSUME IndInv, TypeOK', UNCHANGED <<head, live, staging, told, rerun>>,
           NEW gone \in SUBSET Run,
           lock' = IF lock \in gone THEN NoRun ELSE lock,
           \A r \in gone : runs'[r] = Free,
           \A r \in Run \ gone : runs'[r].pc = runs[r].pc /\ runs'[r].commit = runs[r].commit,
           \A c \in accepted' : c \in Remembered(Run \ gone) \/ c <= unlogged
    PROVE  Guarded'
<1> USE DEF told
<1>1. LockIsHeld'
  BY Constants DEF IndInv, LockIsHeld, Free, Pipeline
<1>2. ASSUME NEW q \in Run
      PROVE  HolderInv(q)'
  <2>1. CASE q \in gone
    BY <2>1 DEF HolderInv, Free, Cloned, Pipeline
  <2>2. CASE q \notin gone
    BY <2>2 DEF IndInv, HolderInv, Closed, Settled
  <2> QED
    BY <2>1, <2>2
<1>3. ForgottenIsUnlogged'
  BY DEF ForgottenIsUnlogged, Remembered, WillSync, Settled
<1> QED
  BY <1>1, <1>2, <1>3 DEF Guarded

\* The steps of the run that has the lock.
LEMMA HolderSteps ==
    ASSUME IndInv, TypeOK', Monotone, NEW r \in Run,
           \/ InsertRow(r) \/ Clone(r) \/ DropStale(r) \/ Upload(r) \/ UndoStaging(r)
           \/ Verify(r) \/ Promote(r) \/ CheckLive(r) \/ CleanUp(r) \/ Succeed(r)
           \/ Fail(r) \/ Ingest(r)
    PROVE  Guarded'
<1> USE DEF hooks, admins, graphs, told
<1>1. Numbers /\ Numbers' /\ TypeOK /\ HolderInv(r) /\ live.commit <= head
  BY StateNumbers DEF IndInv, PastIsKnown
<1>2. \A c \in accepted : c \in Nat /\ c <= head
  BY Constants DEF IndInv, TypeOK, PastIsKnown
<1>3. \A c \in Nat : Closed(c) => Closed(c)'
  BY <1>1 DEF Numbers, Monotone, Closed, Settled
<1>4. UNCHANGED <<lock, accepted, rerun, head>> /\ runs[r].pc \in Pipeline
  BY DEF InsertRow, Clone, DropStale, Upload, UndoStaging, Verify, Promote, CheckLive,
         CleanUp, Succeed, Fail, Ingest, Pipeline, At
<1>5. /\ \A q \in Run : q # r => runs'[q] = runs[q]
      /\ runs'[r].pc \in Pipeline
      /\ \/ runs'[r].commit = head
         \/ /\ runs'[r].commit = runs[r].commit
            /\ runs[r].pc \in Cloned \/ runs'[r].pc = "clone"
      /\ HolderInv(r)'
  <2> DEFINE Others == \A q \in Run : q # r => runs'[q] = runs[q]
  <2> USE <1>1 DEF HolderInv, Cloned, Pipeline, PC, At
  <2>1. CASE InsertRow(r)
    <3>1. runs'[r].pc = "clone" /\ runs'[r].commit = runs[r].commit /\ Others
      <4>1. runs[r].row \in Rows
        BY DEF TypeOK, RunState, Rows
      <4>2. PICK row \in Rows :
                runs' = [runs EXCEPT ![r] = [@ EXCEPT !.pc = "clone", !.row = row]]
        BY <2>1, <4>1 DEF InsertRow, Rows
      <4> QED
        BY <4>2, RowChanges
    <3> QED
      BY <2>1, <3>1 DEF InsertRow
  <2>2. CASE Clone(r)
    <3>1. runs'[r].pc \in {"drop", "fail"} /\ runs'[r].commit = head /\ Others
      BY <2>2, CloneChanges DEF Clone
    <3>2. UNCHANGED <<head, live>>
      BY <2>2 DEF Clone
    <3> QED
      BY <3>1, <3>2 DEF Numbers
  <2>3. CASE DropStale(r)
    <3>1. runs[r].pc = "drop" /\ runs'[r].pc \in {"upload", "fail"} /\ runs'[r].commit = runs[r].commit /\ Others
      BY <2>3, GoChanges DEF DropStale
    <3> QED
      BY <2>3, <3>1 DEF DropStale
  <2>4. CASE Upload(r)
    <3>1. PICK u \in Update(staging, runs[r].commit) :
              staging' = u[1] /\ Go(r, IF u[2] THEN "verify" ELSE "undo")
      BY <2>4 DEF Upload
    <3>2. /\ Others /\ runs[r].pc = "upload" /\ runs'[r].pc \in {"verify", "undo"}
          /\ runs'[r].commit = runs[r].commit
          /\ runs'[r].pc = "verify" => staging' = runs[r].commit
      BY <2>4, <3>1, UpdateType, GoChanges DEF Upload
    <3> QED
      BY <2>4, <3>2 DEF Upload
  <2>5. CASE UndoStaging(r)
    <3>1. runs[r].pc = "undo" /\ runs'[r].pc = "fail" /\ runs'[r].commit = runs[r].commit /\ Others
      BY <2>5, GoChanges DEF UndoStaging
    <3> QED
      BY <2>5, <3>1 DEF UndoStaging
  <2>6. CASE Verify(r)
    <3>1. runs[r].pc = "verify" /\ runs'[r].pc \in {"undo", "promote"}
          /\ runs'[r].commit = runs[r].commit /\ Others
      BY <2>6, GoChanges DEF Verify
    <3> QED
      BY <2>6, <3>1 DEF Verify
  <2>7. CASE Promote(r)
    <3>1. /\ Others /\ runs[r].pc = "promote" /\ runs'[r].commit = runs[r].commit
          /\ \/ runs'[r].pc = "check" /\ live' = [commit |-> staging, whole |-> TRUE]
             \/ runs'[r].pc = "fail" /\ live'.commit \in {live.commit, staging}
      BY <2>7, GoChanges DEF Promote
    <3> QED
      BY <2>7, <3>1 DEF Promote, Numbers
  <2>8. CASE CheckLive(r)
    <3>1. runs[r].pc = "check" /\ runs'[r].pc \in {"clean", "fail"}
          /\ runs'[r].commit = runs[r].commit /\ Others
      BY <2>8, GoChanges DEF CheckLive
    <3> QED
      BY <2>8, <3>1 DEF CheckLive
  <2>9. CASE CleanUp(r)
    <3>1. runs[r].pc = "clean" /\ runs'[r].pc = "succeed" /\ runs'[r].commit = runs[r].commit /\ Others
      BY <2>9, GoChanges DEF CleanUp
    <3> QED
      BY <2>9, <3>1 DEF CleanUp
  <2>10. CASE Succeed(r)
    <3>1. runs[r].pc = "succeed" /\ runs'[r].pc = "after" /\ runs'[r].commit = runs[r].commit /\ Others
      BY <2>10, CloseChanges, LoggingType DEF Succeed
    <3>2. UNCHANGED <<head, live>>
      BY <2>10 DEF Succeed
    <3>3. live.commit = runs[r].commit /\ live.commit \in Nat /\ live.commit <= runs[r].commit /\ runs[r].commit <= head
      BY <3>1 DEF Numbers
    <3>4. (Closed(runs[r].commit))'
      BY <3>1, <3>2, <3>3 DEF Closed, Settled
    <3> QED
      BY <3>1, <3>2, <3>3, <3>4
  <2>11. CASE Fail(r)
    <3>1. runs[r].pc = "fail" /\ runs'[r].pc = "release" /\ runs'[r].commit = runs[r].commit /\ Others
      BY <2>11, CloseChanges, LoggingType DEF Fail
    <3>2. UNCHANGED <<head, live>>
      BY <2>11 DEF Fail
    <3>3. live.commit <= runs[r].commit /\ runs[r].commit <= head
      BY <3>1
    <3>4. reported \in Nat /\ unlogged \in Nat /\ runs[r].commit \in Nat
      BY DEF Numbers
    <3>5. (Closed(runs[r].commit))'
      <4>1. \E logged \in BOOLEAN : GivesUp(r, logged)
        BY <2>11, LoggingType DEF Fail
      <4>2. runs[r].commit <= reported' \/ runs[r].commit <= unlogged'
        BY <4>1, GivenUp
      <4> QED
        BY <3>1, <4>2 DEF Closed, Settled
    <3> QED
      BY <3>1, <3>2, <3>3, <3>5
  <2>12. CASE Ingest(r)
    <3>1. runs[r].pc = "after" /\ runs'[r].pc = "release" /\ runs'[r].commit = runs[r].commit /\ Others
      BY <2>12, GoChanges DEF Ingest
    <3> QED
      BY <2>12, <3>1 DEF Ingest, Closed, Settled
  <2> QED
    BY <2>1, <2>2, <2>3, <2>4, <2>5, <2>6, <2>7, <2>8, <2>9, <2>10, <2>11, <2>12
<1>6. LockIsHeld' /\ \A q \in Run : HolderInv(q)'
  BY <1>4, <1>5, HolderStep
<1>7. \A c \in accepted : WillSync(r, c) => WillSync(r, c)'
  BY <1>2, <1>4, <1>5 DEF WillSync, Cloned, Pipeline
<1>8. ForgottenIsUnlogged'
  BY <1>4, <1>5, <1>7, StillRemembered
<1> QED
  BY <1>6, <1>8 DEF Guarded

LEMMA GuardedStep ==
    ASSUME IndInv, TypeOK', [Next]_vars
    PROVE  Guarded'
<1> USE DEF hooks, admins, graphs, told
<1>0. Monotone
  BY MonotoneStep
<1>1. CASE UNCHANGED vars
  BY <1>0, <1>1, StillStep DEF vars
<1>2. CASE Push \/ AdminClick \/ AdminQueue \/ PhantomAges
  BY <1>0, <1>2, StillStep DEF Push, AdminClick, AdminQueue, PhantomAges, IndInv, TypeOK
<1>3. ASSUME NEW c \in Commit, Deliver(c) \/ QueueDelivery(c) \/ StoreDelivery(c) \/ Refuse(c)
      PROVE  Guarded'
  BY <1>0, <1>3, StillStep
     DEF Deliver, QueueDelivery, StoreDelivery, Refuse, IndInv, TypeOK
<1>4. ASSUME NEW r \in Run,
             AdminStart(r) \/ CliStart(r) \/ \E c \in Commit : StartFromWebhook(c, r)
      PROVE  Guarded'
  BY <1>0, <1>4, StartSteps
<1>5. ASSUME NEW r \in Run, RunStep(r)
      PROVE  Guarded'
  BY <1>0, <1>5, AcquireStep, OutsiderSteps, HolderSteps, ReleaseStep DEF RunStep
<1>6. ASSUME NEW r \in Run, CliExit(r)
      PROVE  Guarded'
  <2>1. lock' = IF lock \in {r} THEN NoRun ELSE lock
    BY <1>6 DEF CliExit
  <2>2. runs'[r] = Free /\ \A q \in Run \ {r} : runs'[q] = runs[q]
    BY <1>6 DEF CliExit, IndInv, TypeOK
  <2> QED
    BY <1>6, <2>1, <2>2, EndSteps DEF CliExit
<1>7. ASSUME NEW r \in Run, RowAges(r)
      PROVE  Guarded'
  <2>1. \A q \in Run : runs'[q].pc = runs[q].pc /\ runs'[q].commit = runs[q].commit
    BY <1>7 DEF RowAges, IndInv, TypeOK, RunState
  <2>2. \A c \in accepted : c \in Remembered(Run \ {}) \/ c <= unlogged
    BY DEF IndInv, ForgottenIsUnlogged
  <2>3. /\ UNCHANGED <<head, live, staging, told, rerun, accepted>>
        /\ lock' = IF lock \in {} THEN NoRun ELSE lock
    BY <1>7 DEF RowAges
  <2>4. {} \in SUBSET Run
    OBVIOUS
  <2> HIDE DEF hooks, admins, graphs, told
  <2> QED
    BY <2>1, <2>2, <2>3, <2>4, EndSteps
<1>8. CASE Restart
  <2>1. \A q \in WebRuns : runs'[q] = Free
    BY <1>8 DEF Restart, WebRuns
  <2>2. \A q \in Run \ WebRuns : runs'[q].pc = runs[q].pc /\ runs'[q].commit = runs[q].commit
    BY <1>8 DEF Restart, Cleaned, IndInv, TypeOK, RunState
  <2>3. WebRuns \in SUBSET Run
    BY DEF WebRuns
  <2> QED
    BY <1>8, <2>1, <2>2, <2>3, EndSteps DEF Restart, LockFreed
<1> QED
  BY <1>1, <1>2, <1>3, <1>4, <1>5, <1>6, <1>7, <1>8 DEF Next, Handle, AdminHandler

LEMMA IndInvStep == IndInv /\ [Next]_vars => IndInv'
<1> SUFFICES ASSUME IndInv, [Next]_vars
             PROVE  IndInv'
  OBVIOUS
<1>1. TypeOK'
  BY TypeOKStep DEF IndInv, HolderInv, At
<1> QED
  BY <1>1, GuardedStep, PastStep DEF IndInv, Guarded

LEMMA IndInvInit == Init => IndInv
<1> SUFFICES ASSUME Init
             PROVE  IndInv
  OBVIOUS
<1>1. TypeOK
  BY Constants, FreshRuns DEF Init, TypeOK
<1>2. LockIsHeld /\ \A r \in Run : HolderInv(r)
  BY Constants DEF Init, LockIsHeld, HolderInv, Free, Cloned, Pipeline
<1> QED
  BY <1>1, <1>2 DEF Init, IndInv, PastIsKnown, ForgottenIsUnlogged

LEMMA Invariance == Spec => []IndInv
BY IndInvInit, IndInvStep, PTL DEF Spec

----------------------------------------------------------------------------
(* The theorems *)

\* Type correctness: no trigger, crash or failed call takes a variable out of its
\* type; above all, no run ever copies a staging graph that is not there.
THEOREM TypeCorrect == Spec => []TypeOK
BY Invariance, PTL DEF IndInv

\* The run that verifies and promotes finds its own upload in the staging graph,
\* however many triggers there are and whatever a crash left behind.
THEOREM OwnStagingPromoted == Spec => []PromotesOwnStaging
<1>1. IndInv => PromotesOwnStaging
  BY DEF IndInv, HolderInv, PromotesOwnStaging
<1> QED
  BY <1>1, Invariance, PTL

\* A row that is about to say success tells of the graph that is live, entire.
THEOREM SuccessTrue == Spec => []SuccessIsLive
<1>1. IndInv => SuccessIsLive
  BY DEF IndInv, HolderInv, SuccessIsLive, At
<1> QED
  BY <1>1, Invariance, PTL

\* A push is forgotten only by a run that failed, or lost the lock and could not
\* queue a rerun, and could not say so in sync_log either; lost locks, reruns,
\* restarts and every other failure remember it.
THEOREM PushesRemembered == Spec => []ForgottenIsUnlogged
BY Invariance, PTL DEF IndInv

----------------------------------------------------------------------------
(* The refinement: every step is one of LiveGraph, or none *)

\* The lock changes hands only where run_sync takes it and gives it back, and
\* where a process ends.
LEMMA LockMoves ==
    ASSUME [Next]_vars
    PROVE  \/ UNCHANGED lock
           \/ lock' = NoRun /\ UNCHANGED <<head, live>>
           \/ lock = NoRun /\ lock' \in Run /\ UNCHANGED <<head, live>>
<1> USE DEF hooks, admins, graphs, told
<1>1. ASSUME NEW r \in Run, RunStep(r), ~AcquireLock(r), ~ReleaseLock(r)
      PROVE  UNCHANGED lock
  BY <1>1 DEF RunStep, LoseLock, NoteSkip, InsertRow, Clone, DropStale, Upload, UndoStaging,
              Verify, CheckLive, CleanUp, Succeed, Ingest, Drain, SpawnRerun, Finish,
              Promote, QueueRerun, Fail
<1>2. ASSUME NEW r \in Run, AcquireLock(r)
      PROVE  lock = NoRun /\ lock' \in Run /\ UNCHANGED <<head, live>>
  BY <1>2 DEF AcquireLock
<1>3. ASSUME NEW r \in Run, ReleaseLock(r)
      PROVE  lock' = NoRun /\ UNCHANGED <<head, live>>
  BY <1>3 DEF ReleaseLock
<1>4. ASSUME NEW r \in Run, CliExit(r)
      PROVE  UNCHANGED <<head, live>> /\ (UNCHANGED lock \/ lock' = NoRun)
  BY <1>4 DEF CliExit
<1>5. CASE Restart
  BY <1>5 DEF Restart, LockFreed
<1>6. ASSUME NEW c \in Commit, Deliver(c) \/ Handle(c)
      PROVE  UNCHANGED lock
  BY <1>6 DEF Deliver, Handle, QueueDelivery, StoreDelivery, Refuse, StartFromWebhook
<1>7. CASE Push \/ AdminClick \/ AdminHandler \/ PhantomAges \/ UNCHANGED vars
  BY <1>7 DEF Push, AdminClick, AdminHandler, AdminQueue, AdminStart, PhantomAges, vars
<1>8. ASSUME NEW r \in Run, CliStart(r) \/ RowAges(r)
      PROVE  UNCHANGED lock
  BY <1>8 DEF CliStart, RowAges
<1> QED
  BY <1>1, <1>2, <1>3, <1>4, <1>5, <1>6, <1>7, <1>8 DEF Next

LEMMA RefinesStep ==
    ASSUME IndInv, TypeOK', [Next]_vars
    PROVE  [Graph!Next]_(Graph!vars)
<1> USE DEF hooks, admins, graphs, told
<1>1. ASSUME NEW r \in Run, Promote(r)
      PROVE  Graph!Publish \/ UNCHANGED <<live, head, lock>>
  <2>1. /\ runs[r].pc = "promote" /\ lock = r
        /\ staging = runs[r].commit
        /\ live.commit <= runs[r].commit /\ runs[r].commit <= head
    BY <1>1 DEF Promote, At, IndInv, LockIsHeld, HolderInv, Cloned, Pipeline
  <2>2. live.commit \in Nat /\ head \in Nat /\ staging \in Nat
    BY <2>1, StateNumbers DEF IndInv, Numbers
  <2>3. live' = live \/ \E w \in BOOLEAN : live' = [commit |-> staging, whole |-> w]
    BY <1>1 DEF Promote
  <2>4. staging \in live.commit .. head
    BY <2>1, <2>2
  <2>5. UNCHANGED <<head, lock>> /\ lock # NoRun
    BY <1>1, <2>1, Constants DEF Promote
  <2> QED
    BY <2>3, <2>4, <2>5 DEF Graph!Publish
<1>2. CASE Push
  BY <1>2 DEF Push, Graph!Next, Graph!Push
<1>3. CASE lock # NoRun /\ lock' = NoRun /\ UNCHANGED <<head, live>>
  BY <1>3 DEF Graph!Next, Graph!End
<1>4. CASE lock = NoRun /\ lock' \in Run /\ UNCHANGED <<head, live>>
  BY <1>4, Constants DEF Graph!Next, Graph!Begin
<1>5. CASE UNCHANGED <<head, live, lock>>
  BY <1>5 DEF Graph!vars
<1>6. UNCHANGED <<head, live>> \/ Push \/ \E r \in Run : Promote(r)
  BY OnlyTheseMoveIt
<1> QED
  BY <1>1, <1>2, <1>3, <1>4, <1>5, <1>6, LockMoves DEF Graph!Next

\* The readers of the live graph see LiveGraph: one refresh at a time, and never
\* an older tree than before, whatever goes wrong.
THEOREM Refinement == Spec => ImplementsLiveGraph
<1>1. Init => Graph!Init
  BY Constants DEF Init, Graph!Init
<1>2. IndInv /\ IndInv' /\ [Next]_vars => [Graph!Next]_(Graph!vars)
  BY RefinesStep DEF IndInv
<1> QED
  BY <1>1, <1>2, Invariance, PTL DEF Spec, ImplementsLiveGraph, Graph!Spec

----------------------------------------------------------------------------
(* Regression protection *)

\* What a run that has been verified may rely on when it promotes: no count that
\* fails lets a graph through that is too small, but one of the live graph that
\* reads as zero turns the comparison with it off.
Verified(r) ==
    At(r, "promote") =>
        /\ Triples(runs[r].commit) >= MinTriples
        /\ "count" \notin Env /\ live.whole =>
              Triples(runs[r].commit) >= (Triples(live.commit) * 8) \div 10

LEMMA TriplesType == \A c \in Known : Triples(c) = Size[c] /\ Triples(c) \in Nat
BY Constants DEF Triples, Nothing

\* A run comes to "promote" and to "unqueued" by one step each, and by its own.
Arrives == {"promote", "unqueued"}
LEMMA OneWayIn ==
    ASSUME IndInv, [Next]_vars, NEW r \in Run, runs'[r].pc \in Arrives
    PROVE  \/ Verify(r)
           \/ "db" \in Env /\ runs'[r].pc = "unqueued"
           \/ runs'[r].pc = runs[r].pc /\ runs'[r].commit = runs[r].commit
<1> USE DEF hooks, admins, graphs, told, At, Arrives
<1> DEFINE Here == \/ Verify(r)
                   \/ "db" \in Env /\ runs'[r].pc = "unqueued"
                   \/ runs'[r].pc = runs[r].pc /\ runs'[r].commit = runs[r].commit
<1>0. TypeOK /\ \A q \in Run : runs[q] \in RunState /\ runs[q].proc \in {"web", "cli"}
  BY DEF IndInv, TypeOK, RunState
<1>a. /\ Free \in RunState /\ Free.pc = "free"
      /\ \A by \in {"hook", "admin", "rerun", "cli"}, proc \in {"web", "cli"}, row \in {"none", "recent"} :
            Started(by, proc, row) \in RunState /\ Started(by, proc, row).pc = "start"
  BY FreshRuns DEF Free, Rows
<1>1. ASSUME NEW q \in Run, RunStep(q), ~Verify(q)
      PROVE  /\ runs'[q].pc \in Arrives => "db" \in Env /\ runs'[q].pc = "unqueued"
             /\ \A p \in Run : p # q => runs'[p] = runs[p]
  <2> USE <1>0 DEF PC, Pipeline
  <2>1. CASE \/ AcquireLock(q) \/ LoseLock(q) \/ UndoStaging(q)
             \/ CleanUp(q) \/ Ingest(q) \/ ReleaseLock(q)
    BY <2>1, GoChanges DEF AcquireLock, LoseLock, UndoStaging, CleanUp, Ingest, ReleaseLock
  <2>2. CASE DropStale(q) \/ Upload(q) \/ Promote(q) \/ CheckLive(q) \/ Drain(q)
    BY <2>2, GoChanges DEF DropStale, Upload, Promote, CheckLive, Drain
  <2>3. CASE NoteSkip(q) \/ Succeed(q) \/ Fail(q)
    <3>1. PICK pc \in PC \cap {"done", "after", "release"}, logged \in BOOLEAN :
              runs' = [runs EXCEPT ![q] = [@ EXCEPT !.pc = pc, !.row = Finalized(q, logged)]]
      BY <2>3, Finalizes
    <3>2. runs'[q].pc = pc /\ \A p \in Run : p # q => runs'[p] = runs[p]
      BY <3>1, CloseChanges
    <3>3. pc \notin Arrives
      OBVIOUS
    <3> QED
      BY <3>2, <3>3
  <2>4. CASE InsertRow(q)
    <3>1. runs[q].row \in Rows
      BY DEF TypeOK, RunState, Rows
    <3>2. PICK row \in Rows :
              runs' = [runs EXCEPT ![q] = [@ EXCEPT !.pc = "clone", !.row = row]]
      BY <2>4, <3>1 DEF InsertRow, Rows
    <3>3. "clone" \in PC /\ "clone" \notin Arrives
      OBVIOUS
    <3> QED
      BY <3>2, <3>3, RowChanges
  <2>5. CASE Clone(q)
    BY <2>5, CloneChanges DEF Clone
  <2>6. CASE SpawnRerun(q) \/ Finish(q)
    <3>1. PICK new \in RunState : runs' = [runs EXCEPT ![q] = new] /\ new.pc \in {"start", "free"}
      BY <2>6, <1>0, <1>a DEF SpawnRerun, Finish
    <3> QED
      BY <3>1, RunChanges
  <2>7. CASE QueueRerun(q)
    <3>1. "note" \in PC /\ "unqueued" \in PC /\ "note" \notin Arrives
      OBVIOUS
    <3>2. CASE Go(q, "note")
      BY <3>1, <3>2, GoChanges
    <3>3. ASSUME "db" \in Env,
                 runs' = [runs EXCEPT ![q] = [@ EXCEPT !.pc = "unqueued", !.commit = head]]
          PROVE  runs'[q].pc = "unqueued" /\ \A p \in Run : p # q => runs'[p] = runs[p]
      BY <3>1, <3>3, CloneChanges
    <3> QED
      BY <2>7, <3>2, <3>3 DEF QueueRerun
  <2> QED
    BY <1>1, <2>1, <2>2, <2>3, <2>4, <2>5, <2>6, <2>7 DEF RunStep
<1>2. ASSUME NEW q \in Run, AdminStart(q) \/ CliStart(q) \/ CliExit(q)
                            \/ \E c \in Commit : StartFromWebhook(c, q)
      PROVE  runs'[q].pc \notin Arrives /\ \A p \in Run : p # q => runs'[p] = runs[p]
  <2>1. PICK new \in RunState : runs' = [runs EXCEPT ![q] = new] /\ new.pc \in {"start", "free"}
    BY <1>2, <1>0, <1>a DEF AdminStart, CliStart, CliExit, StartFromWebhook
  <2> QED
    BY <1>0, <2>1, RunChanges
<1>3. ASSUME NEW q \in Run, RowAges(q) \/ (Verify(q) /\ q # r)
      PROVE  runs'[r].pc = runs[r].pc /\ runs'[r].commit = runs[r].commit
  BY <1>0, <1>3 DEF RowAges, Verify, Go, TypeOK, RunState
<1>4. ASSUME Restart
      PROVE  Here
  <2>1. runs'[r] \in {Free, Cleaned(r), runs[r]}
    BY <1>4 DEF Restart
  <2>2. Free.pc \notin Arrives
    BY DEF Free
  <2>3. Cleaned(r).pc = runs[r].pc /\ Cleaned(r).commit = runs[r].commit
    BY <1>0 DEF Cleaned, RunState
  <2> QED
    BY <2>1, <2>2, <2>3
<1>5. ASSUME UNCHANGED runs
      PROVE  Here
  BY <1>5
<1>6. ASSUME NEW c \in Commit, Deliver(c) \/ Handle(c)
      PROVE  UNCHANGED runs \/ \E q \in Run : StartFromWebhook(c, q)
  BY <1>6 DEF Deliver, Handle, QueueDelivery, StoreDelivery, Refuse
<1>7. ASSUME Push \/ AdminClick \/ AdminQueue \/ PhantomAges \/ UNCHANGED vars
      PROVE  UNCHANGED runs
  BY <1>7 DEF Push, AdminClick, AdminQueue, PhantomAges, vars
<1> QED
  BY <1>1, <1>2, <1>3, <1>4, <1>5, <1>6, <1>7 DEF Next, AdminHandler

\* A run that is about to promote has verified in this step, or was there already
\* and nobody has touched the live graph.
LEMMA PromoterIsAlone ==
    ASSUME IndInv, [Next]_vars, NEW r \in Run, (At(r, "promote"))'
    PROVE  \/ Verify(r)
           \/ At(r, "promote") /\ runs'[r].commit = runs[r].commit /\ UNCHANGED live
<1> USE DEF At
<1>1. Verify(r) \/ (At(r, "promote") /\ runs'[r].commit = runs[r].commit)
  BY OneWayIn DEF Arrives
<1>2. ASSUME NEW q \in Run, Promote(q), At(r, "promote")
      PROVE  FALSE
  <2>1. q = r
    BY <1>2, HolderIsAlone DEF Promote, IndInv, Pipeline
  <2> QED
    BY <1>2, <2>1, GoChanges DEF Promote, PC, Pipeline, IndInv
<1> QED
  BY <1>1, <1>2, OnlyTheseMoveIt

LEMMA VerifyStep ==
    ASSUME IndInv, NEW r \in Run, Verify(r)
    PROVE  Verified(r)'
<1> USE DEF At
<1>1. staging = runs[r].commit /\ staging \in Known /\ live.commit \in Known
  BY DEF Verify, IndInv, HolderInv, TypeOK, RunState
<1>2. UNCHANGED <<live, staging>> /\ runs'[r].commit = runs[r].commit
  <2>1. PICK pc \in PC : Go(r, pc)
    BY DEF Verify, PC, Pipeline
  <2> QED
    BY <2>1, GoChanges DEF Verify, graphs, IndInv
<1>3. PICK staged \in Count(Triples(staging)), n \in LiveCounts :
          Go(r, IF staged < Threshold(n) THEN "undo" ELSE "promote")
  BY DEF Verify
<1>4. SUFFICES ASSUME ~(staged < Threshold(n))
               PROVE  /\ Triples(staging) >= MinTriples
                      /\ "count" \notin Env /\ live.whole =>
                            Triples(staging) >= (Triples(live.commit) * 8) \div 10
  BY <1>1, <1>2, <1>3, GoChanges DEF Verified, IndInv, PC, Pipeline
<1>5. Triples(staging) \in Nat /\ Triples(live.commit) \in Nat /\ MinTriples \in Nat \ {0}
  BY <1>1, TriplesType, Constants
<1>6. n \in Nat
  BY <1>5 DEF LiveCounts, Count
<1>7. Threshold(n) >= MinTriples /\ Threshold(n) \in Int /\ staged \in Nat
  BY <1>5, <1>6 DEF Threshold, Larger, Count
<1>8. staged = Triples(staging)
  BY <1>4, <1>5, <1>7 DEF Count
<1>9. ASSUME "count" \notin Env, live.whole
      PROVE  Threshold(n) >= (Triples(live.commit) * 8) \div 10
  <2>1. n = Triples(live.commit)
    BY <1>9 DEF LiveCounts, Count
  <2> QED
    BY <1>5, <2>1 DEF Threshold, Larger
<1>10. (Triples(live.commit) * 8) \div 10 \in Int
  BY <1>5
<1> QED
  BY <1>4, <1>5, <1>7, <1>8, <1>9, <1>10

LEMMA VerifiedStep ==
    ASSUME IndInv, \A r \in Run : Verified(r), [Next]_vars, NEW r \in Run
    PROVE  Verified(r)'
<1>1. CASE Verify(r)
  BY <1>1, VerifyStep
<1>2. CASE At(r, "promote") /\ runs'[r].commit = runs[r].commit /\ UNCHANGED live
  BY <1>2 DEF Verified, Triples
<1> QED
  BY <1>1, <1>2, PromoterIsAlone DEF Verified

LEMMA AllVerified == Spec => [](\A r \in Run : Verified(r))
<1>1. Init => \A r \in Run : Verified(r)
  BY DEF Init, Verified, At, Free
<1>2. IndInv /\ (\A r \in Run : Verified(r)) /\ [Next]_vars => (\A r \in Run : Verified(r))'
  BY VerifiedStep
<1> QED
  BY <1>1, <1>2, Invariance, PTL DEF Spec

\* A COPY brings in a verified graph, with the triples that it was verified to have.
LEMMA PublishedIsVerified ==
    ASSUME IndInv, \A r \in Run : Verified(r), [Next]_vars, live' # live
    PROVE  /\ Triples(live'.commit) >= MinTriples
           /\ "count" \notin Env /\ live.whole =>
                 Triples(live'.commit) >= (Triples(live.commit) * 8) \div 10
<1>1. PICK r \in Run : Promote(r)
  BY OnlyTheseMoveIt
<1>2. At(r, "promote") /\ staging = runs[r].commit
  BY <1>1 DEF Promote, IndInv, HolderInv, At
<1>3. live'.commit = staging
  BY <1>1 DEF Promote
<1> QED
  BY <1>2, <1>3 DEF Verified

\* Whatever fails, no COPY ever makes the live graph smaller than SYNC_MIN_TRIPLES,
\* not even one that stops half-way, as far as the tree it copies is concerned.
NeverTiny == [][live' # live => Triples(live'.commit) >= MinTriples]_vars

THEOREM LiveGraphIsNotTiny == Spec => NeverTiny
<1>1. IndInv /\ (\A r \in Run : Verified(r)) /\ [Next]_vars =>
          [live' # live => Triples(live'.commit) >= MinTriples]_vars
  BY PublishedIsVerified
<1> QED
  BY <1>1, Invariance, AllVerified, PTL DEF Spec, NeverTiny

\* Where the SPARQL counts do not fail, a live graph that is entire is replaced
\* only by one that has at least 80% of its triples: the lock keeps the graph that
\* was compared with in place until the COPY.
THEOREM RegressionProtection ==
    ASSUME "count" \notin Env
    PROVE  Spec => LiveGraphDoesNotShrink
<1>1. IndInv /\ (\A r \in Run : Verified(r)) /\ [Next]_vars =>
          [live' # live /\ live.whole /\ live'.whole =>
              /\ Triples(live'.commit) >= MinTriples
              /\ Triples(live'.commit) >= (Triples(live.commit) * 8) \div 10]_vars
  BY PublishedIsVerified
<1> QED
  BY <1>1, Invariance, AllVerified, PTL DEF Spec, LiveGraphDoesNotShrink

----------------------------------------------------------------------------
(* Where the database does not fail, no push is forgotten at all *)

AllLogged == unlogged = 0 /\ \A r \in Run : ~At(r, "unqueued")

LEMMA AllLoggedStep ==
    ASSUME "db" \notin Env, IndInv, AllLogged, [Next]_vars
    PROVE  AllLogged'
<1>1. \A r \in Run : ~(At(r, "unqueued"))'
  <2> SUFFICES ASSUME NEW r \in Run, (At(r, "unqueued"))'
               PROVE  FALSE
    OBVIOUS
  <2>1. runs'[r].pc = "unqueued" /\ runs[r].pc # "unqueued"
    BY DEF At, AllLogged
  <2>2. Verify(r)
    BY <2>1, OneWayIn DEF Arrives
  <2> QED
    BY <2>1, <2>2, GoChanges DEF Verify, IndInv, PC, Pipeline
<1>2. unlogged' = 0
  <2>1. ASSUME NEW r \in Run, Fail(r)
        PROVE  UNCHANGED unlogged
    BY <2>1 DEF Fail, Logging, GivesUp
  <2>2. ASSUME NEW r \in Run, NoteSkip(r)
        PROVE  UNCHANGED unlogged
    BY <2>2 DEF NoteSkip, AllLogged, told
  <2> QED
    BY <2>1, <2>2, OnlyTheseMoveIt DEF AllLogged, told
<1> QED
  BY <1>1, <1>2 DEF AllLogged

\* Every accepted push is remembered, across lost locks, reruns, failures of git
\* and Fuseki, and restarts, as long as the database answers.
THEOREM NoPushForgotten ==
    ASSUME "db" \notin Env
    PROVE  Spec => []NothingForgotten
<1>1. Init => AllLogged
  BY DEF Init, AllLogged, At, Free
<1>2. IndInv /\ AllLogged /\ [Next]_vars => AllLogged'
  BY AllLoggedStep
<1>3. IndInv /\ AllLogged => NothingForgotten
  <2> SUFFICES ASSUME IndInv, AllLogged, NEW c \in accepted
               PROVE  c \in Remembered(Run)
    BY DEF NothingForgotten
  <2>1. c \in Nat /\ c > 0
    BY SyncAssumption DEF IndInv, TypeOK, Commit
  <2> QED
    BY <2>1 DEF IndInv, AllLogged, ForgottenIsUnlogged
<1> QED
  BY <1>1, <1>2, <1>3, Invariance, PTL DEF Spec
=============================================================================
