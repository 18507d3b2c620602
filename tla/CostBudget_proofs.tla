-------------------------- MODULE CostBudget_proofs --------------------------
(***************************************************************************)
(* Proofs about CostBudget, for any number of turns, jobs, administrators, *)
(* days and failures of the database, and any limits and costs.            *)
(***************************************************************************)
EXTENDS CostBudget, FiniteSetTheorems, TLAPS

\* The facts about the constants that the provers need, in one place.
LEMMA Constants ==
    /\ MaxMessages \in Nat \ {0} /\ Budget \in Nat \ {0} /\ MaxCalls \in Nat \ {0}
    /\ MaxDays \in Nat \ {0} /\ MaxUsage \in Nat /\ MaxFailures \in Nat
    /\ Costs \subseteq Nat /\ 1 \in Days
    /\ Nobody \notin Calls /\ Turns \subseteq Calls /\ Drafters \subseteq Calls
    /\ Turns \cap Drafters = {}
BY CallersAssumption, AmountsAssumption DEF Days, Calls

-----------------------------------------------------------------------------
(* The inductive invariant *)

\* Where a turn and its check can be at the same time.
Sending == {"dedupe", "insert", "commit"}
PhaseOf(c, call) ==
    /\ call.check \in {"alert", "open"} \cup Sending => call.alert \in Types
    /\ call.turn = "counted" => c \in Turns /\ call.check = "none"
    /\ call.turn = "talking" => call.left >= 1
    /\ c \in Drafters /\ call.turn # "checking" => call.check = "none"
Phase(c) == PhaseOf(c, calls[c])

\* The locks are held by those that the code has between taking and releasing them.
LocksAgree ==
    /\ LocksAreGivenBack
    /\ \A c \in Calls : calls[c].check \in Sending => alertLocks[AlertLock(c)] = c

\* From the deduplication to the COMMIT nobody else writes the rows of the alert,
\* and an alert that a check was content to skip is out, or on its way out.
Unwritten(c) == Rows(calls[c].alert, calls[c].day) = {}
AlertInv(c) ==
    /\ calls[c].check \in {"insert", "commit"} => Unwritten(c)
    /\ calls[c].check = "commit" => calls[c].aborted = (calls[c].rows # Admins)
    /\ failures = 0 /\ calls[c].check = "commit" => calls[c].rows = Admins
    /\ failures = 0 /\ calls[c].check = "decide" /\ calls[c].alert # "none" =>
          Announced(calls[c].alert, calls[c].day)

IndInv ==
    /\ TypeOK
    /\ \A c \in Calls : Phase(c)
    /\ LocksAgree
    /\ AlertsAreWhole
    /\ \A c \in Calls : AlertInv(c)

\* The overshoot.  A turn that was counted has a message to save, and a call that
\* has passed the check, or is going to, has as many calls of the model to make.
Counted == {c \in Turns : calls[c].turn = "counted" /\ ~calls[c].free}
Due(call) ==
    IF call.turn = "talking" /\ ~call.free THEN call.left
    ELSE IF call.turn = "checking" /\ call.check \notin {"none", "lock"} /\ call.alert # "cost_exhausted"
         THEN MaxCalls ELSE 0
Tokens == {t \in Calls \X (1 .. MaxCalls) : t[2] <= Due(calls[t[1]])}

RateInv == messages.passed + Cardinality(Counted) < MaxMessages + Cardinality(Turns)
CostInv == \A m \in Costs : (\A n \in Costs : n <= m) =>
    usage.passed + Cardinality(Tokens) * m < Budget + Cardinality(Calls) * MaxCalls * m

-----------------------------------------------------------------------------
(* The records of the calls *)

LEMMA CallChange ==
    ASSUME TypeOK, NEW c \in Calls, NEW call \in Call, calls' = [calls EXCEPT ![c] = call]
    PROVE  /\ calls' \in [Calls -> Call]
           /\ calls'[c] = call
           /\ \A d \in Calls : d # c => calls'[d] = calls[d]
BY DEF TypeOK

LEMMA NoCallType == NoCall \in Call
BY Constants DEF NoCall, Call

LEMMA LetTalkType ==
    ASSUME NEW call \in Call, NEW free \in BOOLEAN
    PROVE  /\ LetTalk(call, free) \in Call
           /\ LetTalk(call, free).turn = "talking" /\ LetTalk(call, free).free = free
           /\ LetTalk(call, free).left = MaxCalls /\ LetTalk(call, free).check = call.check
           /\ LetTalk(call, free).alert = call.alert /\ LetTalk(call, free).day = call.day
           /\ LetTalk(call, free).rows = call.rows /\ LetTalk(call, free).aborted = call.aborted
<1>1. MaxCalls \in 0 .. MaxCalls
  BY Constants
<1>2. LetTalk(call, free) \in Call
  BY <1>1 DEF LetTalk, Call
<1> QED
  BY <1>2 DEF LetTalk, Call

LEMMA CheckedType ==
    ASSUME NEW call \in Call
    PROVE  /\ Checked(call) \in Call
           /\ Checked(call).turn = call.turn /\ Checked(call).free = call.free
           /\ Checked(call).left = call.left /\ Checked(call).check = "none"
BY Constants DEF Checked, Call

LEMMA BandType ==
    ASSUME NEW total \in Nat
    PROVE  /\ Band(total) \in Types \cup {"none"}
           /\ total >= Budget <=> Band(total) = "cost_exhausted"
<1>1. Budget \in Nat
  BY Constants
<1>2. CASE total >= Budget
  BY <1>1, <1>2 DEF Band, Types
<1>3. CASE total < Budget /\ 5 * total >= 4 * Budget
  BY <1>1, <1>3 DEF Band, Types
<1>4. CASE total < Budget /\ ~(5 * total >= 4 * Budget)
  BY <1>1, <1>4 DEF Band, Types
<1> QED
  BY <1>1, <1>2, <1>3, <1>4

LEMMA SummedType ==
    ASSUME NEW call \in Call, NEW total \in Nat
    PROVE  /\ Summed(call, total) \in Call
           /\ Summed(call, total).turn = call.turn /\ Summed(call, total).free = call.free
           /\ Summed(call, total).left = call.left /\ Summed(call, total).alert = Band(total)
           /\ Summed(call, total).check = IF Band(total) = "none" THEN "decide" ELSE "alert"
BY BandType DEF Summed, Call

LEMMA PassedType ==
    ASSUME NEW call \in Call, NEW free \in BOOLEAN
    PROVE  /\ Passed(call, free) \in Call
           /\ Passed(call, free).check = "none"
           /\ call.turn = "checking" =>
                 /\ Passed(call, free).turn = "talking" /\ Passed(call, free).free = free
                 /\ Passed(call, free).left = MaxCalls
           /\ call.turn # "checking" =>
                 /\ Passed(call, free).turn = call.turn /\ Passed(call, free).free = call.free
                 /\ Passed(call, free).left = call.left
<1>1. /\ Checked(call) \in Call /\ Checked(call).check = "none"
      /\ Checked(call).turn = call.turn /\ Checked(call).free = call.free
      /\ Checked(call).left = call.left
  BY CheckedType
<1>2. CASE call.turn = "checking"
  BY <1>1, <1>2, LetTalkType DEF Passed
<1>3. CASE call.turn # "checking"
  BY <1>1, <1>3 DEF Passed
<1> QED
  BY <1>2, <1>3

\* The call after Decide: refused, let through, or left alone if its turn went on.
Decided(call) == IF Refused(call) THEN NoCall ELSE Passed(call, FALSE)

LEMMA DecidedType ==
    ASSUME NEW call \in Call
    PROVE  /\ Decided(call) \in Call
           /\ Decided(call).check = "none"
           /\ Refused(call) => Decided(call).turn = "none"
           /\ ~Refused(call) => Decided(call) = Passed(call, FALSE)
<1>1. NoCall.check = "none" /\ NoCall.turn = "none"
  BY DEF NoCall
<1>2. CASE Refused(call)
  BY <1>1, <1>2, NoCallType DEF Decided
<1>3. CASE ~Refused(call)
  BY <1>3, PassedType DEF Decided
<1> QED
  BY <1>2, <1>3

LEMMA AmountsType ==
    /\ Nothing \in Amounts /\ Nothing.passed = 0
    /\ \A a \in Amounts : Sum(a) \in Nat /\ a.passed <= Sum(a)
BY DEF Nothing, Amounts, Sum

LEMMA PlusType ==
    ASSUME NEW a \in Amounts, NEW free \in BOOLEAN, NEW n \in Nat
    PROVE  /\ Plus(a, free, n) \in Amounts
           /\ free => Plus(a, free, n).passed = a.passed
           /\ ~free => Plus(a, free, n).passed = a.passed + n
BY DEF Amounts, Plus

\* The end of an alert's transaction
LEMMA EndAlertChange ==
    ASSUME TypeOK, NEW c \in Calls, EndAlert(c), calls[c].alert \in Types
    PROVE  /\ calls' \in [Calls -> Call]
           /\ calls'[c] = [calls[c] EXCEPT !.check = "decide", !.rows = {}, !.aborted = FALSE]
           /\ \A d \in Calls : d # c => calls'[d] = calls[d]
           /\ alertLocks' \in [Types \X Days -> Calls \cup {Nobody}]
           /\ alertLocks'[AlertLock(c)] = Nobody
           /\ \A l \in Types \X Days : l # AlertLock(c) => alertLocks'[l] = alertLocks[l]
<1> DEFINE call == [calls[c] EXCEPT !.check = "decide", !.rows = {}, !.aborted = FALSE]
<1>1. call \in Call
  BY DEF TypeOK, Call
<1>2. calls' = [calls EXCEPT ![c] = call]
  BY DEF EndAlert, TypeOK
<1>3. AlertLock(c) \in Types \X Days
  BY DEF AlertLock, TypeOK, Call
<1> HIDE DEF call
<1>4. /\ calls' \in [Calls -> Call] /\ calls'[c] = call
      /\ \A d \in Calls : d # c => calls'[d] = calls[d]
  BY <1>1, <1>2, CallChange
<1> QED
  BY <1>3, <1>4 DEF EndAlert, TypeOK, call

-----------------------------------------------------------------------------
(* Types *)

\* One step of a turn or job changes its own record, to one that is in phase.
Move(c) == StartTurn(c) \/ SaveMessage(c) \/ StopWaiting(c) \/ StartJob(c) \/ Check(c) \/ Talk(c)

LEMMA MoveOfACall ==
    ASSUME TypeOK, NEW c \in Calls, Phase(c), Move(c)
    PROVE  \E call \in Call : calls' = [calls EXCEPT ![c] = call] /\ PhaseOf(c, call)
<1> DEFINE old == calls[c]
<1>1. old \in Call /\ PhaseOf(c, old)
  BY DEF TypeOK, Phase
<1>2. Sum(usage) \in Nat
  BY AmountsType DEF TypeOK
<1>. MaxCalls >= 1
  BY Constants
<1>3. ASSUME NEW call \in Call, PhaseOf(c, call), calls' = [calls EXCEPT ![c] = call]
      PROVE  \E k \in Call : calls' = [calls EXCEPT ![c] = k] /\ PhaseOf(c, k)
  BY <1>3
<1>18. ASSUME NEW k \in Call, NEW free \in BOOLEAN,
              k.turn = "checking" \/ PhaseOf(c, [k EXCEPT !.check = "none"])
       PROVE  Passed(k, free) \in Call /\ PhaseOf(c, Passed(k, free))
  <2> DEFINE p == Passed(k, free)
  <2>1. p \in Call /\ p.check = "none"
    BY PassedType
  <2>2. CASE k.turn = "checking"
    <3>1. p.turn = "talking" /\ p.left >= 1
      BY <2>2, PassedType
    <3> HIDE DEF p
    <3>2. PhaseOf(c, p)
      BY <2>1, <3>1 DEF PhaseOf, Sending
    <3> QED
      BY <2>1, <3>2 DEF p
  <2>3. CASE k.turn # "checking"
    <3>1. p.turn = k.turn /\ p.left = k.left
      BY <2>3, PassedType
    <3> HIDE DEF p
    <3>2. PhaseOf(c, p)
      BY <1>18, <2>1, <2>3, <3>1 DEF PhaseOf, Sending, Call
    <3> QED
      BY <2>1, <3>2 DEF p
  <2> QED
    BY <2>2, <2>3
<1>4. CASE StartTurn(c)
  <2> DEFINE checked == [NoCall EXCEPT !.turn = "counted"]
             free    == [NoCall EXCEPT !.turn = "counted", !.free = TRUE]
  <2>1. calls' = [calls EXCEPT ![c] = checked] \/ calls' = [calls EXCEPT ![c] = free]
    BY <1>4 DEF StartTurn
  <2>2. checked \in Call /\ free \in Call
    BY NoCallType DEF Call
  <2>3. PhaseOf(c, checked) /\ PhaseOf(c, free)
    BY <1>4, Constants DEF StartTurn, PhaseOf, NoCall, Sending
  <2> QED
    BY <1>3, <2>1, <2>2, <2>3
<1>5. CASE SaveMessage(c)
  <2>1. [NoCall EXCEPT !.turn = "checking", !.check = "lock"] \in Call
    BY NoCallType DEF Call
  <2>2. PhaseOf(c, [NoCall EXCEPT !.turn = "checking", !.check = "lock"])
    BY DEF PhaseOf, NoCall, Sending
  <2> QED
    BY <1>3, <1>5, <2>1, <2>2 DEF SaveMessage
<1>6. CASE StopWaiting(c)
  <2>1. calls' = [calls EXCEPT ![c] = LetTalk(old, TRUE)]
    BY <1>6 DEF StopWaiting
  <2>2. c \notin Drafters /\ old.turn = "checking"
    BY <1>6, Constants DEF StopWaiting
  <2> HIDE DEF old
  <2>3. LetTalk(old, TRUE) \in Call
    BY <1>1, LetTalkType
  <2>4. PhaseOf(c, LetTalk(old, TRUE))
    BY <1>1, <2>2, LetTalkType, Constants DEF PhaseOf, Sending
  <2> QED
    BY <1>3, <2>1, <2>3, <2>4
<1>7. CASE StartJob(c)
  <2> DEFINE job == [NoCall EXCEPT !.turn = "checking"]
  <2>1. job \in Call /\ job.turn = "checking"
    BY NoCallType DEF Call
  <2>2. \/ calls' = [calls EXCEPT ![c] = Summed(job, Sum(usage))]
        \/ calls' = [calls EXCEPT ![c] = Passed(job, TRUE)]
    BY <1>7 DEF StartJob, Unchecked
  <2> HIDE DEF job
  <2>3. Summed(job, Sum(usage)) \in Call /\ PhaseOf(c, Summed(job, Sum(usage)))
    BY <1>2, <2>1, SummedType, BandType DEF PhaseOf, Sending, Types
  <2>4. Passed(job, TRUE) \in Call /\ PhaseOf(c, Passed(job, TRUE))
    BY <1>18, <2>1
  <2> QED
    BY <1>3, <2>2, <2>3, <2>4
<1>8. CASE SumLocked(c)
  <2>1. calls' = [calls EXCEPT ![c] = Summed(old, Sum(usage))] /\ old.check = "lock"
    BY <1>8 DEF SumLocked
  <2> HIDE DEF old
  <2>2. Summed(old, Sum(usage)) \in Call /\ PhaseOf(c, Summed(old, Sum(usage)))
    BY <1>1, <1>2, <2>1, SummedType, BandType DEF PhaseOf, Sending, Types
  <2> QED
    BY <1>3, <2>1, <2>2
<1>9. CASE SumFails(c)
  <2>1. calls' = [calls EXCEPT ![c] = Passed(old, TRUE)] /\ old.check = "lock"
    BY <1>9 DEF SumFails, Unchecked
  <2> HIDE DEF old
  <2>3. old.turn = "checking" \/ PhaseOf(c, [old EXCEPT !.check = "none"])
    BY <1>1, <2>1 DEF PhaseOf, Sending, Call
  <2>2. Passed(old, TRUE) \in Call /\ PhaseOf(c, Passed(old, TRUE))
    BY <1>18, <1>1, <2>3
  <2> QED
    BY <1>3, <2>1, <2>2
<1>10. CASE Decide(c)
  <2>1. calls' = [calls EXCEPT ![c] = Decided(old)] /\ old.check = "decide"
    BY <1>10 DEF Decide, Decided
  <2> HIDE DEF old
  <2>2. Passed(old, FALSE) \in Call /\ PhaseOf(c, Passed(old, FALSE))
    BY <1>18, <1>1, <2>1 DEF PhaseOf, Sending, Call
  <2>3. NoCall \in Call /\ PhaseOf(c, NoCall)
    BY NoCallType DEF PhaseOf, Sending, NoCall
  <2>4. Decided(old) \in Call /\ PhaseOf(c, Decided(old))
    BY <2>2, <2>3 DEF Decided
  <2> QED
    BY <1>3, <2>1, <2>4
<1>11. CASE OpenAlert(c)
  <2>1. calls' = [calls EXCEPT ![c] = [old EXCEPT !.check = "open", !.day = today]]
    BY <1>11 DEF OpenAlert, TypeOK
  <2>2. old.check = "alert" /\ today \in Days
    BY <1>11 DEF OpenAlert, TypeOK
  <2> HIDE DEF old
  <2>3. [old EXCEPT !.check = "open", !.day = today] \in Call
    BY <1>1, <2>2 DEF Call
  <2>4. PhaseOf(c, [old EXCEPT !.check = "open", !.day = today])
    BY <1>1, <2>2 DEF PhaseOf, Sending, Call
  <2> QED
    BY <1>3, <2>1, <2>3, <2>4
<1>12. CASE TakeAlertLock(c)
  <2>1. PICK check \in {"dedupe", "decide"} : calls' = [calls EXCEPT ![c] = [old EXCEPT !.check = check]]
    BY <1>12 DEF TakeAlertLock, TypeOK
  <2>2. old.check = "open"
    BY <1>12 DEF TakeAlertLock
  <2> HIDE DEF old
  <2>3. [old EXCEPT !.check = check] \in Call /\ PhaseOf(c, [old EXCEPT !.check = check])
    BY <1>1, <2>2 DEF PhaseOf, Sending, Call
  <2> QED
    BY <1>3, <2>1, <2>3
<1>13. ASSUME EndAlert(c), old.check \in Sending
       PROVE  \E call \in Call : calls' = [calls EXCEPT ![c] = call] /\ PhaseOf(c, call)
  <2>1. calls' = [calls EXCEPT ![c] = [old EXCEPT !.check = "decide", !.rows = {}, !.aborted = FALSE]]
    BY <1>13 DEF EndAlert, TypeOK
  <2> HIDE DEF old
  <2>2. [old EXCEPT !.check = "decide", !.rows = {}, !.aborted = FALSE] \in Call
    BY <1>1 DEF Call
  <2>3. PhaseOf(c, [old EXCEPT !.check = "decide", !.rows = {}, !.aborted = FALSE])
    BY <1>1, <1>13 DEF PhaseOf, Sending, Call
  <2> QED
    BY <1>3, <2>1, <2>2, <2>3
<1>14. CASE FindAlert(c)
  <2>1. CASE calls' = [calls EXCEPT ![c].check = "insert"]
    <3>1. calls' = [calls EXCEPT ![c] = [old EXCEPT !.check = "insert"]] /\ old.check = "dedupe"
      BY <1>14, <2>1 DEF FindAlert, TypeOK
    <3> HIDE DEF old
    <3>2. [old EXCEPT !.check = "insert"] \in Call /\ PhaseOf(c, [old EXCEPT !.check = "insert"])
      BY <1>1, <3>1 DEF PhaseOf, Sending, Call
    <3> QED
      BY <1>3, <3>1, <3>2
  <2>2. CASE EndAlert(c)
    BY <1>13, <1>14, <2>2 DEF FindAlert, Sending
  <2> QED
    BY <1>14, <2>1, <2>2 DEF FindAlert
<1>15. CASE InsertAlerts(c)
  <2>1. PICK rows \in SUBSET Admins :
            calls' = [calls EXCEPT ![c] = [old EXCEPT !.check = "commit", !.rows = rows,
                                                      !.aborted = (rows # Admins)]]
    BY <1>15 DEF InsertAlerts, TypeOK
  <2>2. old.check = "insert"
    BY <1>15 DEF InsertAlerts
  <2> HIDE DEF old
  <2> DEFINE call == [old EXCEPT !.check = "commit", !.rows = rows, !.aborted = (rows # Admins)]
  <2>3. call \in Call
    BY <1>1 DEF Call
  <2>4. PhaseOf(c, call)
    BY <1>1, <2>2 DEF PhaseOf, Sending, Call
  <2> QED
    BY <1>3, <2>1, <2>3, <2>4
<1>16. CASE CommitAlerts(c)
  BY <1>13, <1>16 DEF CommitAlerts, Sending
<1>17. CASE Talk(c)
  <2>1. PICK left \in {0, old.left - 1} :
            calls' = [calls EXCEPT ![c].left = left, ![c].turn = IF left = 0 THEN "none" ELSE @,
                                   ![c].free = @ /\ left > 0]
    BY <1>17 DEF Talk
  <2>2. old.turn = "talking"
    BY <1>17 DEF Talk
  <2> HIDE DEF old
  <2>3. left \in 0 .. MaxCalls /\ old.left \in Nat
    BY <1>1, <2>2, Constants DEF PhaseOf, Call
  <2> DEFINE call == [old EXCEPT !.left = left, !.turn = IF left = 0 THEN "none" ELSE @,
                                 !.free = @ /\ left > 0]
  <2>6. calls' = [calls EXCEPT ![c] = call]
    BY <2>1 DEF old, TypeOK
  <2>4. call \in Call
    <3>1. (old.free /\ left > 0) \in BOOLEAN
      OBVIOUS
    <3> QED
      BY <1>1, <2>2, <2>3, <3>1 DEF Call
  <2>5. PhaseOf(c, call)
    BY <1>1, <2>2, <2>3 DEF PhaseOf, Sending, Call
  <2> QED
    BY <1>3, <2>4, <2>5, <2>6
<1> QED
  BY <1>4, <1>5, <1>6, <1>7, <1>8, <1>9, <1>10, <1>11, <1>12, <1>14, <1>15, <1>16, <1>17
     DEF Move, Check

\* What a step of a call, and a step of the others, leaves alone.
LEMMA MoveType ==
    ASSUME TypeOK, NEW c \in Calls, Phase(c), Move(c)
    PROVE  /\ TypeOK' /\ Phase(c)'
           /\ \A d \in Calls : d # c => calls'[d] = calls[d]
           /\ today' = today /\ failures' >= failures
<1>1. PICK call \in Call : calls' = [calls EXCEPT ![c] = call] /\ PhaseOf(c, call)
  BY MoveOfACall
<1>2. /\ calls' \in [Calls -> Call] /\ calls'[c] = call
      /\ \A d \in Calls : d # c => calls'[d] = calls[d]
  BY <1>1, CallChange
<1>3. calls[c] \in Call /\ calls[c].free \in BOOLEAN /\ calls[c].day \in Days /\ Costs \subseteq Nat
  BY Constants DEF TypeOK, Call
<1>4. messages' \in Amounts
  <2>1. messages' \in {messages, Plus(messages, calls[c].free, 1)}
    BY DEF Move, Check, StartTurn, SaveMessage, StopWaiting, StartJob,
     SumLocked, SumFails, Decide, OpenAlert, TakeAlertLock, FindAlert, InsertAlerts, CommitAlerts, Talk
  <2>2. messages \in Amounts
    BY DEF TypeOK
  <2> QED
    BY <1>3, <2>1, <2>2, PlusType
<1>5. usage' \in Amounts
  <2>1. usage' = usage \/ \E n \in Costs : usage' = Plus(usage, calls[c].free, n)
    BY DEF Move, Check, StartTurn, SaveMessage, StopWaiting, StartJob,
     SumLocked, SumFails, Decide, OpenAlert, TakeAlertLock, FindAlert, InsertAlerts, CommitAlerts, Talk
  <2>2. usage \in Amounts
    BY DEF TypeOK
  <2> QED
    BY <1>3, <2>1, <2>2, PlusType
<1>6. budgetLock' \in Calls \cup {Nobody}
  BY DEF TypeOK, Move, Check, StartTurn, SaveMessage, StopWaiting, StartJob,
     SumLocked, SumFails, Decide, OpenAlert, TakeAlertLock, FindAlert, InsertAlerts, CommitAlerts, Talk
<1>7. alertLocks' \in [Types \X Days -> Calls \cup {Nobody}]
  BY DEF TypeOK, Move, Check, StartTurn, SaveMessage, StopWaiting, StartJob,
     SumLocked, SumFails, Decide, OpenAlert, TakeAlertLock, FindAlert, InsertAlerts, CommitAlerts, Talk,
     EndAlert
<1>8. alerts' \in [Types \X Days \X Admins -> Nat]
  <2>1. CASE CommitAlerts(c)
    BY <2>1 DEF CommitAlerts, TypeOK
  <2>2. CASE UNCHANGED alerts
    BY <2>2 DEF TypeOK
  <2> QED
    BY <2>1, <2>2 DEF Move, Check, StartTurn, SaveMessage, StopWaiting, StartJob,
       SumLocked, SumFails, Decide, OpenAlert, TakeAlertLock, FindAlert, InsertAlerts, CommitAlerts, Talk
<1>9. today' = today /\ today' \in Days
  BY DEF TypeOK, Move, Check, StartTurn, SaveMessage, StopWaiting, StartJob,
     SumLocked, SumFails, Decide, OpenAlert, TakeAlertLock, FindAlert, InsertAlerts, CommitAlerts, Talk
<1>10. refusals' \subseteq Days
  BY <1>3 DEF TypeOK, Move, Check, StartTurn, SaveMessage, StopWaiting, StartJob,
     SumLocked, SumFails, Decide, OpenAlert, TakeAlertLock, FindAlert, InsertAlerts, CommitAlerts, Talk
<1>11. failures' \in 0 .. MaxFailures /\ failures' >= failures
  <2>1. failures \in 0 .. MaxFailures /\ MaxFailures \in Nat
    BY Constants DEF TypeOK
  <2>2. Works \/ Fails
    BY DEF Move, Check, StartTurn, SaveMessage, StopWaiting, StartJob, Works,
     SumLocked, SumFails, Decide, OpenAlert, TakeAlertLock, FindAlert, InsertAlerts, CommitAlerts, Talk
  <2> QED
    BY <2>1, <2>2 DEF Works, Fails
<1>12. Phase(c)'
  BY <1>1, <1>2 DEF Phase
<1> QED
  BY <1>2, <1>4, <1>5, <1>6, <1>7, <1>8, <1>9, <1>10, <1>11, <1>12 DEF TypeOK

LEMMA DayType ==
    ASSUME TypeOK, DayPasses
    PROVE  TypeOK'
BY Constants, AmountsType DEF TypeOK, DayPasses, Days

LEMMA TypeStep ==
    ASSUME TypeOK, \A c \in Calls : Phase(c), [Next]_vars
    PROVE  TypeOK' /\ \A c \in Calls : Phase(c)'
<1>1. ASSUME NEW c \in Calls, Move(c)
      PROVE  TypeOK' /\ \A d \in Calls : Phase(d)'
  BY <1>1, MoveType DEF Phase
<1>2. CASE DayPasses
  BY <1>2, DayType DEF DayPasses, Phase
<1>3. CASE UNCHANGED vars
  BY <1>3 DEF vars, TypeOK, Phase
<1> QED
  BY <1>1, <1>2, <1>3 DEF Next, Move

LEMMA InitInv == Init => IndInv
<1> SUFFICES ASSUME Init PROVE IndInv
  OBVIOUS
<1>1. TypeOK
  BY Constants, AmountsType, NoCallType DEF Init, TypeOK
<1>2. \A c \in Calls : calls[c] = NoCall
  BY DEF Init
<1>3. \A c \in Calls : Phase(c) /\ AlertInv(c)
  BY <1>2 DEF NoCall, Phase, PhaseOf, AlertInv, Sending
<1>4. LocksAgree
  BY <1>2 DEF Init, NoCall, LocksAgree, LocksAreGivenBack, Sending
<1>5. \A t \in Types, d \in Days : Rows(t, d) = {}
  BY DEF Init, Rows
<1>6. AlertsAreWhole
  BY <1>5 DEF Init, AlertsAreWhole, OneAlertADay, AlertReachesAll, RefusalIsAnnounced
<1> QED
  BY <1>1, <1>3, <1>4, <1>6 DEF IndInv

-----------------------------------------------------------------------------
(* The locks *)

\* A step that neither takes nor releases an alert's lock, and leaves the
\* transactions that hold one alone.
LEMMA AlertLocksKept ==
    ASSUME TypeOK, TypeOK', LocksAgree, NEW c \in Calls,
           \A d \in Calls : d # c => calls'[d] = calls[d],
           alertLocks' = alertLocks,
           calls'[c].check \in Sending <=> calls[c].check \in Sending,
           calls[c].check \in Sending =>
               calls'[c].alert = calls[c].alert /\ calls'[c].day = calls[c].day,
           budgetLock' \in {budgetLock, Nobody, c},
           budgetLock' = c => calls'[c].check \notin {"none", "lock"}
    PROVE  LocksAgree'
<1>1. budgetLock' # Nobody => calls'[budgetLock'].check \notin {"none", "lock"}
  <2>1. ASSUME budgetLock' # Nobody, budgetLock' # c
        PROVE  calls'[budgetLock'].check \notin {"none", "lock"}
    <3>1. budgetLock' = budgetLock /\ budgetLock \in Calls
      BY <2>1 DEF TypeOK
    <3> QED
      BY <2>1, <3>1 DEF LocksAgree, LocksAreGivenBack
  <2> QED
    BY <2>1
<1>2. \A d \in Calls : calls'[d].check \in Sending =>
          calls[d].check \in Sending /\ AlertLock(d)' = AlertLock(d)
  BY DEF AlertLock
<1>3. \A d \in Calls : calls[d].check \in Sending =>
          calls'[d].check \in Sending /\ AlertLock(d)' = AlertLock(d)
  BY DEF AlertLock
<1>4. \A l \in DOMAIN alertLocks' : alertLocks'[l] # Nobody =>
          /\ calls'[alertLocks'[l]].check \in Sending
          /\ <<calls'[alertLocks'[l]].alert, calls'[alertLocks'[l]].day>> = l
  <2> SUFFICES ASSUME NEW l \in DOMAIN alertLocks, alertLocks[l] # Nobody
               PROVE  /\ calls'[alertLocks[l]].check \in Sending
                      /\ <<calls'[alertLocks[l]].alert, calls'[alertLocks[l]].day>> = l
    OBVIOUS
  <2>1. PICK d \in Calls : alertLocks[l] = d
    BY DEF TypeOK
  <2>2. calls[d].check \in Sending /\ AlertLock(d) = l
    BY <2>1 DEF LocksAgree, LocksAreGivenBack, Sending, AlertLock
  <2> QED
    BY <1>3, <2>1, <2>2 DEF AlertLock
<1>5. \A d \in Calls : calls'[d].check \in Sending => alertLocks'[AlertLock(d)'] = d
  BY <1>2 DEF LocksAgree
<1> QED
  BY <1>1, <1>4, <1>5 DEF LocksAgree, LocksAreGivenBack, Sending, AlertLock

\* The end of an alert's transaction releases the lock that it holds, and no other.
LEMMA AlertLockReleased ==
    ASSUME TypeOK, LocksAgree, \A d \in Calls : Phase(d), NEW c \in Calls,
           EndAlert(c), calls[c].check \in Sending, UNCHANGED budgetLock
    PROVE  /\ LocksAgree'
           /\ alertLocks[AlertLock(c)] = c
           /\ \A d \in Calls : d # c /\ calls[d].check \in Sending => AlertLock(d) # AlertLock(c)
<1>1. calls[c].alert \in Types /\ calls[c] \in Call /\ AlertLock(c) \in Types \X Days
  BY DEF Phase, PhaseOf, TypeOK, Call, AlertLock
<1>2. /\ calls'[c].check = "decide"
      /\ \A d \in Calls : d # c => calls'[d] = calls[d]
      /\ alertLocks' \in [Types \X Days -> Calls \cup {Nobody}]
      /\ alertLocks'[AlertLock(c)] = Nobody
      /\ \A l \in Types \X Days : l # AlertLock(c) => alertLocks'[l] = alertLocks[l]
  <2>1. [calls[c] EXCEPT !.check = "decide", !.rows = {}, !.aborted = FALSE].check = "decide"
    BY <1>1 DEF Call
  <2> QED
    BY <1>1, <2>1, EndAlertChange
<1>3. alertLocks[AlertLock(c)] = c
  BY DEF LocksAgree
<1>4. ASSUME NEW d \in Calls, d # c, calls[d].check \in Sending
      PROVE  AlertLock(d) # AlertLock(c) /\ AlertLock(d)' = AlertLock(d) /\ AlertLock(d) \in Types \X Days
  <2>1. alertLocks[AlertLock(d)] = d
    BY <1>4 DEF LocksAgree
  <2>2. AlertLock(d)' = AlertLock(d)
    BY <1>2, <1>4 DEF AlertLock
  <2>3. calls[d].alert \in Types /\ calls[d].day \in Days
    BY <1>4 DEF TypeOK, Call, Phase, PhaseOf
  <2> QED
    BY <1>3, <1>4, <2>1, <2>2, <2>3 DEF AlertLock
<1>5. \A l \in DOMAIN alertLocks' : alertLocks'[l] # Nobody =>
          /\ calls'[alertLocks'[l]].check \in Sending
          /\ <<calls'[alertLocks'[l]].alert, calls'[alertLocks'[l]].day>> = l
  <2> SUFFICES ASSUME NEW l \in Types \X Days, alertLocks'[l] # Nobody
               PROVE  /\ calls'[alertLocks'[l]].check \in Sending
                      /\ <<calls'[alertLocks'[l]].alert, calls'[alertLocks'[l]].day>> = l
    BY <1>2
  <2>1. l # AlertLock(c) /\ alertLocks'[l] = alertLocks[l]
    BY <1>2
  <2>2. PICK d \in Calls : alertLocks[l] = d
    BY <2>1 DEF TypeOK
  <2>3. l \in DOMAIN alertLocks
    BY DEF TypeOK
  <2>4. calls[d].check \in Sending /\ AlertLock(d) = l
    BY <2>1, <2>2, <2>3 DEF LocksAgree, LocksAreGivenBack, Sending, AlertLock
  <2>5. d # c
    BY <2>1, <2>4
  <2>6. calls'[d] = calls[d] /\ alertLocks'[l] = d
    BY <1>2, <2>1, <2>2, <2>5
  <2> QED
    BY <2>4, <2>6 DEF AlertLock
<1>6. \A d \in Calls : calls'[d].check \in Sending => alertLocks'[AlertLock(d)'] = d
  <2> SUFFICES ASSUME NEW d \in Calls, calls'[d].check \in Sending
               PROVE  alertLocks'[AlertLock(d)'] = d
    OBVIOUS
  <2>1. d # c /\ calls[d].check \in Sending
    BY <1>2 DEF Sending
  <2> QED
    BY <1>2, <1>4, <2>1 DEF LocksAgree
<1>7. budgetLock' # Nobody => calls'[budgetLock'].check \notin {"none", "lock"}
  BY <1>2 DEF TypeOK, LocksAgree, LocksAreGivenBack
<1> QED
  BY <1>3, <1>4, <1>5, <1>6, <1>7 DEF LocksAgree, LocksAreGivenBack, Sending, AlertLock

\* An alert's lock is taken only when nobody has it.
LEMMA AlertLockTaken ==
    ASSUME TypeOK, LocksAgree, \A d \in Calls : Phase(d), NEW c \in Calls,
           calls[c].check = "open", alertLocks[AlertLock(c)] = Nobody,
           alertLocks' = [alertLocks EXCEPT ![AlertLock(c)] = c],
           calls' = [calls EXCEPT ![c].check = "dedupe"], UNCHANGED budgetLock
    PROVE  LocksAgree'
<1>1. AlertLock(c) \in Types \X Days
  BY DEF AlertLock, Phase, PhaseOf, TypeOK, Call
<1>2. /\ calls'[c].check = "dedupe"
      /\ \A d \in Calls : calls'[d].alert = calls[d].alert /\ calls'[d].day = calls[d].day
      /\ \A d \in Calls : d # c => calls'[d] = calls[d]
  BY DEF TypeOK, Call
<1>3. /\ alertLocks'[AlertLock(c)] = c
      /\ \A l \in Types \X Days : l # AlertLock(c) => alertLocks'[l] = alertLocks[l]
      /\ DOMAIN alertLocks' = Types \X Days /\ DOMAIN alertLocks = Types \X Days
  BY <1>1 DEF TypeOK
<1>4. \A l \in DOMAIN alertLocks' : alertLocks'[l] # Nobody =>
          /\ calls'[alertLocks'[l]].check \in Sending
          /\ <<calls'[alertLocks'[l]].alert, calls'[alertLocks'[l]].day>> = l
  <2> SUFFICES ASSUME NEW l \in Types \X Days, alertLocks'[l] # Nobody
               PROVE  /\ calls'[alertLocks'[l]].check \in Sending
                      /\ <<calls'[alertLocks'[l]].alert, calls'[alertLocks'[l]].day>> = l
    BY <1>3
  <2>1. CASE l = AlertLock(c)
    BY <1>2, <1>3, <2>1 DEF AlertLock, Sending
  <2>2. CASE l # AlertLock(c)
    <3>1. PICK d \in Calls : alertLocks[l] = d /\ alertLocks'[l] = d
      BY <1>3, <2>2 DEF TypeOK
    <3>2. calls[d].check \in Sending /\ AlertLock(d) = l
      BY <1>3, <2>2, <3>1 DEF LocksAgree, LocksAreGivenBack, Sending
    <3> QED
      BY <1>2, <2>2, <3>1, <3>2 DEF AlertLock
  <2> QED
    BY <2>1, <2>2
<1>5. \A d \in Calls : calls'[d].check \in Sending =>
          alertLocks'[<<calls'[d].alert, calls'[d].day>>] = d
  <2> SUFFICES ASSUME NEW d \in Calls, d # c, calls[d].check \in Sending
               PROVE  alertLocks'[AlertLock(d)] = d
    BY <1>2, <1>3 DEF AlertLock
  <2>1. alertLocks[AlertLock(d)] = d /\ d # Nobody
    BY Constants DEF LocksAgree
  <2>2. AlertLock(d) \in Types \X Days
    BY DEF AlertLock, Phase, PhaseOf, TypeOK, Call
  <2> QED
    BY <1>3, <2>1, <2>2
<1>6. budgetLock' # Nobody => calls'[budgetLock'].check \notin {"none", "lock"}
  BY <1>2 DEF TypeOK, LocksAgree, LocksAreGivenBack
<1> QED
  BY <1>4, <1>5, <1>6 DEF LocksAgree, LocksAreGivenBack, Sending, AlertLock

\* Steps that leave the check of the budget where it is.
LEMMA CheckKept ==
    ASSUME TypeOK, NEW c \in Calls, StopWaiting(c) \/ Talk(c)
    PROVE  /\ calls'[c].check = calls[c].check /\ calls'[c].alert = calls[c].alert
           /\ calls'[c].day = calls[c].day /\ calls'[c].rows = calls[c].rows
           /\ calls'[c].aborted = calls[c].aborted
           /\ \A d \in Calls : d # c => calls'[d] = calls[d]
           /\ UNCHANGED <<budgetLock, alertLocks, alerts, refusals>>
<1>1. calls[c] \in Call /\ \A d \in Calls : d # c => calls'[d] = calls[d]
  BY DEF TypeOK, StopWaiting, Talk
<1>2. CASE StopWaiting(c)
  <2>1. calls'[c] = LetTalk(calls[c], TRUE)
    BY <1>2 DEF StopWaiting, TypeOK
  <2> DEFINE old == calls[c]
  <2>2. old \in Call
    BY <1>1
  <2> HIDE DEF old
  <2>3. /\ LetTalk(old, TRUE).check = old.check /\ LetTalk(old, TRUE).alert = old.alert
        /\ LetTalk(old, TRUE).day = old.day /\ LetTalk(old, TRUE).rows = old.rows
        /\ LetTalk(old, TRUE).aborted = old.aborted
    BY <2>2, LetTalkType
  <2> QED
    BY <1>1, <1>2, <2>1, <2>3 DEF StopWaiting, old
<1>3. CASE Talk(c)
  <2>1. PICK left \in {0, calls[c].left - 1} :
            calls' = [calls EXCEPT ![c].left = left, ![c].turn = IF left = 0 THEN "none" ELSE @,
                                   ![c].free = @ /\ left > 0]
    BY <1>3 DEF Talk
  <2> QED
    BY <1>1, <1>3, <2>1 DEF Talk, TypeOK, Call
<1> QED
  BY <1>2, <1>3

\* Steps outside the transactions of the alerts.
Outside(c) == \/ StartTurn(c) \/ SaveMessage(c) \/ StartJob(c) \/ SumLocked(c) \/ SumFails(c)
              \/ Decide(c) \/ OpenAlert(c)

LEMMA OutsideAlerts ==
    ASSUME TypeOK, LocksAgree, NEW c \in Calls, Phase(c), Outside(c)
    PROVE  /\ calls[c].check \notin Sending /\ calls'[c].check \notin Sending
           /\ calls'[c].check = "decide" => calls'[c].alert = "none"
           /\ budgetLock' \in {budgetLock, Nobody, c}
           /\ budgetLock' = c => calls'[c].check \notin {"none", "lock"}
           /\ UNCHANGED <<alertLocks, alerts>>
           /\ refusals' = refusals \/ Decide(c)
<1> DEFINE old == calls[c]
           new == calls'[c]
<1>1. old \in Call /\ PhaseOf(c, old) /\ c # Nobody
  BY Constants DEF TypeOK, Phase
<1>2. Sum(usage) \in Nat
  BY AmountsType DEF TypeOK
<1>3. old.check \in {"none", "lock"} => budgetLock # c
  BY <1>1 DEF LocksAgree, LocksAreGivenBack
<1>4. ASSUME NEW call \in Call
      PROVE  /\ Summed(call, Sum(usage)).check \in {"decide", "alert"}
             /\ Summed(call, Sum(usage)).check = "decide" => Summed(call, Sum(usage)).alert = "none"
  BY <1>2, SummedType, BandType
<1>5. CASE StartTurn(c)
  <2>1. old.check = "none" /\ new.check = "none" /\ UNCHANGED <<budgetLock, alertLocks, alerts, refusals>>
    BY <1>5 DEF StartTurn, NoCall, TypeOK
  <2> QED
    BY <1>3, <2>1 DEF Sending
<1>6. CASE SaveMessage(c)
  <2>1. old.check = "none" /\ new.check = "lock" /\ UNCHANGED <<budgetLock, alertLocks, alerts, refusals>>
    BY <1>1, <1>6 DEF SaveMessage, NoCall, TypeOK, PhaseOf
  <2> QED
    BY <1>3, <2>1 DEF Sending
<1>7. CASE StartJob(c)
  <2> DEFINE job == [NoCall EXCEPT !.turn = "checking"]
  <2>1. old.check = "none" /\ UNCHANGED <<budgetLock, alertLocks, alerts, refusals>>
    BY <1>1, <1>7 DEF StartJob, PhaseOf
  <2>2. job \in Call
    BY NoCallType DEF Call
  <2>3. new = Summed(job, Sum(usage)) \/ new = Unchecked(job)
    BY <1>7 DEF StartJob, TypeOK
  <2>4. Unchecked(job).check = "none"
    BY <2>2, PassedType DEF Unchecked
  <2> HIDE DEF job
  <2> QED
    BY <1>3, <1>4, <2>1, <2>2, <2>3, <2>4 DEF Sending
<1>8. CASE SumLocked(c)
  <2>1. /\ old.check = "lock" /\ new = Summed(old, Sum(usage)) /\ budgetLock' = c
        /\ UNCHANGED <<alertLocks, alerts, refusals>>
    BY <1>8 DEF SumLocked, TypeOK
  <2>2. new.check \in {"decide", "alert"} /\ (new.check = "decide" => new.alert = "none")
    BY <1>1, <1>4, <2>1
  <2> QED
    BY <2>1, <2>2 DEF Sending
<1>9. CASE SumFails(c)
  <2>1. /\ old.check = "lock" /\ new = Passed(old, TRUE)
        /\ UNCHANGED <<budgetLock, alertLocks, alerts, refusals>>
    BY <1>9 DEF SumFails, Unchecked, TypeOK
  <2> HIDE DEF old
  <2>3. Passed(old, TRUE).check = "none"
    BY <1>1, PassedType
  <2> USE DEF old
  <2>2. new.check = "none"
    BY <2>1, <2>3
  <2> QED
    BY <1>3, <2>1, <2>2 DEF Sending
<1>10. CASE Decide(c)
  <2>1. /\ old.check = "decide" /\ new = Decided(old)
        /\ budgetLock' \in {budgetLock, Nobody} /\ budgetLock' # c
        /\ UNCHANGED <<alertLocks, alerts>>
    BY <1>1, <1>10 DEF Decide, Decided, TypeOK
  <2>2. new.check = "none"
    BY <1>1, <2>1, DecidedType
  <2> QED
    BY <1>10, <2>1, <2>2 DEF Sending
<1>11. CASE OpenAlert(c)
  <2>1. /\ old.check = "alert" /\ new = [old EXCEPT !.check = "open", !.day = today]
        /\ UNCHANGED <<budgetLock, alertLocks, alerts, refusals>>
    BY <1>11 DEF OpenAlert, TypeOK
  <2>2. new.check = "open"
    BY <1>1, <2>1 DEF Call
  <2> QED
    BY <2>1, <2>2 DEF Sending
<1> QED
  BY <1>5, <1>6, <1>7, <1>8, <1>9, <1>10, <1>11 DEF Outside

\* The lock of an alert is not there, or cannot be asked for: the check goes on.
LEMMA AlertSkipped ==
    ASSUME TypeOK, NEW c \in Calls, calls[c].check = "open",
           calls' = [calls EXCEPT ![c].check = "decide"]
    PROVE  /\ calls'[c].check = "decide" /\ calls'[c].alert = calls[c].alert
           /\ calls'[c].day = calls[c].day
           /\ \A d \in Calls : d # c => calls'[d] = calls[d]
BY DEF TypeOK, Call

LEMMA LocksStep ==
    ASSUME TypeOK, \A c \in Calls : Phase(c), LocksAgree, [Next]_vars
    PROVE  LocksAgree'
<1>1. TypeOK'
  BY TypeStep
<1>2. ASSUME NEW c \in Calls, Move(c)
      PROVE  LocksAgree'
  <2>1. \A d \in Calls : d # c => calls'[d] = calls[d]
    BY <1>2, MoveType
  <2>2. calls[c] \in Call /\ PhaseOf(c, calls[c]) /\ c # Nobody
    BY Constants DEF TypeOK, Phase
  <2>3. CASE Outside(c)
    BY <1>1, <2>1, <2>3, OutsideAlerts, AlertLocksKept
  <2>4. CASE StopWaiting(c) \/ Talk(c)
    <3>1. budgetLock' = c => calls'[c].check \notin {"none", "lock"}
      BY <2>2, <2>4, CheckKept DEF LocksAgree, LocksAreGivenBack
    <3> QED
      BY <1>1, <2>1, <2>4, <3>1, CheckKept, AlertLocksKept
  <2>5. CASE TakeAlertLock(c)
    <3>1. CASE calls' = [calls EXCEPT ![c].check = "dedupe"] /\ alertLocks[AlertLock(c)] = Nobody
               /\ alertLocks' = [alertLocks EXCEPT ![AlertLock(c)] = c]
      BY <2>5, <3>1, AlertLockTaken DEF TakeAlertLock
    <3>2. CASE calls' = [calls EXCEPT ![c].check = "decide"] /\ UNCHANGED alertLocks
      <4>1. calls[c].check = "open" /\ UNCHANGED budgetLock
        BY <2>5 DEF TakeAlertLock
      <4>2. calls'[c].check = "decide"
        BY <3>2, <4>1, AlertSkipped
      <4> QED
        BY <1>1, <2>1, <3>2, <4>1, <4>2, AlertLocksKept DEF Sending
    <3> QED
      BY <2>5, <3>1, <3>2 DEF TakeAlertLock
  <2>6. CASE FindAlert(c)
    <3>1. calls[c].check = "dedupe" /\ UNCHANGED budgetLock
      BY <2>6 DEF FindAlert
    <3>2. CASE EndAlert(c)
      BY <3>1, <3>2, AlertLockReleased DEF Sending
    <3>3. CASE calls' = [calls EXCEPT ![c].check = "insert"] /\ UNCHANGED alertLocks
      <4>1. /\ calls'[c].check = "insert" /\ calls'[c].alert = calls[c].alert
            /\ calls'[c].day = calls[c].day
        BY <2>2, <3>3 DEF TypeOK, Call
      <4> QED
        BY <1>1, <2>1, <3>1, <3>3, <4>1, AlertLocksKept DEF Sending
    <3> QED
      BY <2>6, <3>2, <3>3 DEF FindAlert
  <2>7. CASE InsertAlerts(c)
    <3>1. calls[c].check = "insert" /\ UNCHANGED <<budgetLock, alertLocks>>
      BY <2>7 DEF InsertAlerts
    <3>2. /\ calls'[c].check = "commit" /\ calls'[c].alert = calls[c].alert
          /\ calls'[c].day = calls[c].day
      BY <2>2, <2>7 DEF InsertAlerts, TypeOK, Call
    <3> QED
      BY <1>1, <2>1, <3>1, <3>2, AlertLocksKept DEF Sending
  <2>8. CASE CommitAlerts(c)
    BY <2>8, AlertLockReleased DEF CommitAlerts, Sending
  <2> QED
    BY <1>2, <2>3, <2>4, <2>5, <2>6, <2>7, <2>8 DEF Move, Check, Outside
<1>3. CASE DayPasses \/ UNCHANGED vars
  BY <1>3 DEF DayPasses, vars, LocksAgree, LocksAreGivenBack, AlertLock
<1> QED
  BY <1>2, <1>3 DEF Next, Move

-----------------------------------------------------------------------------
(* The alerts *)

\* An announcement is there as long as its rows and its lock are.
LEMMA AnnouncementStays ==
    ASSUME NEW type, NEW day, Announced(type, day),
           \A d \in Days : Rows(type, d) = Admins => Rows(type, d)' = Admins,
           alertLocks[<<type, day>>] # Nobody => Announced(type, day)'
    PROVE  Announced(type, day)'
<1>1. CASE \E d \in Days : d >= day /\ Rows(type, d) = Admins
  <2>1. PICK d \in Days : d >= day /\ Rows(type, d) = Admins
    BY <1>1
  <2>2. Rows(type, d)' = Admins
    BY <2>1
  <2> QED
    BY <2>1, <2>2 DEF Announced
<1> QED
  BY <1>1 DEF Announced

\* What the others know of the alerts outlives a step of c that takes back no
\* announcement and writes none of their rows.
LEMMA AlertFrame ==
    ASSUME IndInv, NEW c \in Calls, \A d \in Calls : d # c => calls'[d] = calls[d],
           failures \in Nat, failures' \in Nat, failures' >= failures,
           \A t \in Types, d \in Days : failures' = 0 /\ Announced(t, d) => Announced(t, d)',
           \A d \in Calls : d # c /\ calls[d].check \in {"insert", "commit"} /\ Unwritten(d) => Unwritten(d)',
           \A d \in refusals' : d \in refusals \/ (failures' = 0 => Announced("cost_exhausted", d)'),
           AlertInv(c)', OneAlertADay', AlertReachesAll'
    PROVE  AlertsAreWhole' /\ \A d \in Calls : AlertInv(d)'
<1>1. RefusalIsAnnounced'
  <2> SUFFICES ASSUME NEW d \in refusals', failures' = 0
               PROVE  Announced("cost_exhausted", d)'
    BY DEF RefusalIsAnnounced
  <2>1. CASE d \in refusals
    <3>1. failures = 0 /\ d \in Days
      BY <2>1 DEF IndInv, TypeOK
    <3>2. Announced("cost_exhausted", d)
      BY <2>1, <3>1 DEF IndInv, AlertsAreWhole, RefusalIsAnnounced
    <3> QED
      BY <3>1, <3>2 DEF Types
  <2> QED
    BY <2>1
<1>2. ASSUME NEW d \in Calls, d # c
      PROVE  AlertInv(d)'
  <2>1. AlertInv(d) /\ calls'[d] = calls[d] /\ (failures' = 0 => failures = 0)
    BY <1>2 DEF IndInv
  <2>2. calls[d].alert \in Types \cup {"none"} /\ calls[d].day \in Days
    BY DEF IndInv, TypeOK, Call
  <2>3. calls'[d].check \in {"insert", "commit"} => Unwritten(d)'
    BY <1>2, <2>1 DEF AlertInv
  <2>4. failures' = 0 /\ calls'[d].check = "decide" /\ calls'[d].alert # "none" =>
            Announced(calls[d].alert, calls[d].day)'
    BY <2>1, <2>2 DEF AlertInv
  <2> QED
    BY <2>1, <2>3, <2>4 DEF AlertInv, Announced, Rows
<1> QED
  BY <1>1, <1>2 DEF AlertsAreWhole

\* The commit of an alert, which nobody else writes: one row for everybody, or none.
LEMMA CommitWritesAll ==
    ASSUME IndInv, NEW c \in Calls, CommitAlerts(c),
           NEW type, NEW day, type = calls[c].alert, day = calls[c].day
    PROVE  /\ OneAlertADay' /\ AlertReachesAll'
           /\ \A t \in Types, d \in Days : <<t, d>> # <<type, day>> => Rows(t, d)' = Rows(t, d)
           /\ failures = 0 => Rows(type, day)' = Admins
           /\ calls[c].rows # Admins => alerts' = alerts
<1>1. /\ calls[c].check = "commit" /\ type \in Types /\ day \in Days /\ Rows(type, day) = {}
      /\ calls[c].aborted = (calls[c].rows # Admins)
      /\ failures = 0 => calls[c].rows = Admins
  <2>1. calls[c].check = "commit"
    BY DEF CommitAlerts
  <2>2. AlertInv(c) /\ PhaseOf(c, calls[c]) /\ calls[c] \in Call
    BY DEF IndInv, Phase, TypeOK
  <2> QED
    BY <2>1, <2>2 DEF AlertInv, PhaseOf, Sending, Call, Unwritten
<1>2. alerts \in [Types \X Days \X Admins -> Nat] /\ OneAlertADay /\ AlertReachesAll
  BY DEF IndInv, TypeOK, AlertsAreWhole
<1>3. CASE calls[c].rows # Admins
  <2>1. alerts' = [n \in DOMAIN alerts |-> alerts[n]]
    BY <1>1, <1>3 DEF CommitAlerts
  <2>2. alerts' = alerts
    BY <1>2, <2>1
  <2> QED
    BY <1>1, <1>2, <1>3, <2>2 DEF OneAlertADay, AlertReachesAll, Rows
<1>4. CASE calls[c].rows = Admins
  <2>1. \A t \in Types, d \in Days, a \in Admins :
            alerts'[<<t, d, a>>] = IF <<t, d>> = <<type, day>> THEN alerts[<<t, d, a>>] + 1
                                                              ELSE alerts[<<t, d, a>>]
    BY <1>1, <1>2, <1>4 DEF CommitAlerts, Inserted
  <2>2. \A a \in Admins : alerts[<<type, day, a>>] = 0
    BY <1>1, <1>2 DEF Rows
  <2>3. \A a \in Admins : alerts'[<<type, day, a>>] = 1
    BY <1>1, <2>1, <2>2
  <2>4. Rows(type, day)' = Admins
    BY <2>3 DEF Rows
  <2>5. \A t \in Types, d \in Days : <<t, d>> # <<type, day>> => Rows(t, d)' = Rows(t, d)
    BY <2>1 DEF Rows
  <2>6. OneAlertADay'
    <3>1. DOMAIN alerts' = Types \X Days \X Admins
      BY <1>2 DEF CommitAlerts
    <3>2. ASSUME NEW t \in Types, NEW d \in Days, NEW a \in Admins
          PROVE  alerts'[<<t, d, a>>] <= 1
      <4>1. alerts[<<t, d, a>>] <= 1
        BY <1>2 DEF OneAlertADay
      <4> QED
        BY <2>1, <2>3, <4>1
    <3> QED
      BY <3>1, <3>2 DEF OneAlertADay
  <2>7. AlertReachesAll'
    BY <1>2, <2>4, <2>5 DEF AlertReachesAll
  <2> QED
    BY <1>4, <2>4, <2>5, <2>6, <2>7
<1> QED
  BY <1>3, <1>4

LEMMA AlertsStep ==
    ASSUME IndInv, [Next]_vars
    PROVE  AlertsAreWhole' /\ \A c \in Calls : AlertInv(c)'
<1>1. /\ TypeOK /\ TypeOK' /\ LocksAgree /\ \A c \in Calls : Phase(c)
      /\ OneAlertADay /\ AlertReachesAll
  BY TypeStep DEF IndInv, AlertsAreWhole
<1>2. ASSUME NEW c \in Calls, Move(c)
      PROVE  AlertsAreWhole' /\ \A d \in Calls : AlertInv(d)'
  <2>1. /\ \A d \in Calls : d # c => calls'[d] = calls[d]
        /\ failures \in Nat /\ failures' \in Nat /\ failures' >= failures
    BY <1>1, <1>2, MoveType DEF TypeOK
  <2>2. calls[c] \in Call /\ PhaseOf(c, calls[c]) /\ AlertInv(c) /\ c # Nobody
    BY <1>1, Constants DEF IndInv, TypeOK, Phase
  <2>3. PICK type, day : type = calls[c].alert /\ day = calls[c].day
    OBVIOUS
  <2>4. ASSUME UNCHANGED alerts, AlertInv(c)',
               \A t \in Types, d \in Days : failures' = 0 /\ Announced(t, d) => Announced(t, d)',
               \A d \in refusals' : d \in refusals \/ (failures' = 0 => Announced("cost_exhausted", d)')
        PROVE  AlertsAreWhole' /\ \A d \in Calls : AlertInv(d)'
    <3>1. \A t, d : Rows(t, d)' = Rows(t, d)
      BY <2>4 DEF Rows
    <3>2. OneAlertADay' /\ AlertReachesAll'
      BY <1>1, <2>4, <3>1 DEF OneAlertADay, AlertReachesAll
    <3>3. \A d \in Calls : d # c /\ Unwritten(d) => Unwritten(d)'
      BY <2>1, <2>4 DEF Unwritten, Rows
    <3> QED
      BY <2>1, <2>4, <3>2, <3>3, AlertFrame
  <2>5. CASE Outside(c)
    <3>1. /\ calls'[c].check \notin Sending
          /\ calls'[c].check = "decide" => calls'[c].alert = "none"
          /\ UNCHANGED <<alertLocks, alerts>>
          /\ refusals' = refusals \/ Decide(c)
      BY <1>1, <2>5, OutsideAlerts
    <3>2. AlertInv(c)'
      BY <3>1 DEF AlertInv, Sending
    <3>3. \A t \in Types, d \in Days : Announced(t, d) => Announced(t, d)'
      BY <3>1 DEF Announced, Rows
    <3>4. ASSUME NEW d \in refusals', d \notin refusals, failures' = 0
          PROVE  Announced("cost_exhausted", d)'
      <4>1. /\ calls[c].check = "decide" /\ calls[c].alert = "cost_exhausted" /\ d = calls[c].day
            /\ failures = 0
        BY <3>1, <3>4 DEF Decide, Refused
      <4>2. Announced("cost_exhausted", d) /\ d \in Days
        BY <2>2, <4>1 DEF AlertInv, Call
      <4> QED
        BY <3>3, <4>2 DEF Types
    <3> QED
      BY <2>4, <3>1, <3>2, <3>3, <3>4
  <2>6. CASE StopWaiting(c) \/ Talk(c)
    <3>1. /\ calls'[c].check = calls[c].check /\ calls'[c].alert = calls[c].alert
          /\ calls'[c].day = calls[c].day /\ calls'[c].rows = calls[c].rows
          /\ calls'[c].aborted = calls[c].aborted
          /\ UNCHANGED <<alertLocks, alerts, refusals>>
      BY <1>1, <2>6, CheckKept
    <3>2. failures' = 0 => failures = 0
      BY <2>1
    <3>3. AlertInv(c)'
      BY <2>2, <3>1, <3>2 DEF AlertInv, Unwritten, Announced, Rows
    <3>4. \A t \in Types, d \in Days : Announced(t, d) => Announced(t, d)'
      BY <3>1 DEF Announced, Rows
    <3> QED
      BY <2>4, <3>1, <3>3, <3>4
  <2>7. CASE TakeAlertLock(c)
    <3>1. UNCHANGED <<alerts, refusals>> /\ calls[c].check = "open"
      BY <2>7 DEF TakeAlertLock
    <3>2. AlertLock(c) \in Types \X Days
      BY <2>2, <3>1 DEF PhaseOf, Call, AlertLock
    <3>3. CASE calls' = [calls EXCEPT ![c].check = "dedupe"]
               /\ alertLocks' = [alertLocks EXCEPT ![AlertLock(c)] = c]
      <4>1. calls'[c].check = "dedupe"
        BY <1>1, <3>3 DEF TypeOK, Call
      <4>2. AlertInv(c)'
        BY <4>1 DEF AlertInv
      <4>3. \A t \in Types, d \in Days : Announced(t, d) => Announced(t, d)'
        BY <1>1, <2>2, <3>1, <3>3 DEF Announced, Rows, TypeOK
      <4> QED
        BY <2>4, <3>1, <4>2, <4>3
    <3>4. CASE /\ calls' = [calls EXCEPT ![c].check = "decide"] /\ UNCHANGED alertLocks
               /\ alertLocks[AlertLock(c)] # Nobody \/ Fails
      <4>1. /\ calls'[c].check = "decide" /\ calls'[c].alert = type /\ calls'[c].day = day
        BY <1>1, <2>3, <3>1, <3>4, AlertSkipped
      <4>2. failures' = 0 => alertLocks'[<<type, day>>] # Nobody
        BY <2>1, <2>3, <3>4 DEF Fails, AlertLock
      <4>3. AlertInv(c)'
        BY <4>1, <4>2 DEF AlertInv, Announced
      <4>4. \A t \in Types, d \in Days : Announced(t, d) => Announced(t, d)'
        BY <3>1, <3>4 DEF Announced, Rows
      <4> QED
        BY <2>4, <3>1, <4>3, <4>4
    <3> QED
      BY <2>7, <3>3, <3>4 DEF TakeAlertLock
  <2>8. ASSUME EndAlert(c), calls[c].check \in Sending
        PROVE  /\ calls'[c].check = "decide" /\ calls'[c].alert = type /\ calls'[c].day = day
               /\ type \in Types /\ day \in Days
               /\ \A l \in Types \X Days : l # <<type, day>> => alertLocks'[l] = alertLocks[l]
    <3>1. type \in Types /\ day \in Days
      BY <2>2, <2>3, <2>8 DEF PhaseOf, Call
    <3> DEFINE new == [calls[c] EXCEPT !.check = "decide", !.rows = {}, !.aborted = FALSE]
    <3>2. calls'[c] = new
      BY <1>1, <2>3, <2>8, <3>1, EndAlertChange
    <3>3. new.check = "decide" /\ new.alert = type /\ new.day = day
      BY <2>2, <2>3 DEF Call
    <3>4. \A l \in Types \X Days : l # AlertLock(c) => alertLocks'[l] = alertLocks[l]
      BY <1>1, <2>3, <2>8, <3>1, EndAlertChange
    <3> QED
      BY <2>3, <3>1, <3>2, <3>3, <3>4 DEF AlertLock
  <2>9. CASE FindAlert(c)
    <3>1. UNCHANGED <<alerts, refusals>> /\ calls[c].check = "dedupe" /\ calls[c].check \in Sending
      BY <2>9 DEF FindAlert, Sending
    <3>2. CASE calls' = [calls EXCEPT ![c].check = "insert"] /\ UNCHANGED alertLocks /\ ~Sent(c)
      <4>1. calls'[c].check = "insert" /\ calls'[c].alert = calls[c].alert /\ calls'[c].day = calls[c].day
        BY <1>1, <3>2 DEF TypeOK, Call
      <4>2. AlertInv(c)'
        <5>1. Unwritten(c)
          BY <1>1, <2>2, <3>1, <3>2 DEF Sent, Unwritten, PhaseOf, Sending, Call, Days
        <5>2. Unwritten(c)'
          BY <3>1, <4>1, <5>1 DEF Unwritten, Rows
        <5> QED
          BY <4>1, <5>2 DEF AlertInv
      <4>3. \A t \in Types, d \in Days : Announced(t, d) => Announced(t, d)'
        BY <3>1, <3>2 DEF Announced, Rows
      <4> QED
        BY <2>4, <3>1, <4>2, <4>3
    <3>3. CASE EndAlert(c) /\ (Sent(c) \/ Fails)
      <4>1. failures' = 0 => Announced(type, day)'
        <5>1. failures' = 0 => Sent(c)
          BY <2>1, <3>3 DEF Fails
        <5>2. Sent(c) => \E d \in Days : d >= day /\ Rows(type, d) = Admins
          BY <1>1, <2>3, <2>8, <3>1, <3>3 DEF Sent, AlertReachesAll
        <5>3. \A d : Rows(type, d)' = Rows(type, d)
          BY <3>1 DEF Rows
        <5> QED
          BY <5>1, <5>2, <5>3 DEF Announced
      <4>2. AlertInv(c)'
        BY <2>8, <3>1, <3>3, <4>1 DEF AlertInv
      <4>3. \A t \in Types, d \in Days : failures' = 0 /\ Announced(t, d) => Announced(t, d)'
        <5> SUFFICES ASSUME NEW t \in Types, NEW d \in Days, failures' = 0, Announced(t, d)
                     PROVE  Announced(t, d)'
          OBVIOUS
        <5>1. CASE <<t, d>> = <<type, day>>
          BY <4>1, <5>1
        <5>2. CASE <<t, d>> # <<type, day>>
          BY <2>8, <3>1, <3>3, <5>2 DEF Announced, Rows
        <5> QED
          BY <5>1, <5>2
      <4> QED
        BY <2>4, <3>1, <4>2, <4>3
    <3> QED
      BY <2>9, <3>2, <3>3 DEF FindAlert
  <2>10. CASE InsertAlerts(c)
    <3>1. UNCHANGED <<alerts, refusals, alertLocks>> /\ calls[c].check = "insert"
      BY <2>10 DEF InsertAlerts
    <3>2. PICK rows \in SUBSET Admins :
              /\ IF rows = Admins THEN Works ELSE Fails
              /\ calls' = [calls EXCEPT ![c].check = "commit", ![c].rows = rows, ![c].aborted = rows # Admins]
      BY <2>10 DEF InsertAlerts
    <3>3. /\ calls'[c].check = "commit" /\ calls'[c].alert = calls[c].alert
          /\ calls'[c].day = calls[c].day /\ calls'[c].rows = rows
          /\ calls'[c].aborted = (rows # Admins)
      BY <1>1, <3>2 DEF TypeOK, Call
    <3>4. failures' = 0 => rows = Admins
      BY <2>1, <3>2 DEF Fails
    <3>5. Unwritten(c)
      BY <2>2, <3>1 DEF AlertInv
    <3>6. Unwritten(c)'
      BY <3>1, <3>3, <3>5 DEF Unwritten, Rows
    <3>7. AlertInv(c)'
      BY <3>3, <3>4, <3>6 DEF AlertInv
    <3>8. \A t \in Types, d \in Days : Announced(t, d) => Announced(t, d)'
      BY <3>1 DEF Announced, Rows
    <3> QED
      BY <2>4, <3>1, <3>7, <3>8
  <2>11. CASE CommitAlerts(c)
    <3>1. /\ UNCHANGED <<refusals, failures>> /\ calls[c].check = "commit" /\ calls[c].check \in Sending
          /\ EndAlert(c) /\ UNCHANGED budgetLock
      BY <2>11 DEF CommitAlerts, Sending
    <3>2. /\ OneAlertADay' /\ AlertReachesAll'
          /\ \A t \in Types, d \in Days : <<t, d>> # <<type, day>> => Rows(t, d)' = Rows(t, d)
          /\ failures = 0 => Rows(type, day)' = Admins
      BY <2>3, <2>11, CommitWritesAll
    <3>3. AlertInv(c)'
      <4>1. failures = 0 => Announced(type, day)'
        BY <2>8, <3>1, <3>2 DEF Announced, Days
      <4> QED
        BY <2>8, <3>1, <4>1 DEF AlertInv
    <3>4. \A t \in Types, d \in Days : failures' = 0 /\ Announced(t, d) => Announced(t, d)'
      <4> SUFFICES ASSUME NEW t \in Types, NEW d \in Days, failures = 0, Announced(t, d)
                   PROVE  Announced(t, d)'
        BY <3>1
      <4>1. \A e \in Days : Rows(t, e) = Admins => Rows(t, e)' = Admins
        BY <2>8, <3>2
      <4>2. CASE <<t, d>> = <<type, day>>
        BY <2>8, <3>2, <4>2 DEF Announced, Days
      <4>3. CASE <<t, d>> # <<type, day>>
        <5>1. alertLocks'[<<t, d>>] = alertLocks[<<t, d>>]
          BY <2>8, <3>1, <4>3
        <5>2. alertLocks[<<t, d>>] # Nobody => Announced(t, d)'
          BY <5>1 DEF Announced
        <5> QED
          BY <4>1, <5>2, AnnouncementStays
      <4> QED
        BY <4>2, <4>3
    <3>5. \A d \in Calls : d # c /\ calls[d].check \in {"insert", "commit"} /\ Unwritten(d) => Unwritten(d)'
      <4> SUFFICES ASSUME NEW d \in Calls, d # c, calls[d].check \in {"insert", "commit"}, Unwritten(d)
                   PROVE  Unwritten(d)'
        OBVIOUS
      <4>1. AlertLock(d) # AlertLock(c)
        BY <1>1, <3>1, AlertLockReleased DEF Sending
      <4>2. PICK t, e : t = calls[d].alert /\ e = calls[d].day
        OBVIOUS
      <4>3. t \in Types /\ e \in Days /\ <<t, e>> # <<type, day>>
        BY <1>1, <2>3, <4>1, <4>2 DEF Phase, PhaseOf, Sending, TypeOK, Call, AlertLock
      <4>4. Rows(t, e)' = Rows(t, e)
        BY <3>2, <4>3
      <4> QED
        BY <2>1, <4>2, <4>4 DEF Unwritten, Rows
    <3> QED
      BY <2>1, <3>1, <3>2, <3>3, <3>4, <3>5, AlertFrame
  <2> QED
    BY <1>2, <2>5, <2>6, <2>7, <2>9, <2>10, <2>11 DEF Move, Check, Outside
<1>3. CASE DayPasses \/ UNCHANGED vars
  <2>1. UNCHANGED <<alertLocks, alerts, calls, refusals, failures>>
    BY <1>3 DEF DayPasses, vars
  <2> QED
    BY <2>1 DEF IndInv, AlertsAreWhole, OneAlertADay, AlertReachesAll, RefusalIsAnnounced, AlertInv,
       Announced, Unwritten, Rows
<1> QED
  BY <1>2, <1>3 DEF Next, Move

\* Whatever turns and jobs do side by side, the state stays the one that IndInv describes.
THEOREM Invariance == Spec => []IndInv
<1>1. IndInv /\ [Next]_vars => IndInv'
  BY TypeStep, LocksStep, AlertsStep DEF IndInv
<1> QED
  BY <1>1, InitInv, PTL DEF Spec

\* The variables have their types.
THEOREM TypeCorrect == Spec => []TypeOK
BY Invariance, PTL DEF IndInv

\* A lock is held by a check that is on its way to release it: the limits and
\* alerts of app/chat/rate_limiter.py never block behind a check that is over.
THEOREM LocksReturned == Spec => []LocksAreGivenBack
<1>1. IndInv => LocksAreGivenBack
  BY DEF IndInv, LocksAgree
<1> QED
  BY <1>1, Invariance, PTL

\* _fan_out_cost_alert tells every administrator or none, once a day, and nobody
\* is refused in silence while the database works: they are told by then, on the
\* refusal's day or, over midnight, on the next.
THEOREM AlertsWhole == Spec => []AlertsAreWhole
BY Invariance, PTL DEF IndInv

-----------------------------------------------------------------------------
(* What is under way *)

LEMMA DueType ==
    ASSUME NEW call \in Call
    PROVE  Due(call) \in 0 .. MaxCalls
BY Constants DEF Due, Call

\* A record that differs in nothing that counts.
LEMMA SameDue ==
    ASSUME NEW old, NEW new, new.turn = old.turn, new.free = old.free, new.left = old.left,
           new.alert = old.alert,
           new.check \in {"none", "lock"} <=> old.check \in {"none", "lock"}
    PROVE  Due(new) = Due(old)
BY DEF Due

\* No step but the end of a turn's start makes it a counted one, and no step lets
\* a call pass that was not to pass, unless the sum of the usage is below the budget.
LEMMA MoveIsDue ==
    ASSUME TypeOK, NEW c \in Calls, Phase(c), Move(c)
    PROVE  /\ ~StartTurn(c) => calls'[c].turn # "counted"
           /\ ~Talk(c) => /\ usage' = usage
                          /\ Due(calls'[c]) <= Due(calls[c]) \/ Sum(usage) < Budget
<1> DEFINE old == calls[c]
           new == calls'[c]
<1>1. old \in Call /\ PhaseOf(c, old) /\ Due(old) \in Nat /\ MaxCalls \in Nat
  BY Constants, DueType DEF TypeOK, Phase
<1>2. Sum(usage) \in Nat /\ Budget \in Nat
  BY Constants, AmountsType DEF TypeOK
<1>3. ASSUME NEW call \in Call, NEW p, p = Passed(call, TRUE)
      PROVE  (p.turn # "counted" \/ call.turn = "counted") /\ Due(p) <= Due(call)
  <2>1. Due(call) \in Nat
    BY Constants, DueType
  <2>2. CASE call.turn = "checking"
    <3>1. Passed(call, TRUE).turn = "talking" /\ Passed(call, TRUE).free
      BY <2>2, PassedType
    <3>2. p.turn = "talking" /\ p.free
      BY <1>3, <3>1
    <3>3. Due(p) = 0
      BY <3>2 DEF Due
    <3> QED
      BY <2>1, <3>2, <3>3
  <2>3. CASE call.turn # "checking"
    <3>1. p.turn = call.turn /\ p.free = call.free /\ p.left = call.left
      BY <1>3, <2>3 DEF Passed, Checked, Call
    <3>2. Due(p) = Due(call)
      BY <2>3, <3>1 DEF Due
    <3> QED
      BY <2>1, <3>1, <3>2
  <2> QED
    BY <2>2, <2>3
<1>4. CASE StartTurn(c)
  <2>1. new.turn = "counted" /\ usage' = usage
    BY <1>4 DEF StartTurn, TypeOK, NoCall
  <2>2. Due(new) = 0
    BY <2>1 DEF Due
  <2> QED
    BY <1>1, <1>4, <2>1, <2>2 DEF Talk, StartTurn
<1>5. CASE SaveMessage(c)
  <2>1. new.turn = "checking" /\ new.check = "lock" /\ usage' = usage
    BY <1>5 DEF SaveMessage, TypeOK, NoCall
  <2>2. Due(new) = 0
    BY <2>1 DEF Due
  <2> QED
    BY <1>1, <2>1, <2>2
<1>6. CASE StopWaiting(c)
  <2>1. new = LetTalk(old, TRUE) /\ usage' = usage
    BY <1>6 DEF StopWaiting, TypeOK
  <2>2. LetTalk(old, TRUE).turn = "talking" /\ LetTalk(old, TRUE).free
    BY <1>1 DEF LetTalk, Call
  <2>3. new.turn = "talking" /\ new.free
    BY <2>1, <2>2
  <2>4. Due(new) = 0
    BY <2>3 DEF Due
  <2>5. usage' = usage
    BY <2>1
  <2> QED
    BY <1>1, <2>3, <2>4, <2>5
<1>7. ASSUME NEW call \in Call, call.turn # "counted", new = Summed(call, Sum(usage)),
             call.turn # "checking" => Due(call) <= Due(old)
      PROVE  new.turn # "counted" /\ (Due(new) <= Due(old) \/ Sum(usage) < Budget)
  <2>1. new.turn = call.turn /\ new.free = call.free /\ new.left = call.left
    BY <1>2, <1>7, SummedType
  <2>2. CASE Sum(usage) >= Budget
    <3>1. new.alert = "cost_exhausted"
      BY <1>2, <1>7, <2>2, SummedType, BandType
    <3>2. CASE call.turn = "checking"
      <4>1. Due(new) = 0
        BY <2>1, <3>1, <3>2 DEF Due
      <4> QED
        BY <1>1, <1>7, <2>1, <4>1
    <3>3. CASE call.turn # "checking"
      <4>1. Due(new) = Due(call)
        BY <2>1, <3>3 DEF Due
      <4> QED
        BY <1>7, <2>1, <3>3, <4>1
    <3> QED
      BY <3>2, <3>3
  <2> QED
    BY <1>2, <1>7, <2>1, <2>2
<1>8. CASE StartJob(c)
  <2> DEFINE job == [NoCall EXCEPT !.turn = "checking"]
  <2>1. job \in Call /\ job.turn = "checking" /\ job.check = "none"
    BY NoCallType DEF Call, NoCall
  <2>2. (new = Summed(job, Sum(usage)) \/ new = Passed(job, TRUE)) /\ usage' = usage
    BY <1>8 DEF StartJob, TypeOK, Unchecked
  <2> HIDE DEF job
  <2>3. Due(job) = 0 /\ Due(job) <= Due(old)
    <3>1. Due(job) = 0
      BY <2>1 DEF Due
    <3> QED
      BY <1>1, <3>1
  <2>4. CASE new = Summed(job, Sum(usage))
    BY <1>7, <2>1, <2>2, <2>4
  <2>5. CASE new = Passed(job, TRUE)
    <3>1. new.turn # "counted" /\ Due(new) <= Due(job)
      BY <1>3, <2>1, <2>5
    <3>2. Due(new) \in Nat
      <4>1. new \in Call
        BY MoveType DEF TypeOK
      <4> QED
        BY <4>1, DueType, Constants
    <3>3. Due(new) <= Due(old)
      BY <1>1, <2>3, <3>1, <3>2
    <3> QED
      BY <2>2, <3>1, <3>3
  <2> QED
    BY <2>2, <2>4, <2>5
<1>9. CASE SumLocked(c)
  <2>1. new = Summed(old, Sum(usage)) /\ usage' = usage /\ old.check = "lock" /\ old.turn # "counted"
    BY <1>1, <1>9 DEF SumLocked, TypeOK, PhaseOf
  <2> QED
    BY <1>1, <1>7, <2>1
<1>10. CASE SumFails(c)
  <2>1. new = Passed(old, TRUE) /\ usage' = usage /\ old.check = "lock" /\ old.turn # "counted"
    BY <1>1, <1>10 DEF SumFails, TypeOK, PhaseOf, Unchecked
  <2> QED
    BY <1>1, <1>3, <2>1
<1>11. CASE Decide(c)
  <2>1. new = Decided(old) /\ usage' = usage /\ old.check = "decide" /\ old.turn # "counted"
    BY <1>1, <1>11 DEF Decide, TypeOK, PhaseOf, Decided
  <2>2. CASE Refused(old)
    <3>1. new.turn = "none"
      BY <2>1, <2>2 DEF Decided, NoCall
    <3>2. Due(new) = 0
      BY <3>1 DEF Due
    <3> QED
      BY <1>1, <2>1, <3>1, <3>2
  <2>3. CASE ~Refused(old) /\ old.turn = "checking"
    <3>1. new = Passed(old, FALSE)
      BY <2>1, <2>3 DEF Decided
    <3>2. Due(old) = MaxCalls
      BY <2>1, <2>3 DEF Due, Refused
    <3> HIDE DEF old
    <3>3. Passed(old, FALSE).turn = "talking" /\ Passed(old, FALSE).left = MaxCalls
      BY <1>1, <2>3, PassedType
    <3>4. new.turn = "talking" /\ new.left = MaxCalls
      BY <3>1, <3>3
    <3>5. Due(new) <= MaxCalls
      BY <1>1, <3>4 DEF Due
    <3> QED
      BY <2>1, <3>2, <3>4, <3>5 DEF old
  <2>4. CASE ~Refused(old) /\ old.turn # "checking"
    <3>1. new = Passed(old, FALSE)
      BY <2>1, <2>4 DEF Decided
    <3>2. new.turn = old.turn /\ new.free = old.free /\ new.left = old.left
      BY <1>1, <2>4, <3>1 DEF Passed, Checked, Call
    <3>3. Due(new) = Due(old)
      BY <2>4, <3>2 DEF Due
    <3> QED
      BY <1>1, <2>1, <3>2, <3>3
  <2> QED
    BY <2>2, <2>3, <2>4
<1>12. CASE OpenAlert(c) \/ TakeAlertLock(c) \/ FindAlert(c) \/ InsertAlerts(c) \/ CommitAlerts(c)
  <2> DEFINE Goes == /\ old.check \in {"alert", "open", "dedupe", "insert", "commit"} /\ usage' = usage
                     /\ new.turn = old.turn /\ new.free = old.free
                     /\ new.left = old.left /\ new.alert = old.alert
                     /\ new.check \in {"open", "dedupe", "insert", "commit", "decide"}
  <2>4. OpenAlert(c) => Goes
    BY DEF TypeOK, Call, OpenAlert
  <2>5. TakeAlertLock(c) => Goes
    BY DEF TypeOK, Call, TakeAlertLock
  <2>6. FindAlert(c) => Goes
    BY DEF TypeOK, Call, FindAlert, EndAlert
  <2>7. InsertAlerts(c) => Goes
    BY DEF TypeOK, Call, InsertAlerts
  <2>8. CommitAlerts(c) => Goes
    BY DEF TypeOK, Call, CommitAlerts, EndAlert
  <2>1. Goes
    BY <1>12, <2>4, <2>5, <2>6, <2>7, <2>8
  <2>2. Due(new) = Due(old)
    BY <2>1, SameDue
  <2>3. old.turn # "counted"
    BY <1>1, <2>1 DEF PhaseOf
  <2> QED
    BY <1>1, <2>1, <2>2, <2>3
<1>13. CASE Talk(c)
  <2>1. PICK left \in {0, old.left - 1} :
            calls' = [calls EXCEPT ![c].left = left, ![c].turn = IF left = 0 THEN "none" ELSE @,
                                   ![c].free = @ /\ left > 0]
    BY <1>13 DEF Talk
  <2>2. new.turn \in {"none", "talking"}
    BY <1>13, <2>1 DEF TypeOK, Call, Talk
  <2> QED
    BY <1>13, <2>2
<1> QED
  BY <1>4, <1>5, <1>6, <1>8, <1>9, <1>10, <1>11, <1>12, <1>13 DEF Move, Check

-----------------------------------------------------------------------------
(* The overshoot *)

LEMMA CountedIsFinite ==
    /\ IsFiniteSet(Turns) /\ IsFiniteSet(Counted) /\ IsFiniteSet(Counted')
    /\ Cardinality(Turns) \in Nat /\ Cardinality(Counted) \in Nat /\ Cardinality(Counted') \in Nat
    /\ Cardinality(Counted) <= Cardinality(Turns) /\ Cardinality(Counted') <= Cardinality(Turns)
<1>1. IsFiniteSet(Turns)
  BY AmountsAssumption, FS_Subset DEF Calls
<1>2. Counted \subseteq Turns /\ Counted' \subseteq Turns
  BY DEF Counted
<1>3. /\ IsFiniteSet(Counted) /\ Cardinality(Counted) <= Cardinality(Turns)
      /\ IsFiniteSet(Counted') /\ Cardinality(Counted') <= Cardinality(Turns)
  BY <1>1, <1>2, FS_Subset
<1> QED
  BY <1>1, <1>3, FS_CardinalityType

LEMMA RateStep ==
    ASSUME IndInv, RateInv, [Next]_vars
    PROVE  RateInv'
<1>1. /\ TypeOK /\ TypeOK' /\ \A c \in Calls : Phase(c)
      /\ messages.passed \in Nat /\ messages'.passed \in Nat /\ MaxMessages \in Nat
  BY TypeStep, Constants DEF IndInv, TypeOK, Amounts
<1>2. ASSUME Counted' \subseteq Counted, messages'.passed <= messages.passed
      PROVE  RateInv'
  <2>1. Cardinality(Counted') <= Cardinality(Counted)
    BY <1>2, CountedIsFinite, FS_Subset
  <2> QED
    BY <1>1, <1>2, <2>1, CountedIsFinite DEF RateInv
<1>3. ASSUME NEW c \in Calls, Move(c)
      PROVE  RateInv'
  <2>1. /\ \A d \in Calls : d # c => calls'[d] = calls[d]
        /\ ~StartTurn(c) => calls'[c].turn # "counted"
    BY <1>1, <1>3, MoveType, MoveIsDue
  <2>2. CASE StartTurn(c)
    <3>1. messages' = messages /\ calls[c].turn = "none"
      BY <2>2 DEF StartTurn
    <3>2. CASE MaySend(Sum(messages))
      <4>1. messages.passed < MaxMessages
        BY <1>1, <3>2, AmountsType DEF MaySend, TypeOK
      <4> QED
        BY <1>1, <3>1, <4>1, CountedIsFinite DEF RateInv
    <3>3. CASE calls' = [calls EXCEPT ![c] = [NoCall EXCEPT !.turn = "counted", !.free = TRUE]]
      <4>1. calls'[c].free
        BY <1>1, <3>3 DEF TypeOK, NoCall
      <4>2. Counted' \subseteq Counted
        BY <2>1, <4>1, Constants DEF Counted
      <4> QED
        BY <1>1, <1>2, <3>1, <4>2
    <3> QED
      BY <2>2, <3>2, <3>3 DEF StartTurn
  <2>3. CASE SaveMessage(c)
    <3>1. /\ messages' = Plus(messages, calls[c].free, 1) /\ calls[c].turn = "counted"
          /\ calls'[c].turn # "counted" /\ c \in Turns
      BY <1>1, <2>1, <2>3 DEF SaveMessage, StartTurn, Phase, PhaseOf
    <3>2. Counted' \subseteq Counted \ {c}
      BY <2>1, <3>1, Constants DEF Counted
    <3>3. CASE calls[c].free
      <4>1. messages'.passed = messages.passed
        BY <1>1, <3>1, <3>3 DEF Plus, TypeOK, Amounts
      <4> QED
        BY <1>1, <1>2, <3>2, <4>1
    <3>4. CASE ~calls[c].free
      <4>1. messages'.passed = messages.passed + 1
        BY <1>1, <3>1, <3>4 DEF Plus, TypeOK, Amounts
      <4>2. c \in Counted
        BY <3>1, <3>4 DEF Counted
      <4>3. /\ IsFiniteSet(Counted \ {c})
            /\ Cardinality(Counted \ {c}) = Cardinality(Counted) - 1
        BY <4>2, CountedIsFinite, FS_RemoveElement
      <4>4. Cardinality(Counted') <= Cardinality(Counted) - 1
        BY <3>2, <4>3, FS_Subset
      <4> QED
        BY <1>1, <4>1, <4>4, CountedIsFinite DEF RateInv
    <3> QED
      BY <3>3, <3>4
  <2>4. CASE ~StartTurn(c) /\ ~SaveMessage(c)
    <3>1. messages' = messages
      BY <1>3, <2>4 DEF Move, Check, StopWaiting, StartJob, SumLocked, SumFails, Decide, OpenAlert,
         TakeAlertLock, FindAlert, InsertAlerts, CommitAlerts, Talk
    <3>2. Counted' \subseteq Counted
      BY <2>1, <2>4, Constants DEF Counted
    <3> QED
      BY <1>1, <1>2, <3>1, <3>2
  <2> QED
    BY <2>2, <2>3, <2>4
<1>4. CASE DayPasses \/ UNCHANGED vars
  <2>1. calls' = calls /\ (messages' = messages \/ messages' = Nothing)
    BY <1>4 DEF DayPasses, vars
  <2>2. messages'.passed <= messages.passed /\ Counted' \subseteq Counted
    BY <1>1, <2>1 DEF Nothing, Counted
  <2> QED
    BY <1>2, <2>2
<1> QED
  BY <1>3, <1>4 DEF Next, Move

\* The arithmetic of one call less to come, which costs n where up to m was reserved.
LEMMA OneLess ==
    ASSUME NEW k \in Nat, NEW j \in Nat, NEW m \in Nat, NEW n \in Nat, NEW p \in Nat, NEW B \in Nat,
           k <= j - 1, n <= m, p + j * m < B
    PROVE  p + n + k * m < B
<1>1. PICK i \in Nat : j = k + 1 + i
  <2>1. j - 1 - k \in Nat /\ j = k + 1 + (j - 1 - k)
    OBVIOUS
  <2> QED
    BY <2>1
<1>2. j * m = k * m + m + i * m
  BY <1>1
<1>3. i * m \in Nat /\ k * m \in Nat
  OBVIOUS
<1> HIDE <1>1
<1> QED
  BY <1>2, <1>3

LEMMA FewerTimes ==
    ASSUME NEW k \in Nat, NEW j \in Nat, NEW m \in Nat, k <= j
    PROVE  k * m <= j * m /\ k * m \in Nat /\ j * m \in Nat
<1>1. PICK i \in Nat : j = k + i
  <2>1. j - k \in Nat /\ j = k + (j - k)
    OBVIOUS
  <2> QED
    BY <2>1
<1>2. j * m = k * m + i * m /\ i * m \in Nat /\ k * m \in Nat
  BY <1>1
<1> HIDE <1>1
<1> QED
  BY <1>2

LEMMA TokensAreFinite ==
    ASSUME TypeOK, TypeOK'
    PROVE  /\ IsFiniteSet(Tokens) /\ IsFiniteSet(Tokens')
           /\ Cardinality(Tokens) \in Nat /\ Cardinality(Tokens') \in Nat
           /\ Cardinality(Calls) \in Nat /\ Cardinality(Calls) * MaxCalls \in Nat
           /\ Cardinality(Tokens') <= Cardinality(Calls) * MaxCalls
<1> DEFINE All == Calls \X (1 .. MaxCalls)
<1>1. IsFiniteSet(Calls) /\ MaxCalls \in Nat /\ MaxCalls >= 1
  BY AmountsAssumption, Constants
<1>2. IsFiniteSet(1 .. MaxCalls) /\ Cardinality(1 .. MaxCalls) = MaxCalls
  <2>1. /\ IsFiniteSet(1 .. MaxCalls)
        /\ Cardinality(1 .. MaxCalls) = IF 1 > MaxCalls THEN 0 ELSE MaxCalls - 1 + 1
    BY <1>1, FS_Interval
  <2> QED
    BY <1>1, <2>1
<1>3. IsFiniteSet(All) /\ Cardinality(All) = Cardinality(Calls) * MaxCalls
  BY <1>1, <1>2, FS_Product
<1>4. Tokens \subseteq All /\ Tokens' \subseteq All
  BY DEF Tokens
<1> HIDE DEF All
<1>5. /\ IsFiniteSet(Tokens) /\ IsFiniteSet(Tokens')
      /\ Cardinality(Tokens') <= Cardinality(All)
  BY <1>3, <1>4, FS_Subset
<1>6. Cardinality(Calls) \in Nat /\ Cardinality(Tokens) \in Nat /\ Cardinality(Tokens') \in Nat
  BY <1>1, <1>5, FS_CardinalityType
<1>7. Cardinality(Calls) * MaxCalls \in Nat
  BY <1>1, <1>6
<1> QED
  BY <1>3, <1>5, <1>6, <1>7

LEMMA CostStep ==
    ASSUME IndInv, CostInv, [Next]_vars
    PROVE  CostInv'
<1>1. /\ TypeOK /\ TypeOK' /\ \A c \in Calls : Phase(c)
      /\ usage.passed \in Nat /\ usage'.passed \in Nat /\ Budget \in Nat /\ Costs \subseteq Nat
      /\ MaxCalls \in Nat
  BY TypeStep, Constants DEF IndInv, TypeOK, Amounts
<1> DEFINE held == Cardinality(Tokens)
           next == Cardinality(Tokens')
           full == Cardinality(Calls) * MaxCalls
<1>2. /\ IsFiniteSet(Tokens) /\ IsFiniteSet(Tokens') /\ held \in Nat /\ next \in Nat /\ full \in Nat
      /\ next <= full
  BY <1>1, TokensAreFinite
<1>3. ASSUME Tokens' \subseteq Tokens, usage'.passed <= usage.passed
      PROVE  CostInv'
  <2>1. next <= held
    BY <1>2, <1>3, FS_Subset
  <2> SUFFICES ASSUME NEW m \in Costs, \A n \in Costs : n <= m
               PROVE  usage'.passed + next * m < Budget + full * m
    BY DEF CostInv
  <2>2. usage.passed + held * m < Budget + full * m
    BY DEF CostInv
  <2>3. next * m <= held * m /\ next * m \in Nat /\ held * m \in Nat
    BY <1>1, <1>2, <2>1, FewerTimes
  <2>4. full * m \in Nat
    BY <1>1, <1>2, FewerTimes
  <2> HIDE DEF held, next, full
  <2> QED
    BY <1>1, <1>3, <2>2, <2>3, <2>4
<1>4. ASSUME Sum(usage) < Budget, usage' = usage
      PROVE  CostInv'
  <2>1. usage'.passed < Budget
    BY <1>1, <1>4, AmountsType DEF TypeOK
  <2> SUFFICES ASSUME NEW m \in Costs, \A n \in Costs : n <= m
               PROVE  usage'.passed + next * m < Budget + full * m
    BY DEF CostInv
  <2>2. next * m <= full * m /\ next * m \in Nat /\ full * m \in Nat
    BY <1>1, <1>2, FewerTimes
  <2> HIDE DEF next, full
  <2> QED
    BY <1>1, <2>1, <2>2
<1>5. ASSUME NEW c \in Calls, Move(c)
      PROVE  CostInv'
  <2>1. /\ \A d \in Calls : d # c => calls'[d] = calls[d]
        /\ ~Talk(c) => usage' = usage /\ (Due(calls'[c]) <= Due(calls[c]) \/ Sum(usage) < Budget)
    BY <1>1, <1>5, MoveType, MoveIsDue
  <2>2. calls[c] \in Call /\ calls'[c] \in Call /\ PhaseOf(c, calls[c])
    BY <1>1 DEF TypeOK, Phase
  <2>3. Due(calls[c]) \in Nat /\ Due(calls'[c]) \in Nat
    BY <1>1, <2>2, DueType
  <2>4. ASSUME Due(calls'[c]) <= Due(calls[c])
        PROVE  Tokens' \subseteq Tokens
    <3> SUFFICES ASSUME NEW d \in Calls, NEW i \in 1 .. MaxCalls, i <= Due(calls'[d])
                 PROVE  i <= Due(calls[d])
      BY DEF Tokens
    <3> QED
      BY <1>1, <2>1, <2>3, <2>4
  <2>5. CASE ~Talk(c)
    BY <1>1, <1>3, <1>4, <2>1, <2>4, <2>5
  <2>6. CASE Talk(c)
    <3>1. PICK left \in {0, calls[c].left - 1} :
              calls' = [calls EXCEPT ![c].left = left, ![c].turn = IF left = 0 THEN "none" ELSE @,
                                     ![c].free = @ /\ left > 0]
      BY <2>6 DEF Talk
    <3>2. calls[c].turn = "talking" /\ calls[c].left >= 1 /\ calls[c].left \in 1 .. MaxCalls
      BY <2>2, <2>6 DEF Talk, PhaseOf, Call
    <3>3. /\ calls'[c].left = left /\ calls'[c].turn = IF left = 0 THEN "none" ELSE "talking"
          /\ left \in Nat
      BY <1>1, <3>1, <3>2 DEF TypeOK, Call
    <3>4. calls[c].free /\ left > 0 => calls'[c].free
      BY <1>1, <3>1 DEF TypeOK, Call
    <3>5. Due(calls'[c]) <= left
      BY <3>3 DEF Due
    <3>6. CASE calls[c].free
      <4>1. Due(calls'[c]) = 0
        BY <3>3, <3>4, <3>6 DEF Due
      <4>2. usage'.passed = usage.passed
        <5>1. usage' = usage \/ \E n \in Costs : usage' = [usage EXCEPT !.unchecked = @ + n]
          BY <2>6, <3>6 DEF Talk, Plus
        <5> QED
          BY <1>1, <5>1 DEF TypeOK, Amounts
      <4>3. Tokens' \subseteq Tokens
        BY <2>3, <2>4, <4>1
      <4> QED
        BY <1>1, <1>3, <4>2, <4>3
    <3>7. CASE ~calls[c].free
      <4>1. Due(calls[c]) = calls[c].left
        BY <3>2, <3>7 DEF Due
      <4>2. Due(calls'[c]) <= calls[c].left - 1
        BY <2>3, <3>1, <3>2, <3>3, <3>5
      <4> DEFINE t == <<c, calls[c].left>>
      <4>3. t \in Tokens
        BY <3>2, <4>1 DEF Tokens
      <4>4. Tokens' \subseteq Tokens
        BY <2>3, <2>4, <3>2, <4>1, <4>2
      <4>5. t \notin Tokens'
        BY <2>3, <3>2, <4>2 DEF Tokens
      <4>6. next <= held - 1
        <5>1. IsFiniteSet(Tokens \ {t}) /\ Cardinality(Tokens \ {t}) = held - 1
          BY <1>2, <4>3, FS_RemoveElement
        <5>2. Tokens' \subseteq Tokens \ {t}
          BY <4>4, <4>5
        <5> QED
          BY <5>1, <5>2, FS_Subset
      <4>7. CASE usage' = usage
        BY <1>1, <1>3, <4>4, <4>7
      <4>8. ASSUME NEW n \in Costs, usage' = Plus(usage, calls[c].free, n)
            PROVE  CostInv'
        <5>1. usage'.passed = usage.passed + n
          BY <1>1, <3>7, <4>8 DEF Plus, TypeOK, Amounts
        <5> SUFFICES ASSUME NEW m \in Costs, \A k \in Costs : k <= m
                     PROVE  usage'.passed + next * m < Budget + full * m
          BY DEF CostInv
        <5>2. usage.passed + held * m < Budget + full * m /\ n <= m
          BY DEF CostInv
        <5>3. full * m \in Nat /\ m \in Nat /\ n \in Nat
          BY <1>1, <1>2, FewerTimes
        <5>4. Budget + full * m \in Nat
          BY <1>1, <5>3
        <5> HIDE DEF held, next, full
        <5>5. usage.passed + n + next * m < Budget + full * m
          BY <1>1, <1>2, <4>6, <5>2, <5>3, <5>4, OneLess
        <5> QED
          BY <5>1, <5>5
      <4> QED
        BY <2>6, <4>7, <4>8 DEF Talk
    <3> QED
      BY <3>6, <3>7
  <2> QED
    BY <2>5, <2>6
<1>6. CASE DayPasses \/ UNCHANGED vars
  <2>1. calls' = calls /\ (usage' = usage \/ usage' = Nothing)
    BY <1>6 DEF DayPasses, vars
  <2>2. usage'.passed <= usage.passed /\ Tokens' \subseteq Tokens
    BY <1>1, <2>1 DEF Nothing, Tokens
  <2> QED
    BY <1>3, <2>2
<1> QED
  BY <1>5, <1>6 DEF Next, Move

\* Turns side by side, and calls that have passed the check, exceed the limits of
\* check_message_rate and check_org_cost_budget by what they have under way.
THEOREM OvershootsBounded == Spec => []OvershootsAreBounded
<1>1. ASSUME Init
      PROVE  RateInv /\ CostInv
  <2>1. \A c \in Calls : calls[c] = NoCall
    BY <1>1 DEF Init
  <2>2. messages.passed = 0 /\ usage.passed = 0
    BY <1>1 DEF Init, Nothing
  <2>3. RateInv
    <3>1. MaxMessages \in Nat /\ MaxMessages > 0
      BY Constants
    <3>2. Counted = {}
      BY <2>1, Constants DEF Counted, NoCall
    <3> QED
      BY <2>2, <3>1, <3>2, CountedIsFinite, FS_EmptySet DEF RateInv
  <2>4. CostInv
    <3>1. Tokens = {}
      BY <2>1, Constants DEF Tokens, Due, NoCall
    <3>2. Cardinality(Tokens) = 0
      BY <3>1, FS_EmptySet
    <3>3. /\ Budget \in Nat /\ Budget > 0 /\ Costs \subseteq Nat
          /\ Cardinality(Calls) * MaxCalls \in Nat
      <4>1. Cardinality(Calls) \in Nat /\ MaxCalls \in Nat
        BY AmountsAssumption, Constants, FS_CardinalityType
      <4> QED
        BY <4>1, Constants
    <3> SUFFICES ASSUME NEW m \in Costs
                 PROVE  usage.passed + Cardinality(Tokens) * m < Budget + Cardinality(Calls) * MaxCalls * m
      BY DEF CostInv
    <3>4. 0 * m = 0 /\ (Cardinality(Calls) * MaxCalls) * m \in Nat
      BY <3>3, FewerTimes
    <3> QED
      BY <2>2, <3>2, <3>3, <3>4
  <2> QED
    BY <2>3, <2>4
<1>2. IndInv /\ RateInv /\ CostInv /\ [Next]_vars => (RateInv /\ CostInv)'
  BY RateStep, CostStep
<1>3. ASSUME IndInv, RateInv, CostInv
      PROVE  OvershootsAreBounded
  <2>1. RateOvershootIsBounded
    BY <1>3, Constants, CountedIsFinite DEF RateInv, RateOvershootIsBounded, IndInv, TypeOK, Amounts
  <2>2. OvershootIsBounded
    <3> SUFFICES ASSUME NEW m \in Costs, \A n \in Costs : n <= m
                 PROVE  usage.passed < Budget + Cardinality(Calls) * MaxCalls * m
      BY DEF OvershootIsBounded
    <3>1. usage.passed + Cardinality(Tokens) * m < Budget + Cardinality(Calls) * MaxCalls * m
      BY <1>3 DEF CostInv
    <3>2. Cardinality(Tokens) \in Nat /\ Cardinality(Calls) * MaxCalls \in Nat
      <4>1. /\ IsFiniteSet(Calls \X (1 .. MaxCalls)) /\ Cardinality(Calls) \in Nat /\ MaxCalls \in Nat
        <5>1. IsFiniteSet(Calls) /\ Cardinality(Calls) \in Nat /\ MaxCalls \in Nat
          BY AmountsAssumption, Constants, FS_CardinalityType
        <5>2. IsFiniteSet(1 .. MaxCalls)
          BY <5>1, FS_Interval
        <5> QED
          BY <5>1, <5>2, FS_Product
      <4>2. Tokens \subseteq Calls \X (1 .. MaxCalls)
        BY DEF Tokens
      <4> QED
        BY <4>1, <4>2, FS_Subset, FS_CardinalityType
    <3>3. usage.passed \in Nat /\ Budget \in Nat /\ m \in Nat
      BY <1>3, Constants DEF IndInv, TypeOK, Amounts
    <3>4. Cardinality(Tokens) * m \in Nat /\ Cardinality(Calls) * MaxCalls * m \in Nat
      BY <3>2, <3>3, FewerTimes
    <3> QED
      BY <3>1, <3>3, <3>4
  <2> QED
    BY <2>1, <2>2 DEF OvershootsAreBounded
<1> QED
  BY <1>1, <1>2, <1>3, Invariance, PTL DEF Spec
=============================================================================
