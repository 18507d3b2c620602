----------------------------- MODULE CostBudget -----------------------------
(***************************************************************************)
(* The limits of app/chat/rate_limiter.py and the alerts they send: one    *)
(* organisation, whose users make turns in the chat and steps in the       *)
(* drafting wizard.  A turn counts the user's recent messages, saves its   *)
(* message, has a thread check the organisation's budget, and then talks   *)
(* to the language model, which records the cost of every call.  The       *)
(* check sums these records, and tells the organisation's administrators   *)
(* when 80 % or all of the budget is used (app/notifications/wire.py).     *)
(*                                                                         *)
(* Both limits are read in one transaction and used up in later ones, and  *)
(* both let a turn pass when they cannot be read.                          *)
(***************************************************************************)
EXTENDS Naturals, FiniteSets

CONSTANTS
    Turns,          \* chat turns of one user that are in progress at once
    Drafters,       \* jobs of the drafting wizard that are in progress at once
    Admins,         \* active administrators of the organisation
    Nobody,
    MaxMessages,    \* CHAT_MAX_MESSAGES_PER_HOUR
    Budget,         \* ORG_MAX_MONTHLY_COST_USD
    Costs,          \* what one call of the language model may cost
    MaxCalls,       \* calls one turn makes
    MaxDays,        \* bound: days
    MaxUsage,       \* bound: no turn starts above this usage
    MaxFailures     \* bound: failures of the database

Calls == Turns \cup Drafters

ASSUME CallersAssumption == Turns \cap Drafters = {} /\ Nobody \notin Calls
ASSUME AmountsAssumption ==
    /\ {MaxMessages, Budget, MaxCalls, MaxDays} \subseteq Nat \ {0}
    /\ {MaxUsage, MaxFailures} \cup Costs \subseteq Nat
    /\ Costs # {} /\ IsFiniteSet(Costs) /\ IsFiniteSet(Calls)

VARIABLES
    messages,    \* the user's messages of the last hour
    usage,       \* the cost recorded in llm_usage this month
    budgetLock,  \* who holds the advisory lock cost_budget:<org>
    alertLocks,  \* who holds cost_alert:<org>:<type>:<day>
    alerts,      \* how many rows of notifications there are of a type, day and administrator
    calls,       \* the turns and jobs in progress, with the thread that checks the budget
    today,
    refusals,    \* history: the days on which somebody was refused
    failures     \* how often the database has failed

vars == <<messages, usage, budgetLock, alertLocks, alerts, calls, today, refusals, failures>>

-----------------------------------------------------------------------------
\* Rows and records

Days  == 1..MaxDays
Types == {"cost_alert", "cost_exhausted"}

\* Messages and costs of those that passed the check, and of those let through without one
Amounts == [passed : Nat, unchecked : Nat]
Nothing == [passed |-> 0, unchecked |-> 0]
Sum(a) == a.passed + a.unchecked
Plus(a, free, n) == IF free THEN [a EXCEPT !.unchecked = @ + n] ELSE [a EXCEPT !.passed = @ + n]

\* turn:   where the turn or job is;  free: it was let through without a check
\* check:  where its budget check is, which may go on when the turn no longer waits for it
\* alert:  the band of the total that was read;  day: of the alert's transaction
\* rows:   notifications inserted and not committed
Call == [turn : {"none", "counted", "checking", "talking"}, free : BOOLEAN, left : 0..MaxCalls,
         check : {"none", "lock", "alert", "open", "dedupe", "insert", "commit", "decide"},
         alert : Types \cup {"none"}, day : Days, rows : SUBSET Admins, aborted : BOOLEAN]
NoCall == [turn |-> "none", free |-> FALSE, left |-> 0, check |-> "none",
           alert |-> "none", day |-> 1, rows |-> {}, aborted |-> FALSE]

Init ==
    /\ messages = Nothing
    /\ usage = Nothing
    /\ budgetLock = Nobody
    /\ alertLocks = [l \in Types \X Days |-> Nobody]
    /\ alerts = [n \in Types \X Days \X Admins |-> 0]
    /\ calls = [c \in Calls |-> NoCall]
    /\ today = 1
    /\ refusals = {}
    /\ failures = 0

Fails == failures < MaxFailures /\ failures' = failures + 1
Works == UNCHANGED failures

\* Mutant: one call more than there are rounds.
LetTalkOnceMore(call, free) == [call EXCEPT !.turn = "talking", !.free = free, !.left = MaxCalls + 1]

LetTalk(call, free) == [call EXCEPT !.turn = "talking", !.free = free, !.left = MaxCalls]
Checked(call) == [call EXCEPT !.check = "none", !.alert = "none", !.day = 1]

-----------------------------------------------------------------------------
\* A turn of the chat

\* check_message_rate
MaySend(n) == n < MaxMessages

StartTurn(c) ==
    /\ c \in Turns /\ calls[c].turn = "none" /\ calls[c].check = "none" /\ Sum(usage) <= MaxUsage
    /\ \/ MaySend(Sum(messages)) /\ Works
          /\ calls' = [calls EXCEPT ![c] = [NoCall EXCEPT !.turn = "counted"]]
       \/ Fails
          /\ calls' = [calls EXCEPT ![c] = [NoCall EXCEPT !.turn = "counted", !.free = TRUE]]
    /\ UNCHANGED <<messages, usage, budgetLock, alertLocks, alerts, today, refusals>>

\* The message is saved, and a thread starts to check the budget.
SaveMessage(c) ==
    /\ calls[c].turn = "counted"
    /\ messages' = Plus(messages, calls[c].free, 1)
    /\ calls' = [calls EXCEPT ![c] = [NoCall EXCEPT !.turn = "checking", !.check = "lock"]]
    /\ UNCHANGED <<usage, budgetLock, alertLocks, alerts, today, refusals, failures>>

\* The check is stuck: the turn has waited long enough, and goes on without it.
StopWaiting(c) ==
    /\ c \in Turns /\ calls[c].turn = "checking"
    /\ Fails
    /\ calls' = [calls EXCEPT ![c] = LetTalk(@, TRUE)]
    /\ UNCHANGED <<messages, usage, budgetLock, alertLocks, alerts, today, refusals>>

-----------------------------------------------------------------------------
\* The check of the budget

\* _COST_ALERT_FRACTION is four fifths.
Band(total) ==
    CASE total >= Budget                            -> "cost_exhausted"
      [] total < Budget /\ 5 * total >= 4 * Budget -> "cost_alert"
      [] OTHER                                      -> "none"

Summed(call, total) ==
    [call EXCEPT !.alert = Band(total), !.check = IF Band(total) = "none" THEN "decide" ELSE "alert"]

\* The check ends, and whoever still waits for it passes: without a verdict, or
\* because the budget is not used up.
Passed(call, free) ==
    IF call.turn = "checking" THEN LetTalk(Checked(call), free) ELSE Checked(call)
Unchecked(call) == Passed(call, TRUE)

Refused(call) == call.alert = "cost_exhausted" /\ call.turn = "checking"

\* pg_advisory_xact_lock and SELECT SUM(cost_usd)
SumLocked(c) ==
    /\ calls[c].check = "lock" /\ budgetLock = Nobody
    /\ budgetLock' = c
    /\ calls' = [calls EXCEPT ![c] = Summed(@, Sum(usage))]
    /\ UNCHANGED <<messages, usage, alertLocks, alerts, today, refusals, failures>>

\* lock_timeout has passed, or the database fails.
SumFails(c) ==
    /\ calls[c].check = "lock"
    /\ \/ budgetLock # Nobody /\ Works
       \/ Fails
    /\ calls' = [calls EXCEPT ![c] = Unchecked(@)]
    /\ UNCHANGED <<messages, usage, budgetLock, alertLocks, alerts, today, refusals>>

\* A job of the wizard sums without the lock.
StartJob(c) ==
    /\ c \in Drafters /\ calls[c].turn = "none" /\ Sum(usage) <= MaxUsage
    /\ LET job == [NoCall EXCEPT !.turn = "checking"] IN
       \/ Works /\ calls' = [calls EXCEPT ![c] = Summed(job, Sum(usage))]
       \/ Fails /\ calls' = [calls EXCEPT ![c] = Unchecked(job)]
    /\ UNCHANGED <<messages, usage, budgetLock, alertLocks, alerts, today, refusals>>

\* Mutant: the alert is all that a full budget brings about.
DecideToAlert(c) ==
    /\ calls[c].check = "decide"
    /\ budgetLock' = IF budgetLock = c THEN Nobody ELSE budgetLock
    /\ calls' = [calls EXCEPT ![c] = Passed(@, FALSE)]
    /\ UNCHANGED <<messages, usage, alertLocks, alerts, today, refusals, failures>>

\* Mutant: the turn that is refused keeps the lock.
DecideWithLock(c) ==
    /\ calls[c].check = "decide"
    /\ budgetLock' = IF budgetLock = c /\ ~Refused(calls[c]) THEN Nobody ELSE budgetLock
    /\ calls' = [calls EXCEPT ![c] = IF Refused(@) THEN NoCall ELSE Passed(@, FALSE)]
    /\ refusals' = refusals \cup {d \in {calls[c].day} : Refused(calls[c])}
    /\ UNCHANGED <<messages, usage, alertLocks, alerts, today, failures>>

\* The check returns or raises, and its transaction ends.
Decide(c) ==
    /\ calls[c].check = "decide"
    /\ budgetLock' = IF budgetLock = c THEN Nobody ELSE budgetLock
    /\ calls' = [calls EXCEPT ![c] = IF Refused(@) THEN NoCall ELSE Passed(@, FALSE)]
    /\ refusals' = refusals \cup {d \in {calls[c].day} : Refused(calls[c])}
    /\ UNCHANGED <<messages, usage, alertLocks, alerts, today, failures>>

-----------------------------------------------------------------------------
\* The alert: _fan_out_cost_alert

AlertLock(c) == <<calls[c].alert, calls[c].day>>
Rows(type, day) == {a \in Admins : alerts[<<type, day, a>>] > 0}

\* The query asks for rows since the day of its own transaction began, and so finds
\* those that another check has committed after the midnight that came in between.
Sent(c) == \E d \in Days : d >= calls[c].day /\ Rows(calls[c].alert, d) # {}

\* The transaction rolls back or commits, and the check goes on.
EndAlert(c) ==
    /\ alertLocks' = [alertLocks EXCEPT ![AlertLock(c)] = Nobody]
    /\ calls' = [calls EXCEPT ![c].check = "decide", ![c].rows = {}, ![c].aborted = FALSE]

\* A transaction of its own, whose now() says which day it is
OpenAlert(c) ==
    /\ calls[c].check = "alert"
    /\ calls' = [calls EXCEPT ![c].check = "open", ![c].day = today]
    /\ UNCHANGED <<messages, usage, budgetLock, alertLocks, alerts, today, refusals, failures>>

\* The lock of another check is waited for, and after lock_timeout the alert is
\* left to that check.
TakeAlertLock(c) ==
    /\ calls[c].check = "open"
    /\ \/ /\ alertLocks[AlertLock(c)] = Nobody /\ Works
          /\ alertLocks' = [alertLocks EXCEPT ![AlertLock(c)] = c]
          /\ calls' = [calls EXCEPT ![c].check = "dedupe"]
       \/ /\ \/ alertLocks[AlertLock(c)] # Nobody /\ Works
             \/ Fails
          /\ calls' = [calls EXCEPT ![c].check = "decide"]
          /\ UNCHANGED alertLocks
    /\ UNCHANGED <<messages, usage, budgetLock, alerts, today, refusals>>

\* A query that fails counts as "not sent", but it has aborted the transaction:
\* the next statement, the SELECT of the administrators, raises.
FindAlert(c) ==
    /\ calls[c].check = "dedupe"
    /\ \/ /\ ~Sent(c) /\ Works
          /\ calls' = [calls EXCEPT ![c].check = "insert"]
          /\ UNCHANGED alertLocks
       \/ /\ Sent(c) /\ Works
          /\ EndAlert(c)
       \/ Fails /\ EndAlert(c)
    /\ UNCHANGED <<messages, usage, budgetLock, alerts, today, refusals>>

\* One row for every administrator; after one that fails the others fail too.
InsertAlerts(c) ==
    /\ calls[c].check = "insert"
    /\ \E rows \in SUBSET Admins :
          /\ IF rows = Admins THEN Works ELSE Fails
          /\ calls' = [calls EXCEPT ![c].check = "commit", ![c].rows = rows, ![c].aborted = rows # Admins]
    /\ UNCHANGED <<messages, usage, budgetLock, alertLocks, alerts, today, refusals>>

Inserted(call) == {call.alert} \X {call.day} \X call.rows

\* Mutant: every row is committed for itself.
CommitEach(c) ==
    /\ calls[c].check = "commit"
    /\ alerts' = [n \in DOMAIN alerts |->
          IF n \in Inserted(calls[c]) THEN alerts[n] + 1 ELSE alerts[n]]
    /\ EndAlert(c)
    /\ UNCHANGED <<messages, usage, budgetLock, today, refusals, failures>>

\* COMMIT of a transaction that has failed is a rollback, and raises nothing.
CommitAlerts(c) ==
    /\ calls[c].check = "commit"
    /\ alerts' = [n \in DOMAIN alerts |->
          IF n \in Inserted(calls[c]) /\ ~calls[c].aborted THEN alerts[n] + 1 ELSE alerts[n]]
    /\ EndAlert(c)
    /\ UNCHANGED <<messages, usage, budgetLock, today, refusals, failures>>

-----------------------------------------------------------------------------
\* One call of the language model, and what else happens

\* The usage is recorded however the call ends; a turn that is stopped makes no
\* further call.
Talk(c) ==
    /\ calls[c].turn = "talking"
    /\ \/ Works /\ \E n \in Costs : usage' = Plus(usage, calls[c].free, n)
       \/ Fails /\ UNCHANGED usage
    /\ \E left \in {0, calls[c].left - 1} :
          calls' = [calls EXCEPT ![c].left = left, ![c].turn = IF left = 0 THEN "none" ELSE @,
                                 ![c].free = @ /\ left > 0]
    /\ UNCHANGED <<messages, budgetLock, alertLocks, alerts, today, refusals>>

\* Midnight, which may end the month, and come an hour after the last message
DayPasses ==
    /\ today < MaxDays
    /\ today' = today + 1
    /\ usage' \in {usage, Nothing}
    /\ messages' \in {messages, Nothing}
    /\ UNCHANGED <<budgetLock, alertLocks, alerts, calls, refusals, failures>>

Check(c) == \/ SumLocked(c) \/ SumFails(c) \/ Decide(c)
            \/ OpenAlert(c) \/ TakeAlertLock(c) \/ FindAlert(c) \/ InsertAlerts(c) \/ CommitAlerts(c)

Next == \/ \E c \in Calls : \/ StartTurn(c) \/ SaveMessage(c) \/ StopWaiting(c) \/ StartJob(c)
                            \/ Check(c) \/ Talk(c)
        \/ DayPasses

Spec == Init /\ [][Next]_vars

-----------------------------------------------------------------------------
\* What must hold

\* The variables have their types.
TypeOK ==
    /\ messages \in Amounts /\ usage \in Amounts
    /\ budgetLock \in Calls \cup {Nobody}
    /\ alertLocks \in [Types \X Days -> Calls \cup {Nobody}]
    /\ alerts \in [Types \X Days \X Admins -> Nat]
    /\ calls \in [Calls -> Call]
    /\ today \in Days /\ refusals \subseteq Days /\ failures \in 0..MaxFailures

\* check_message_rate counts before the message is saved: a user's tabs can pass
\* the limit, each by one message, and no further; whatever passed while the
\* database failed is on top of it.
RateOvershootIsBounded ==
    messages.passed < MaxMessages + Cardinality(Turns)

\* "collectively overshoot by roughly N turns' worth of spend" (check_org_cost_budget):
\* what turns and jobs that passed the check have spent exceeds the budget by at
\* most what those in progress at once can spend.
OvershootIsBounded ==
    \A m \in Costs : (\A n \in Costs : n <= m) =>
        usage.passed < Budget + Cardinality(Calls) * MaxCalls * m

\* Turns side by side overshoot both limits by what is under way, and no more.
OvershootsAreBounded == RateOvershootIsBounded /\ OvershootIsBounded

\* "one alert per org per calendar day per type" (_cost_alert_already_sent_today):
\* however many checks see the total in the same band, an administrator has one
\* row of each type and day.
OneAlertADay == \A n \in DOMAIN alerts : alerts[n] <= 1

\* The rows of an alert are inserted in one transaction: all administrators are
\* told, or none, and then a later check tells them.  An insert that fails does
\* not leave some of them out for the rest of the day.
AlertReachesAll == \A t \in Types, d \in Days : Rows(t, d) \in {{}, Admins}

\* All administrators have been told on that day or since, or are being told.
Announced(type, day) ==
    \/ \E d \in Days : d >= day /\ Rows(type, d) = Admins
    \/ alertLocks[<<type, day>>] # Nobody

\* When a turn has been refused and no statement has failed, the administrators
\* have been told that the budget is used up, or are being told: a check that
\* skipped the alert, since the lock was held or since it found rows, skipped it
\* rightly.  "On that day" would be too much: a check whose transaction is of the
\* day before may find rows of the new day, and then leaves the old one without any.
RefusalIsAnnounced == \A d \in refusals : failures = 0 => Announced("cost_exhausted", d)

\* The administrators hear of the budget: all of them, once a day, and before the
\* refusals are over.
AlertsAreWhole == OneAlertADay /\ AlertReachesAll /\ RefusalIsAnnounced

\* A lock belongs to a check that is on its way to give it back, on every path:
\* what waits for a lock waits for a step of its holder.
LocksAreGivenBack ==
    /\ budgetLock # Nobody => calls[budgetLock].check \notin {"none", "lock"}
    /\ \A l \in DOMAIN alertLocks : alertLocks[l] # Nobody =>
          /\ calls[alertLocks[l]].check \in {"dedupe", "insert", "commit"}
          /\ AlertLock(alertLocks[l]) = l

=============================================================================
