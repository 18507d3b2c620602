---------------------------- MODULE ChatTurn ----------------------------
(***************************************************************************)
(* One conversation of the legal assistant: the browser tabs that show it  *)
(* (app/static/js/chat.js), the socket frames they send, the turns the     *)
(* server runs for them (app/chat/websocket.py, app/chat/orchestrator.py)  *)
(* and the messages in the database.                                       *)
(*                                                                         *)
(* A turn is a task: handle_message runs through its phases and may be     *)
(* cancelled wherever it awaits.  Frames of one socket are handled side by *)
(* side, each by a task of its own, as tests/test_chat_websocket.py drives *)
(* the handler.  An event to a tab takes effect in the step that sends it, *)
(* or times out (_safe_send) and never does; frames to the server wait in  *)
(* a queue.                                                                *)
(***************************************************************************)
EXTENDS Naturals, Sequences, FiniteSets

CONSTANTS
    Tabs,           \* browser tabs open on the conversation
    MaxTurns,       \* bound: turns started
    MaxRounds,      \* MAX_TOOL_ROUNDS
    MaxRewinds,     \* bound: regenerate and edit requests
    MaxDrops,       \* bound: lost connections and page reloads
    Faults,         \* what may fail: database writes, and "send", an event to an open socket
    RewindsAnytime  \* whether a rewind may be requested while a turn runs

Writes == {"user", "placeholder", "tool", "reply"}
None   == 0
Gone   == "gone"    \* the tab of a turn whose socket is closed

ASSUME TabsAssumption   == Gone \notin Tabs
ASSUME BoundsAssumption ==
    /\ {MaxTurns, MaxRounds} \subseteq Nat \ {0}
    /\ {MaxRewinds, MaxDrops} \subseteq Nat
    /\ Faults \subseteq Writes \cup {"send"}
    /\ RewindsAnytime \in BOOLEAN

VARIABLES
    messages,   \* the rows of the conversation
    now,        \* gives the next row its id and created_at
    turns,
    tasks,      \* _per_conn_tasks: the task registered for the conversation
    ui,         \* what each tab waits for: "open" (nothing), "waiting", "stopping", or
                \* "lost": it waits, as it did, for an event that was not delivered
    frames,     \* frames each tab has sent
    rewinds, drops

vars == <<messages, now, turns, tasks, ui, frames, rewinds, drops>>

Turns == 1..MaxTurns
Texts == {"none", "partial", "full"}

\* at: created_at, by which rows are ordered; parent: the assistant row of a tool row
Row == [id: Nat, at: Nat, turn: Turns, role: {"user", "assistant", "tool"}, parent: Nat, text: Texts]

\* prompt: the user row answered; reply: the placeholder;
\* late: the user row a thread may still insert after the turn gave up
Phases == {"unused", "load", "persist", "prepare", "stream", "tools",
           "stopping", "after", "ended"}
Turn == [pc: Phases, tab: Tabs \cup {Gone}, prompt: Nat, reply: Nat,
         some: BOOLEAN, rounds: Nat,
         how: {"running", "done", "broken", "cancelled", "refused", "unsaved"}, late: BOOLEAN]

Frame == [type: {"send", "again", "stop"}, pivot: Nat]

Unused(tab) == [pc |-> "unused", tab |-> tab, prompt |-> None, reply |-> None,
                some |-> FALSE, rounds |-> 0,
                how |-> "running", late |-> FALSE]

Init ==
    /\ messages = {}
    /\ now = 1
    /\ turns = [t \in Turns |-> Unused(Gone)]
    /\ tasks = [b \in Tabs |-> None]
    /\ ui = [b \in Tabs |-> "open"]
    /\ frames = [b \in Tabs |-> <<>>]
    /\ rewinds = 0
    /\ drops = 0

-----------------------------------------------------------------------------
\* Rows

Ids   == {m.id : m \in messages}
Users == {m \in messages : m.role = "user"}
Last(rows) == CHOOSE m \in rows : \A n \in rows : n.at <= m.at

\* Deleting a row deletes the tool rows that name it as parent (migration 036).
Cascade(gone)  == gone \cup {m.id : m \in {n \in messages : n.parent \in gone}}
Without(gone)  == {m \in messages : m.id \notin Cascade(gone)}

Inserted(t, role, parent, text) ==
    messages \cup {[id |-> now, at |-> now, turn |-> t, role |-> role, parent |-> parent, text |-> text]}

\* UPDATE of the placeholder: created_at = NOW() moves it behind its tool rows.
\* An UPDATE of a row that was deleted meanwhile changes nothing.
Updated(id, text) ==
    {IF m.id = id THEN [m EXCEPT !.text = text, !.at = now] ELSE m : m \in messages}

\* _find_regenerate_pivot_index: the user row at or before the pivot, else the last one
PivotRow(id) ==
    LET before == {u \in Users : \E m \in messages : m.id = id /\ u.at <= m.at}
    IN Last(IF before = {} THEN Users ELSE before).id

-----------------------------------------------------------------------------
\* Turns

Live(t)       == turns[t].pc \notin {"unused", "ended"}
Generating(t) == Live(t) /\ turns[t].pc # "after"
Stoppable(t)  == Live(t) /\ turns[t].pc # "stopping"

\* Mutant: the key itself is removed, and with it the tab's registry.
Forgotten(t) ==
    IF turns[t].tab = Gone THEN tasks ELSE [b \in Tabs \ {turns[t].tab} |-> tasks[b]]

\* _run's finally: the conversation's entry is dropped, whoever it names
Unregistered(t) ==
    IF turns[t].tab = Gone THEN tasks ELSE [tasks EXCEPT ![turns[t].tab] = None]

\* An event that unlocks the input of the turn's tab (done, stopped, error).
Told(t) == IF turns[t].tab = Gone THEN ui ELSE [ui EXCEPT ![turns[t].tab] = "open"]

\* Such an event that does not reach the tab: the turn goes on without it, and the
\* tab, if it waits, waits on.
Lost(t) ==
    IF turns[t].tab # Gone /\ ui[turns[t].tab] = "waiting"
    THEN [ui EXCEPT ![turns[t].tab] = "lost"] ELSE ui

\* _safe_send of the turn's last event: a client that does not drain its socket
\* makes it time out after five seconds, and the exception is swallowed.
Tell(t) == ui' = Told(t) \/ ("send" \in Faults /\ ui' = Lost(t))

\* An event that is not the last times out, and the turn ends without another.
Unsendable(t) == turns[t].tab = Gone \/ "send" \in Faults

\* What is left of a turn: its local state goes with the task.
Over(t, how, late) ==
    [Unused(Gone) EXCEPT !.pc = "ended", !.how = how, !.late = late, !.prompt = turns[t].prompt]
Ended(t, how) == [turns EXCEPT ![t] = Over(t, how, FALSE)]

\* Mutant: a turn that is refused ends without an event.
SilentRefuse(t, late) ==
    /\ turns' = [turns EXCEPT ![t] = Over(t, "refused", late)]
    /\ tasks' = Unregistered(t)
    /\ UNCHANGED <<ui, messages, now>>

\* The turn ends with an error event.
Refuse(t, late) ==
    /\ turns' = [turns EXCEPT ![t] = Over(t, "refused", late)]
    /\ tasks' = Unregistered(t)
    /\ Tell(t)
    /\ UNCHANGED <<messages, now>>

\* task.cancel() at the await the turn is suspended in.  Only the streaming
\* phase handles it; a user row that a thread is inserting is still inserted.
Cancelled(ts) ==
    [t \in Turns |->
        IF t \notin ts \/ ~Stoppable(t) THEN turns[t]
        ELSE IF turns[t].pc \in {"stream", "tools"} THEN [turns[t] EXCEPT !.pc = "stopping"]
        ELSE IF turns[t].pc = "after" THEN Over(t, turns[t].how, FALSE)
        ELSE Over(t, "cancelled", turns[t].pc = "persist")]

\* Mutant: the partial text is always inserted (#315).
PartialInserted(t, suffix) ==
    IF turns[t].some \/ suffix THEN Inserted(t, "assistant", None, "partial") ELSE messages

\* _persist_partial_assistant
Partial(t, suffix) ==
    LET r == turns[t].reply IN
    IF turns[t].some \/ suffix
    THEN IF r = None THEN Inserted(t, "assistant", None, "partial") ELSE Updated(r, "partial")
    ELSE IF r = None THEN messages ELSE Without({r})

\* The turn ends; a save that fails is logged.
SavePartial(t, suffix, how) ==
    \/ /\ messages' = Partial(t, suffix)
       /\ now' = now + 1
       /\ turns' = Ended(t, how)
    \/ /\ "reply" \in Faults
       /\ turns[t].some \/ suffix \/ turns[t].reply # None
       /\ turns' = Ended(t, "unsaved")
       /\ UNCHANGED <<messages, now>>

-----------------------------------------------------------------------------
\* The browser

Fresh == {t \in Turns : turns[t].pc = "unused"}
Queued == {q \in Tabs \X (1..MaxTurns) :
              q[2] <= Len(frames[q[1]]) /\ frames[q[1]][q[2]].type # "stop"}
MayAsk == Cardinality(Queued) < Cardinality(Fresh)

\* sendMessage: only while no reply is streaming in this tab
Send(b) ==
    /\ ui[b] = "open"
    /\ MayAsk
    /\ frames' = [frames EXCEPT ![b] = Append(@, [type |-> "send", pivot |-> None])]
    /\ ui' = [ui EXCEPT ![b] = "waiting"]
    /\ UNCHANGED <<messages, now, turns, tasks, rewinds, drops>>

ClickStop(b) ==
    /\ ui[b] \in {"waiting", "lost"}
    /\ frames' = [frames EXCEPT ![b] = Append(@, [type |-> "stop", pivot |-> None])]
    /\ ui' = [ui EXCEPT ![b] = "stopping"]
    /\ UNCHANGED <<messages, now, turns, tasks, rewinds, drops>>

\* regenerate_handler and edit_message_handler: the rows behind the user turn
\* are deleted, whatever runs; then replayFromPivot asks for a new reply,
\* unless this tab is still streaming.  A reply without a user turn before it
\* is dropped and the page reloaded.
RewindTo(b, m) ==
    LET before == {u \in Users : u.at <= m.at}
        gone   == {n \in messages : IF before = {} THEN n.at >= m.at ELSE n.at > Last(before).at}
        pivot  == IF before = {} THEN None ELSE Last(before).id
    IN /\ messages' = Without({n.id : n \in gone})
       /\ IF pivot # None /\ ui[b] = "open" /\ MayAsk
          THEN /\ frames' = [frames EXCEPT ![b] = Append(@, [type |-> "again", pivot |-> pivot])]
               /\ ui' = [ui EXCEPT ![b] = "waiting"]
          ELSE UNCHANGED <<frames, ui>>

Quiet == \A t \in Turns : ~Live(t) /\ ~turns[t].late

Rewind(b) ==
    /\ rewinds < MaxRewinds
    /\ RewindsAnytime \/ Quiet
    /\ \E m \in messages : m.role # "tool" /\ RewindTo(b, m)
    /\ rewinds' = rewinds + 1
    /\ UNCHANGED <<now, turns, tasks, drops>>

\* The socket closes (network, reload): _on_disconnect cancels the registered
\* task; the tab connects again with its input unlocked.
Drop(b) ==
    /\ drops < MaxDrops
    /\ drops' = drops + 1
    /\ LET cut == Cancelled({tasks[b]}) IN
       turns' = [t \in Turns |-> IF cut[t].tab = b THEN [cut[t] EXCEPT !.tab = Gone] ELSE cut[t]]
    /\ tasks' = [tasks EXCEPT ![b] = None]
    /\ frames' = [frames EXCEPT ![b] = <<>>]
    /\ ui' = [ui EXCEPT ![b] = "open"]
    /\ UNCHANGED <<messages, now, rewinds>>

-----------------------------------------------------------------------------
\* The server

\* _drive_orchestrator: the task takes the conversation's place in the registry
StartTurn(b) ==
    /\ frames[b] # <<>>
    /\ Head(frames[b]).type # "stop"
    /\ \E t \in Fresh :
         /\ \A u \in Fresh : t <= u
         /\ turns' = [turns EXCEPT ![t] = [Unused(b) EXCEPT
                          !.pc = IF Head(frames[b]).type = "again" THEN "load" ELSE "persist",
                          !.prompt = Head(frames[b]).pivot]]
         /\ tasks' = [tasks EXCEPT ![b] = t]
    /\ frames' = [frames EXCEPT ![b] = Tail(@)]
    /\ UNCHANGED <<messages, now, ui, rewinds, drops>>

\* _handle_stop_generation: no task, or one that is done, is answered at once;
\* else the task is cancelled and is trusted to answer.
StopTurn(b) ==
    /\ frames[b] # <<>>
    /\ Head(frames[b]).type = "stop"
    /\ frames' = [frames EXCEPT ![b] = Tail(@)]
    /\ IF tasks[b] = None
       THEN ui' = [ui EXCEPT ![b] = "open"] /\ UNCHANGED <<turns, tasks>>
       ELSE LET cut == Cancelled({tasks[b]}) IN
            /\ turns' = cut
            /\ tasks' = IF cut[tasks[b]].pc = "ended" THEN [tasks EXCEPT ![b] = None] ELSE tasks
            /\ UNCHANGED ui
    /\ UNCHANGED <<messages, now, rewinds, drops>>

\* _phase_rate_limit and _phase_load_conversation may refuse any turn.  For a
\* regeneration _phase_load_history finds the user row to answer; a history that
\* cannot be read counts as empty.
Load(t) ==
    /\ turns[t].pc = "load"
    /\ \/ Refuse(t, FALSE)
       \/ /\ Users # {}
          /\ turns' = [turns EXCEPT ![t].pc = "prepare", ![t].prompt = PivotRow(turns[t].prompt)]
          /\ UNCHANGED <<messages, now, tasks, ui>>
    /\ UNCHANGED <<frames, rewinds, drops>>

\* _phase_persist_user_message, behind the same checks: on a timeout the thread
\* that inserts goes on
Persist(t) ==
    /\ turns[t].pc = "persist"
    /\ \/ /\ messages' = Inserted(t, "user", None, "full")
          /\ now' = now + 1
          /\ turns' = [turns EXCEPT ![t].pc = "prepare", ![t].prompt = now]
          /\ UNCHANGED <<tasks, ui>>
       \/ Refuse(t, FALSE)
       \/ "user" \in Faults /\ Refuse(t, TRUE)
    /\ UNCHANGED <<frames, rewinds, drops>>

\* The insert of a turn that was cancelled, or gave up waiting, may still commit.
LatePersist(t) ==
    /\ turns[t].late
    /\ turns' = [turns EXCEPT ![t].late = FALSE, ![t].prompt = now]
    /\ messages' = Inserted(t, "user", None, "full")
    /\ now' = now + 1
    /\ UNCHANGED <<tasks, ui, frames, rewinds, drops>>

\* _phase_check_budget, _phase_build_system_prompt, _phase_rag_retrieval: an
\* exhausted budget refuses the turn, and a progress event that cannot be sent ends
\* it; every other failure and timeout on the way is ignored
Prepare(t) ==
    /\ turns[t].pc = "prepare"
    /\ \/ Refuse(t, FALSE)
       \/ /\ turns' = [turns EXCEPT ![t].pc = "stream"]
          /\ UNCHANGED <<messages, now, tasks, ui>>
       \/ /\ Unsendable(t)
          /\ turns' = Ended(t, "broken")
          /\ tasks' = Unregistered(t)
          /\ ui' = Lost(t)
          /\ UNCHANGED <<messages, now>>
    /\ UNCHANGED <<frames, rewinds, drops>>

\* _run_stream_loop: a content event
Delta(t) ==
    /\ turns[t].pc = "stream"
    /\ ~turns[t].some
    /\ turns' = [turns EXCEPT ![t].some = TRUE]
    /\ UNCHANGED <<messages, now, tasks, ui, frames, rewinds, drops>>

\* _run_stream_loop: the model asks for tools; the assistant row is inserted
\* first, so that the tool rows can name it
CallTools(t) ==
    /\ turns[t].pc = "stream"
    /\ turns[t].rounds < MaxRounds
    /\ \/ /\ turns[t].reply = None
          /\ messages' = Inserted(t, "assistant", None, IF turns[t].some THEN "partial" ELSE "none")
          /\ now' = now + 1
          /\ turns' = [turns EXCEPT ![t].pc = "tools", ![t].reply = now]
       \/ /\ turns[t].reply # None \/ "placeholder" \in Faults
          /\ turns' = [turns EXCEPT ![t].pc = "tools"]
          /\ UNCHANGED <<messages, now>>
    /\ UNCHANGED <<tasks, ui, frames, rewinds, drops>>

\* A tool's result is stored; a parent that was deleted refuses it (foreign key).
RunTool(t) ==
    /\ turns[t].pc = "tools"
    /\ \/ /\ turns[t].reply \in Ids \cup {None}
          /\ messages' = Inserted(t, "tool", turns[t].reply, "full")
          /\ now' = now + 1
       \/ /\ turns[t].reply \notin Ids \cup {None} \/ "tool" \in Faults
          /\ UNCHANGED <<messages, now>>
    /\ turns' = [turns EXCEPT ![t].pc = "stream", ![t].rounds = @ + 1,
                              ![t].some = @ \/ turns[t].rounds + 1 >= MaxRounds]
    /\ UNCHANGED <<tasks, ui, frames, rewinds, drops>>

\* The reply is stored, or that fails and is logged.  No await lies between the
\* end of the stream and the stored reply.
SaveReply(t, how) ==
    LET r == turns[t].reply
        text == IF turns[t].some THEN "full" ELSE "none"
    IN \/ /\ how = "done"
          /\ messages' = IF r = None THEN Inserted(t, "assistant", None, text) ELSE Updated(r, text)
          /\ now' = now + 1
       \/ /\ how = "unsaved" /\ "reply" \in Faults
          /\ UNCHANGED <<messages, now>>

\* _phase_emit_terminal_events: the reply is stored and done is sent; the turn
\* goes on only if that was delivered.
Complete(t) ==
    /\ turns[t].pc = "stream"
    /\ \E how \in {"done", "unsaved"} :
         /\ SaveReply(t, how)
         /\ \/ /\ turns' = [turns EXCEPT ![t].pc = "after", ![t].how = how]
               /\ ui' = Told(t)
               /\ UNCHANGED tasks
            \/ /\ Unsendable(t)
               /\ turns' = Ended(t, how)
               /\ tasks' = Unregistered(t)
               /\ ui' = Lost(t)
    /\ UNCHANGED <<frames, rewinds, drops>>

\* sources and follow_ups: another model call, after the tab was told done
After(t) ==
    /\ turns[t].pc = "after"
    /\ turns' = Ended(t, turns[t].how)
    /\ tasks' = Unregistered(t)
    /\ UNCHANGED <<messages, now, ui, frames, rewinds, drops>>

\* Mutant: only a turn that has said something has a deadline.
BreakTalking(t) ==
    /\ turns[t].pc \in {"stream", "tools"}
    /\ turns[t].some
    /\ SavePartial(t, TRUE, "broken")
    /\ tasks' = Unregistered(t)
    /\ Tell(t)
    /\ UNCHANGED <<frames, rewinds, drops>>

\* The turn's deadline passes, or the stream fails: what there is is kept, with
\* a note, and an error event sent.
Break(t) ==
    /\ turns[t].pc \in {"stream", "tools"}
    /\ IF turns[t].some \/ turns[t].reply # None
       THEN SavePartial(t, TRUE, "broken")
       ELSE turns' = Ended(t, "broken") /\ UNCHANGED <<messages, now>>
    /\ tasks' = Unregistered(t)
    /\ Tell(t)
    /\ UNCHANGED <<frames, rewinds, drops>>

\* WebSocketSendTimeout on an event of the stream: what there is is kept, nothing
\* more is sent
SocketDies(t) ==
    /\ turns[t].pc \in {"stream", "tools"}
    /\ Unsendable(t)
    /\ SavePartial(t, FALSE, "broken")
    /\ tasks' = Unregistered(t)
    /\ ui' = Lost(t)
    /\ UNCHANGED <<frames, rewinds, drops>>

\* The CancelledError branch of the streaming phase
Stopped(t) ==
    /\ turns[t].pc = "stopping"
    /\ SavePartial(t, FALSE, "cancelled")
    /\ tasks' = Unregistered(t)
    /\ Tell(t)
    /\ UNCHANGED <<frames, rewinds, drops>>

-----------------------------------------------------------------------------

Step(t) ==
    \/ Load(t) \/ Persist(t) \/ Prepare(t)
    \/ Break(t) \/ Stopped(t) \/ After(t)

Next ==
    \/ \E b \in Tabs : \/ Send(b) \/ ClickStop(b) \/ Rewind(b) \/ Drop(b)
                       \/ StartTurn(b) \/ StopTurn(b)
    \/ \E t \in Turns : \/ Step(t) \/ LatePersist(t) \/ Delta(t) \/ CallTools(t) \/ RunTool(t)
                        \/ Complete(t) \/ SocketDies(t)

Spec == Init /\ [][Next]_vars

\* Every phase is bounded by a deadline: the database steps, the retrieval and
\* the whole streaming loop (_TURN_DEADLINE_SECONDS).  The model owes nothing.
LiveSpec == Spec /\ \A t \in Turns : WF_vars(Step(t))

-----------------------------------------------------------------------------
\* Properties

TypeOK ==
    /\ messages \subseteq Row
    /\ now \in Nat
    /\ turns \in [Turns -> Turn]
    /\ tasks \in [Tabs -> Turns \cup {None}]
    /\ ui \in [Tabs -> {"open", "waiting", "stopping", "lost"}]
    /\ frames \in [Tabs -> Seq(Frame)]
    /\ rewinds \in 0..MaxRewinds
    /\ drops \in 0..MaxDrops

Replies(t) == {m \in messages : m.turn = t /\ m.role = "assistant"}

\* However a turn ends - completed, stopped, timed out, cut off - and whatever
\* tools it ran before, it leaves one assistant row at most (issue #315).
OneReplyPerTurn == \A t \in Turns : Cardinality(Replies(t)) <= 1

\* A complete reply stands behind the results of its own tools, the order the
\* history is replayed to the model in (_update_assistant_payload).
ToolsBeforeReply ==
    \A t \in Turns : \A m \in Replies(t) :
        m.text = "full" => \A n \in messages : n.turn = t /\ n.role = "tool" => n.at < m.at

\* A turn that was interrupted leaves no empty assistant bubble behind
\* (_persist_partial_assistant deletes the placeholder).
NoBlankReply ==
    \A t \in Turns : turns[t].how \in {"broken", "cancelled"} =>
        \A m \in Replies(t) : m.text # "none"

\* A reply in the thread answers a user message that is in the thread before it:
\* regenerating and editing never leave the answer to a question that is gone.
ReplyHasPrompt ==
    \A t \in Turns : \A m \in Replies(t) :
        \E u \in Users : u.at < m.at /\ u.id = turns[t].prompt

\* What the page shows and the model is given again after any sequence of turns,
\* stops, failures and rewinds is a dialogue.
ThreadIsADialogue == OneReplyPerTurn /\ ToolsBeforeReply /\ NoBlankReply /\ ReplyHasPrompt

Answering(b) == frames[b] # <<>> \/ \E t \in Turns : turns[t].tab = b /\ Generating(t)

\* A tab whose input is locked has a turn, or a frame on its way, that will unlock
\* it, unless the event that was to do so timed out on its way to the tab: no turn
\* ends without trying, whatever else happens to it.
WaitIsJustified == \A b \in Tabs : ui[b] = "waiting" => Answering(b)

\* The same without the exception: such a tab is locked by something that is still
\* to come, however slowly its client reads.
LockIsJustified == \A b \in Tabs : ui[b] \in {"waiting", "lost"} => Answering(b)

\* The same for a tab whose user has pressed stop: the turn it cancelled answers.
StopIsAnswered == \A b \in Tabs : ui[b] = "stopping" => Answering(b)

\* A tab never has two turns generating at a time: the input is locked until the
\* reply is complete or stopped (sendMessage).
OneTurnPerTab ==
    \A t, u \in Turns : Generating(t) /\ Generating(u) /\ turns[t].tab = turns[u].tab
                          /\ turns[t].tab # Gone => t = u

\* Every turn ends, whatever the model, the database and the socket do.
TurnEnds == \A t \in Turns : Live(t) ~> ~Live(t)

=============================================================================
