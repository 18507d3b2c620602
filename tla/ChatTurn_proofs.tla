-------------------------- MODULE ChatTurn_proofs --------------------------
(***************************************************************************)
(* Proofs about ChatTurn, for any number of tabs, turns, rounds, rewinds   *)
(* and lost connections.                                                   *)
(***************************************************************************)
EXTENDS ChatTurn, SequenceTheorems, FiniteSetTheorems, WellFoundedInduction, TLAPS

-----------------------------------------------------------------------------
(* The inductive invariant *)

Streaming == {"stream", "tools", "stopping"}

\* The local variables of a turn, phase by phase.
KnowsTurn(k) ==
    /\ k.pc \notin Streaming \cup {"after"} => k.reply = None /\ ~k.some
    /\ k.pc \notin {"after", "ended"} => k.how = "running"
    /\ k.pc = "after" => k.how \in {"done", "unsaved"}
    /\ k.late => k.pc = "ended"
    /\ k.pc \in {"unused", "ended"} => k.tab = Gone
TurnsKnow == \A t \in Turns : KnowsTurn(turns[t])

\* The rows: their names, their times, and that no user row belongs to a reply.
RowsHold ==
    /\ \A m \in messages : m.id \in 1 .. now - 1 /\ m.at \in 1 .. now - 1
    /\ \A m, n \in messages : m.id = n.id => m = n
    /\ \A m \in messages : m.role = "user" => m.parent = None

TypeInv == TypeOK /\ now >= 1 /\ TurnsKnow /\ RowsHold

\* The one assistant row that a turn has, if it has one: whose it is, that it is
\* complete only when the turn is, ...
ReplyIsKnown(t) ==
    /\ turns[t].pc \in {"unused", "load", "persist", "prepare"} \/ turns[t].late => Replies(t) = {}
    /\ turns[t].pc \in Streaming =>
          /\ turns[t].reply = None => Replies(t) = {}
          /\ turns[t].reply # None =>
                /\ turns[t].reply < now
                /\ \A m \in messages : m \in Replies(t) <=> m.id = turns[t].reply
    /\ \A m, n \in Replies(t) : m = n
    /\ \A m \in Replies(t) : m.text = "full" => turns[t].pc \in {"after", "ended"}

\* ... behind the turn's tools, and never left empty by an interruption.
ToolsAreFirst(t) == \A m \in Replies(t) :
    m.text = "full" => \A n \in messages : n.turn = t /\ n.role = "tool" => n.at < m.at
NotBlank(t) == turns[t].how \in {"broken", "cancelled"} => \A m \in Replies(t) : m.text # "none"
Whole(t) == ReplyIsKnown(t) /\ ToolsAreFirst(t) /\ NotBlank(t)

\* The user row that it answers.
PromptIsThere(t) == turns[t].pc \in Streaming \cup {"prepare"} =>
    \E u \in Users : u.id = turns[t].prompt
HasPrompt(t) == \A m \in Replies(t) : \E u \in Users : u.at < m.at /\ u.id = turns[t].prompt
Answers(t) == PromptIsThere(t) /\ HasPrompt(t)

ThreadInv ==
    /\ TypeInv
    /\ \A t \in Turns : Whole(t)
    /\ ~RewindsAnytime => \A t \in Turns : Answers(t)

\* What is registered for a tab is a turn of that tab, or one it has lost.
RegistryHolds == \A b \in Tabs : tasks[b] # None =>
    turns[tasks[b]].tab \in {b, Gone} /\ turns[tasks[b]].pc # "unused"

\* A locked tab: its last frame asks for a turn, or has become one.
WaitHolds == \A b \in Tabs : ui[b] = "waiting" =>
    IF frames[b] = <<>> THEN \E t \in Turns : turns[t].tab = b /\ Generating(t)
                        ELSE frames[b][Len(frames[b])].type # "stop"

WaitInv == TypeInv /\ RegistryHolds /\ WaitHolds

-----------------------------------------------------------------------------
(* Numbers *)

LEMMA Least ==
    ASSUME NEW T, T \subseteq Nat, T # {}
    PROVE  \E x \in T : \A y \in T : x <= y
<1>1. PICK x \in T : \A y \in T : <<y, x>> \notin OpToRel(<, Nat)
  BY NatLessThanWellFounded, WFMin
<1>2. \A u, v \in Nat : u < v => <<u, v>> \in OpToRel(<, Nat)
  BY DEF OpToRel
<1>3. \A y \in T : ~(y < x)
  BY <1>1, <1>2
<1> QED
  BY <1>3

LEMMA Largest ==
    ASSUME NEW T, NEW n \in Nat, T \subseteq 0 .. n, T # {}
    PROVE  \E x \in T : \A y \in T : y <= x
<1> DEFINE U == {n - x : x \in T}
<1>1. U \subseteq Nat
  <2> SUFFICES ASSUME NEW x \in T PROVE n - x \in Nat
    OBVIOUS
  <2> QED
    OBVIOUS
<1>2. U # {}
  OBVIOUS
<1>3. PICK u \in U : \A v \in U : u <= v
  BY <1>1, <1>2, Least
<1>4. PICK x \in T : u = n - x
  OBVIOUS
<1>5. ASSUME NEW y \in T
      PROVE  y <= x
  <2>1. n - x <= n - y
    BY <1>3, <1>4
  <2> QED
    BY <2>1
<1> QED
  BY <1>5

-----------------------------------------------------------------------------
(* Rows *)

\* The last of some rows is one of them.
LEMMA LastRow ==
    ASSUME RowsHold, now \in Nat, now >= 1, NEW rows, rows \subseteq messages, rows # {}
    PROVE  Last(rows) \in rows /\ \A n \in rows : n.at <= Last(rows).at
<1> DEFINE T == {m.at : m \in rows}
<1>1. T \subseteq 0 .. now - 1 /\ T # {}
  BY DEF RowsHold
<1>2. PICK x \in T : \A y \in T : y <= x
  <2>1. now - 1 \in Nat
    OBVIOUS
  <2> QED
    BY <1>1, <2>1, Largest
<1>3. PICK m \in rows : x = m.at
  OBVIOUS
<1>4. \A n \in rows : n.at <= m.at
  BY <1>2, <1>3
<1> QED
  BY <1>4 DEF Last

LEMMA RowInserted ==
    ASSUME messages \subseteq Row, RowsHold, now \in Nat, now >= 1, NEW t \in Turns,
           NEW role \in {"user", "assistant", "tool"}, NEW parent \in Nat, NEW text \in Texts,
           role = "user" => parent = None,
           messages' = Inserted(t, role, parent, text), now' = now + 1
    PROVE  /\ messages' \subseteq Row /\ RowsHold' /\ now' \in Nat /\ now' >= 1
           /\ \E new \in messages' :
                 /\ new.id = now /\ new.at = now /\ new.turn = t /\ new.role = role /\ new.text = text
                 /\ new \notin messages /\ messages' = messages \cup {new}
<1> DEFINE new == [id |-> now, at |-> now, turn |-> t, role |-> role, parent |-> parent, text |-> text]
<1>1. messages' = messages \cup {new}
  BY DEF Inserted
<1>2. /\ new \in Row /\ new.id = now /\ new.at = now /\ new.turn = t /\ new.role = role /\ new.text = text
      /\ new.parent = parent
  BY DEF Row
<1> HIDE DEF new
<1>3. new \notin messages
  BY <1>2 DEF RowsHold
<1>4. RowsHold'
  <2>1. \A m \in messages' : m.id \in 1 .. now' - 1 /\ m.at \in 1 .. now' - 1
    BY <1>1, <1>2 DEF RowsHold
  <2>2. \A m, n \in messages' : m.id = n.id => m = n
    BY <1>1, <1>2 DEF RowsHold
  <2>3. \A m \in messages' : m.role = "user" => m.parent = None
    BY <1>1, <1>2 DEF RowsHold
  <2> QED
    BY <2>1, <2>2, <2>3 DEF RowsHold
<1> QED
  BY <1>1, <1>2, <1>3, <1>4

\* An UPDATE: every row is one that was there, or the row that is updated.
LEMMA RowUpdated ==
    ASSUME messages \subseteq Row, RowsHold, now \in Nat, now >= 1, NEW id, NEW text \in Texts,
           messages' = Updated(id, text), now' = now + 1
    PROVE  /\ messages' \subseteq Row /\ RowsHold' /\ now' \in Nat /\ now' >= 1
           /\ \A m \in messages : m.id # id => m \in messages'
           /\ \A x \in messages' : \E m \in messages :
                 /\ x.id = m.id /\ x.turn = m.turn /\ x.role = m.role /\ x.at >= m.at
                 /\ m.id # id => x = m
                 /\ m.id = id => x.text = text /\ x.at = now
<1> DEFINE New(m) == IF m.id = id THEN [m EXCEPT !.text = text, !.at = now] ELSE m
<1>1. messages' = {New(m) : m \in messages}
  BY DEF Updated
<1>2. ASSUME NEW m \in messages
      PROVE  /\ New(m) \in Row /\ New(m).id = m.id /\ New(m).turn = m.turn /\ New(m).role = m.role
             /\ New(m).parent = m.parent
             /\ m.id # id => New(m) = m
             /\ m.id = id => New(m).text = text /\ New(m).at = now
  <2>1. m \in Row
    OBVIOUS
  <2>2. CASE m.id # id
    BY <2>1, <2>2
  <2>3. CASE m.id = id
    BY <2>1, <2>3 DEF Row
  <2> QED
    BY <2>2, <2>3
<1> HIDE DEF New
<1>3. \A m \in messages : New(m).at >= m.at /\ New(m).at \in 1 .. now
  BY <1>2 DEF RowsHold
<1>4. RowsHold'
  <2>1. \A m \in messages' : m.id \in 1 .. now' - 1 /\ m.at \in 1 .. now' - 1
    BY <1>1, <1>2, <1>3 DEF RowsHold
  <2>2. \A m, n \in messages' : m.id = n.id => m = n
    BY <1>1, <1>2 DEF RowsHold
  <2>3. \A m \in messages' : m.role = "user" => m.parent = None
    BY <1>1, <1>2 DEF RowsHold
  <2> QED
    BY <2>1, <2>2, <2>3 DEF RowsHold
<1>5. messages' \subseteq Row
  BY <1>1, <1>2
<1>6. \A m \in messages : m.id # id => m \in messages'
  BY <1>1, <1>2
<1>7. \A x \in messages' : \E m \in messages :
         /\ x.id = m.id /\ x.turn = m.turn /\ x.role = m.role /\ x.at >= m.at
         /\ m.id # id => x = m
         /\ m.id = id => x.text = text /\ x.at = now
  BY <1>1, <1>2, <1>3
<1> QED
  BY <1>4, <1>5, <1>6, <1>7

\* Rows that are deleted, or none: what the others are stays.
LEMMA RowsFewer ==
    ASSUME messages \subseteq Row, RowsHold, now \in Nat, now >= 1,
           messages' \subseteq messages, now' = now \/ now' = now + 1
    PROVE  messages' \subseteq Row /\ RowsHold' /\ now' \in Nat /\ now' >= 1
<1>1. \A m \in messages' : m.id \in 1 .. now' - 1 /\ m.at \in 1 .. now' - 1
  BY DEF RowsHold
<1>2. \A m, n \in messages' : m.id = n.id => m = n
  BY DEF RowsHold
<1>3. \A m \in messages' : m.role = "user" => m.parent = None
  BY DEF RowsHold
<1> QED
  BY <1>1, <1>2, <1>3 DEF RowsHold

\* A user row goes only when it is deleted itself: it names no parent.
LEMMA UsersOutlive ==
    ASSUME RowsHold, NEW gone, None \notin gone, NEW u \in Users, u.id \notin gone
    PROVE  u \in Without(gone)
<1>1. u \in messages /\ u.role = "user" /\ u.parent = None
  BY DEF Users, RowsHold
<1>2. \A n \in messages : n.parent \in gone => n.id # u.id
  BY <1>1 DEF RowsHold
<1> QED
  BY <1>1, <1>2 DEF Without, Cascade

-----------------------------------------------------------------------------
(* Turns *)

LEMMA TurnReplaced ==
    ASSUME turns \in [Turns -> Turn], TurnsKnow, NEW t \in Turns, NEW k \in Turn, KnowsTurn(k),
           turns' = [turns EXCEPT ![t] = k]
    PROVE  /\ turns' \in [Turns -> Turn] /\ TurnsKnow'
           /\ turns'[t] = k /\ \A u \in Turns : u # t => turns'[u] = turns[u]
<1>1. turns' \in [Turns -> Turn] /\ turns'[t] = k /\ \A u \in Turns : u # t => turns'[u] = turns[u]
  OBVIOUS
<1>2. ASSUME NEW u \in Turns PROVE KnowsTurn(turns'[u])
  BY <1>1, SMT DEF TurnsKnow
<1> QED
  BY <1>1, <1>2 DEF TurnsKnow

LEMMA OverKnows ==
    ASSUME turns \in [Turns -> Turn], NEW t \in Turns, NEW late \in BOOLEAN,
           NEW how \in {"running", "done", "broken", "cancelled", "refused", "unsaved"}
    PROVE  /\ Over(t, how, late) \in Turn /\ KnowsTurn(Over(t, how, late))
           /\ Over(t, how, late).pc = "ended" /\ Over(t, how, late).how = how
           /\ Over(t, how, late).late = late /\ Over(t, how, late).tab = Gone
           /\ Over(t, how, late).prompt = turns[t].prompt
<1>1. turns[t] \in Turn
  OBVIOUS
<1> QED
  BY <1>1 DEF Over, Unused, Turn, Phases, KnowsTurn, Streaming, None

\* What task.cancel() does to a turn, by the await it is suspended in.
LEMMA CancelledTurns ==
    ASSUME turns \in [Turns -> Turn], TurnsKnow, NEW ts, NEW t \in Turns
    PROVE  /\ Cancelled(ts)[t] \in Turn /\ KnowsTurn(Cancelled(ts)[t])
           /\ \/ Cancelled(ts)[t] = turns[t]
              \/ /\ t \in ts /\ turns[t].pc \in {"stream", "tools"}
                 /\ Cancelled(ts)[t] = [turns[t] EXCEPT !.pc = "stopping"]
              \/ /\ t \in ts /\ turns[t].pc \in {"load", "persist", "prepare"}
                 /\ Cancelled(ts)[t].pc = "ended" /\ Cancelled(ts)[t].tab = Gone
                 /\ Cancelled(ts)[t].how = "cancelled" /\ Cancelled(ts)[t].prompt = turns[t].prompt
              \/ /\ t \in ts /\ turns[t].pc = "after"
                 /\ Cancelled(ts)[t].pc = "ended" /\ Cancelled(ts)[t].tab = Gone /\ ~Cancelled(ts)[t].late
                 /\ Cancelled(ts)[t].how = turns[t].how /\ Cancelled(ts)[t].prompt = turns[t].prompt
<1> DEFINE c == Cancelled(ts)[t]
<1>1. turns[t] \in Turn /\ KnowsTurn(turns[t])
  BY DEF TurnsKnow
<1>2. c = IF t \notin ts \/ ~Stoppable(t) THEN turns[t]
          ELSE IF turns[t].pc \in {"stream", "tools"} THEN [turns[t] EXCEPT !.pc = "stopping"]
          ELSE IF turns[t].pc = "after" THEN Over(t, turns[t].how, FALSE)
          ELSE Over(t, "cancelled", turns[t].pc = "persist")
  BY DEF Cancelled
<1>3. CASE t \notin ts \/ ~Stoppable(t)
  BY <1>1, <1>2, <1>3
<1>4. CASE t \in ts /\ turns[t].pc \in {"stream", "tools"} /\ Stoppable(t)
  <2>1. c = [turns[t] EXCEPT !.pc = "stopping"]
    BY <1>2, <1>4
  <2>2. c \in Turn /\ KnowsTurn(c)
    BY <1>1, <1>4, <2>1 DEF Turn, Phases, KnowsTurn, Streaming
  <2> QED
    BY <1>4, <2>1, <2>2
<1>5. CASE t \in ts /\ turns[t].pc = "after" /\ Stoppable(t)
  <2>1. c = Over(t, turns[t].how, FALSE) /\ turns[t].how \in {"done", "unsaved"}
    BY <1>1, <1>2, <1>5 DEF KnowsTurn
  <2>2. FALSE \in BOOLEAN /\ turns[t].how \in {"running", "done", "broken", "cancelled", "refused", "unsaved"}
    BY <2>1
  <2>3. c = [pc |-> "ended", tab |-> Gone, prompt |-> turns[t].prompt, reply |-> None, some |-> FALSE,
             rounds |-> 0, how |-> turns[t].how, late |-> FALSE]
    BY <2>1 DEF Over, Unused
  <2> HIDE DEF c
  <2>4. c \in Turn
    BY <1>1, <2>2, <2>3 DEF Turn, Phases, None
  <2>5. KnowsTurn(c)
    BY <2>3 DEF KnowsTurn, Streaming
  <2>6. c.pc = "ended" /\ c.tab = Gone /\ ~c.late /\ c.how = turns[t].how /\ c.prompt = turns[t].prompt
    BY <2>3
  <2> QED
    BY <1>5, <2>4, <2>5, <2>6 DEF c
<1>6. CASE t \in ts /\ turns[t].pc \in {"load", "persist", "prepare"} /\ Stoppable(t)
  <2>1. c = Over(t, "cancelled", turns[t].pc = "persist")
    BY <1>2, <1>6
  <2>2. PICK late \in BOOLEAN : late = (turns[t].pc = "persist")
    OBVIOUS
  <2>3. c = [pc |-> "ended", tab |-> Gone, prompt |-> turns[t].prompt, reply |-> None, some |-> FALSE,
             rounds |-> 0, how |-> "cancelled", late |-> late]
    BY <2>1, <2>2 DEF Over, Unused
  <2> HIDE DEF c
  <2>4. c \in Turn
    BY <1>1, <2>2, <2>3 DEF Turn, Phases, None
  <2>5. KnowsTurn(c)
    BY <2>3 DEF KnowsTurn, Streaming
  <2>6. c.pc = "ended" /\ c.tab = Gone /\ c.how = "cancelled" /\ c.prompt = turns[t].prompt
    BY <2>3
  <2> QED
    BY <1>6, <2>4, <2>5, <2>6 DEF c
<1>7. Stoppable(t) => turns[t].pc \in {"stream", "tools", "after", "load", "persist", "prepare"}
  BY <1>1 DEF Stoppable, Live, Turn, Phases
<1> QED
  BY <1>3, <1>4, <1>5, <1>6, <1>7

LEMMA CancelledTyped ==
    ASSUME turns \in [Turns -> Turn], TurnsKnow, NEW ts
    PROVE  \A t \in Turns : Cancelled(ts)[t] \in Turn /\ KnowsTurn(Cancelled(ts)[t])
BY CancelledTurns

\* The frames that a tab sends and the server takes.
LEMMA FrameSent ==
    ASSUME frames \in [Tabs -> Seq(Frame)], NEW b \in Tabs, NEW f \in Frame,
           frames' = [frames EXCEPT ![b] = Append(@, f)]
    PROVE  /\ frames' \in [Tabs -> Seq(Frame)]
           /\ frames'[b] # <<>> /\ frames'[b][Len(frames'[b])] = f
           /\ \A c \in Tabs : c # b => frames'[c] = frames[c]
<1>1. frames[b] \in Seq(Frame) /\ frames'[b] = Append(frames[b], f)
  OBVIOUS
<1>2. Append(frames[b], f) \in Seq(Frame) /\ Len(Append(frames[b], f)) = Len(frames[b]) + 1
      /\ Append(frames[b], f)[Len(frames[b]) + 1] = f /\ Append(frames[b], f) # <<>>
  BY <1>1, AppendProperties
<1> QED
  BY <1>1, <1>2

LEMMA FrameTaken ==
    ASSUME frames \in [Tabs -> Seq(Frame)], NEW b \in Tabs, frames[b] # <<>>,
           frames' = [frames EXCEPT ![b] = Tail(@)]
    PROVE  /\ frames' \in [Tabs -> Seq(Frame)] /\ Head(frames[b]) \in Frame
           /\ frames'[b] # <<>> => frames'[b][Len(frames'[b])] = frames[b][Len(frames[b])]
           /\ frames'[b] = <<>> => Head(frames[b]) = frames[b][Len(frames[b])]
           /\ \A c \in Tabs : c # b => frames'[c] = frames[c]
<1> DEFINE s == frames[b]
           r == Tail(frames[b])
<1>1. s \in Seq(Frame) /\ frames'[b] = r
  OBVIOUS
<1>2. /\ Head(s) \in Frame /\ Head(s) = s[1]
      /\ r \in Seq(Frame) /\ Len(r) = Len(s) - 1 /\ \A i \in 1 .. Len(r) : r[i] = s[i + 1]
  BY <1>1, HeadTailProperties
<1>3. Len(s) \in Nat /\ Len(r) \in Nat /\ Len(s) # 0
  BY <1>1, <1>2, EmptySeq, LenProperties
<1> HIDE DEF s, r
<1>4. r # <<>> => r[Len(r)] = s[Len(s)]
  BY <1>2, <1>3, EmptySeq
<1>5. r = <<>> => Head(s) = s[Len(s)]
  <2>1. r = <<>> => Len(r) = 0
    BY <1>2, EmptySeq
  <2>2. r = <<>> => Len(s) = 1
    BY <1>2, <1>3, <2>1
  <2> QED
    BY <1>2, <2>2
<1>6. frames' \in [Tabs -> Seq(Frame)] /\ \A c \in Tabs : c # b => frames'[c] = frames[c]
  BY <1>2 DEF r
<1> QED
  BY <1>1, <1>2, <1>4, <1>5, <1>6 DEF s, r

-----------------------------------------------------------------------------
(* The type invariant *)

RowsOK == messages \subseteq Row /\ now \in Nat /\ now >= 1 /\ RowsHold
TurnsOK == turns \in [Turns -> Turn] /\ TurnsKnow
RestOK ==
    /\ tasks \in [Tabs -> Turns \cup {None}]
    /\ ui \in [Tabs -> {"open", "waiting", "stopping", "lost"}]
    /\ frames \in [Tabs -> Seq(Frame)]
    /\ rewinds \in 0..MaxRewinds
    /\ drops \in 0..MaxDrops

LEMMA TypeParts == TypeInv <=> RowsOK /\ TurnsOK /\ RestOK
BY DEF TypeInv, TypeOK, RowsOK, TurnsOK, RestOK

LEMMA TypePartsNext == TypeInv' <=> RowsOK' /\ TurnsOK' /\ RestOK'
BY DEF TypeInv, TypeOK, RowsOK, TurnsOK, RestOK

LEMMA InsertedRow ==
    ASSUME RowsOK, NEW t \in Turns,
           NEW role \in {"user", "assistant", "tool"}, NEW parent \in Nat, NEW text \in Texts,
           role = "user" => parent = None,
           messages' = Inserted(t, role, parent, text), now' = now + 1
    PROVE  RowsOK'
BY RowInserted DEF RowsOK

LEMMA UpdatedRow ==
    ASSUME RowsOK, NEW id, NEW text \in Texts, messages' = Updated(id, text), now' = now + 1
    PROVE  RowsOK'
BY RowUpdated DEF RowsOK

LEMMA FewerRows ==
    ASSUME RowsOK, messages' \subseteq messages, now' = now \/ now' = now + 1
    PROVE  RowsOK'
BY RowsFewer DEF RowsOK

LEMMA SameTurns ==
    ASSUME TurnsOK, UNCHANGED turns
    PROVE  TurnsOK'
BY DEF TurnsOK, TurnsKnow

LEMMA OneTurn ==
    ASSUME TurnsOK, NEW t \in Turns, NEW k \in Turn, KnowsTurn(k), turns' = [turns EXCEPT ![t] = k]
    PROVE  TurnsOK' /\ turns'[t] = k /\ \A u \in Turns : u # t => turns'[u] = turns[u]
BY TurnReplaced DEF TurnsOK

LEMMA OverTurn ==
    ASSUME TurnsOK, NEW t \in Turns, NEW late \in BOOLEAN,
           NEW how \in {"running", "done", "broken", "cancelled", "refused", "unsaved"},
           turns' = [turns EXCEPT ![t] = Over(t, how, late)]
    PROVE  /\ TurnsOK' /\ \A u \in Turns : u # t => turns'[u] = turns[u]
           /\ turns'[t].pc = "ended" /\ turns'[t].how = how /\ turns'[t].late = late
           /\ turns'[t].tab = Gone /\ turns'[t].prompt = turns[t].prompt
<1>1. /\ Over(t, how, late) \in Turn /\ KnowsTurn(Over(t, how, late))
      /\ Over(t, how, late).pc = "ended" /\ Over(t, how, late).how = how
      /\ Over(t, how, late).late = late /\ Over(t, how, late).tab = Gone
      /\ Over(t, how, late).prompt = turns[t].prompt
  BY OverKnows DEF TurnsOK
<1> QED
  BY <1>1, OneTurn

LEMMA EndedTurn ==
    ASSUME TurnsOK, NEW t \in Turns,
           NEW how \in {"running", "done", "broken", "cancelled", "refused", "unsaved"},
           turns' = Ended(t, how)
    PROVE  /\ TurnsOK' /\ \A u \in Turns : u # t => turns'[u] = turns[u]
           /\ turns'[t].pc = "ended" /\ turns'[t].how = how /\ ~turns'[t].late
           /\ turns'[t].tab = Gone /\ turns'[t].prompt = turns[t].prompt
<1> DEFINE k == Over(t, how, FALSE)
<1>1. turns[t] \in Turn /\ turns' = [turns EXCEPT ![t] = k]
  BY DEF Ended, TurnsOK
<1>2. /\ k \in Turn /\ KnowsTurn(k) /\ k.pc = "ended" /\ k.how = how /\ ~k.late /\ k.tab = Gone
      /\ k.prompt = turns[t].prompt
  BY <1>1 DEF Over, Unused, Turn, Phases, KnowsTurn, Streaming, None
<1> HIDE DEF k
<1> QED
  BY <1>1, <1>2, OneTurn

LEMMA ToldTyped ==
    ASSUME RestOK, TurnsOK, NEW t \in Turns
    PROVE  /\ Lost(t) \in [Tabs -> {"open", "waiting", "stopping", "lost"}]
           /\ Told(t) \in [Tabs -> {"open", "waiting", "stopping", "lost"}]
           /\ Unregistered(t) \in [Tabs -> Turns \cup {None}]
<1>1. turns[t].tab \in Tabs \cup {Gone}
  BY DEF TurnsOK, Turn
<1> QED
  BY <1>1 DEF RestOK, Told, Lost, Unregistered

\* The user row that a regeneration answers is one of the conversation.
LEMMA PivotIsUser ==
    ASSUME RowsOK, Users # {}, NEW id
    PROVE  \E u \in Users : u.id = PivotRow(id)
<1> DEFINE before == {u \in Users : \E m \in messages : m.id = id /\ u.at <= m.at}
           rows   == IF before = {} THEN Users ELSE before
<1>1. rows \subseteq Users /\ rows # {} /\ Users \subseteq messages
  BY DEF Users
<1>2. PivotRow(id) = Last(rows).id
  BY DEF PivotRow
<1> HIDE DEF rows
<1>3. Last(rows) \in rows
  BY <1>1, LastRow DEF RowsOK
<1> QED
  BY <1>1, <1>2, <1>3

\* What ends a streaming phase leaves of the rows.
LEMMA PartialCases ==
    ASSUME RowsOK, TurnsOK, NEW t \in Turns, NEW suffix \in BOOLEAN, messages' = Partial(t, suffix)
    PROVE  \/ turns[t].reply = None /\ messages' = Inserted(t, "assistant", None, "partial")
           \/ turns[t].reply # None /\ messages' = Updated(turns[t].reply, "partial")
           \/ turns[t].reply = None /\ messages' = messages
           \/ turns[t].reply # None /\ messages' = Without({turns[t].reply})
BY DEF Partial

LEMMA SavePartialType ==
    ASSUME RowsOK, TurnsOK, NEW t \in Turns, NEW suffix \in BOOLEAN,
           NEW how \in {"broken", "cancelled"}, SavePartial(t, suffix, how)
    PROVE  RowsOK' /\ TurnsOK'
<1>1. CASE messages' = Partial(t, suffix) /\ now' = now + 1 /\ turns' = Ended(t, how)
  <2>1. TurnsOK'
    BY <1>1, EndedTurn
  <2>2. "partial" \in Texts /\ None \in Nat
    BY DEF Texts, None
  <2>3. CASE messages' = Inserted(t, "assistant", None, "partial")
    BY <1>1, <2>1, <2>2, <2>3, InsertedRow
  <2>4. CASE messages' = Updated(turns[t].reply, "partial")
    BY <1>1, <2>1, <2>2, <2>4, UpdatedRow
  <2>5. CASE messages' = messages \/ messages' = Without({turns[t].reply})
    BY <1>1, <2>1, <2>5, FewerRows DEF Without
  <2> QED
    BY <1>1, <2>3, <2>4, <2>5, PartialCases
<1>2. CASE turns' = Ended(t, "unsaved") /\ UNCHANGED <<messages, now>>
  BY <1>2, EndedTurn, FewerRows
<1> QED
  BY <1>1, <1>2 DEF SavePartial

LEMMA RefusedTurn ==
    ASSUME RowsOK, TurnsOK, RestOK, NEW t \in Turns, Refuse(t, FALSE) \/ Refuse(t, TRUE)
    PROVE  /\ RowsOK' /\ TurnsOK'
           /\ ui' \in [Tabs -> {"open", "waiting", "stopping", "lost"}]
           /\ tasks' \in [Tabs -> Turns \cup {None}]
           /\ \A u \in Turns : u # t => turns'[u] = turns[u]
           /\ turns'[t].pc = "ended" /\ turns'[t].how = "refused" /\ turns'[t].tab = Gone
<1>1. turns[t] \in Turn
  BY DEF TurnsOK
<1>2. ASSUME NEW k, k = Over(t, "refused", FALSE) \/ k = Over(t, "refused", TRUE)
      PROVE  k \in Turn /\ KnowsTurn(k) /\ k.pc = "ended" /\ k.how = "refused" /\ k.tab = Gone
  <2>1. CASE k = Over(t, "refused", FALSE)
    BY <1>1, <2>1 DEF Over, Unused, Turn, Phases, KnowsTurn, Streaming, None
  <2>2. CASE k = Over(t, "refused", TRUE)
    BY <1>1, <2>2 DEF Over, Unused, Turn, Phases, KnowsTurn, Streaming, None
  <2> QED
    BY <1>2, <2>1, <2>2
<1>3. PICK k : /\ k = Over(t, "refused", FALSE) \/ k = Over(t, "refused", TRUE)
               /\ turns' = [turns EXCEPT ![t] = k]
  BY DEF Refuse
<1>4. /\ TurnsOK' /\ \A u \in Turns : u # t => turns'[u] = turns[u]
      /\ turns'[t].pc = "ended" /\ turns'[t].how = "refused" /\ turns'[t].tab = Gone
  BY <1>2, <1>3, OneTurn
<1>5. RowsOK'
  BY FewerRows DEF Refuse
<1> QED
  BY <1>4, <1>5, ToldTyped DEF Refuse, Tell

\* The rows behind a user turn are deleted, and no other row comes.
LEMMA RewindRows ==
    ASSUME RowsOK, NEW b \in Tabs, NEW m \in messages, RewindTo(b, m)
    PROVE  /\ messages' \subseteq messages
           /\ \/ /\ ui[b] = "open"
                 /\ \E p \in Nat : frames' = [frames EXCEPT ![b] = Append(@, [type |-> "again", pivot |-> p])]
                 /\ ui' = [ui EXCEPT ![b] = "waiting"]
              \/ UNCHANGED <<frames, ui>>
<1> DEFINE before == {u \in Users : u.at <= m.at}
           pivot  == IF before = {} THEN None ELSE Last(before).id
<1>1. messages' \subseteq messages
  BY DEF RewindTo, Without
<1>2. pivot \in Nat
  <2>1. CASE before = {}
    BY <2>1 DEF None
  <2>2. CASE before # {}
    <3>1. before \subseteq messages
      BY DEF Users
    <3> HIDE DEF before
    <3>2. Last(before) \in before
      BY <2>2, <3>1, LastRow DEF RowsOK
    <3> QED
      BY <2>2, <3>1, <3>2 DEF RowsOK, Row
  <2> QED
    BY <2>1, <2>2
<1>3. \/ /\ ui[b] = "open"
         /\ frames' = [frames EXCEPT ![b] = Append(@, [type |-> "again", pivot |-> pivot])]
         /\ ui' = [ui EXCEPT ![b] = "waiting"]
      \/ UNCHANGED <<frames, ui>>
  BY DEF RewindTo
<1> HIDE DEF pivot
<1> QED
  BY <1>1, <1>2, <1>3

LEMMA TypeInit == Init => TypeInv
<1> SUFFICES ASSUME Init PROVE TypeInv
  OBVIOUS
<1> USE DEF None
<1>1. RowsOK
  BY DEF Init, RowsOK, RowsHold
<1>2. TurnsOK
  <2>1. Unused(Gone) \in Turn /\ KnowsTurn(Unused(Gone))
    BY DEF Unused, Turn, Phases, KnowsTurn, Streaming
  <2> QED
    BY <2>1 DEF Init, TurnsOK, TurnsKnow
<1>3. RestOK
  BY BoundsAssumption DEF Init, RestOK
<1> QED
  BY <1>1, <1>2, <1>3, TypeParts

LEMMA TypeStep == TypeInv /\ [Next]_vars => TypeInv'
<1> SUFFICES ASSUME RowsOK, TurnsOK, RestOK, [Next]_vars
             PROVE  RowsOK' /\ TurnsOK' /\ RestOK'
  BY TypeParts, TypePartsNext
<1> USE DEF None
<1>1. ASSUME NEW b \in Tabs, Send(b)
      PROVE  RowsOK' /\ TurnsOK' /\ RestOK'
  <2>1. [type |-> "send", pivot |-> None] \in Frame
    BY DEF Frame
  <2>2. frames' \in [Tabs -> Seq(Frame)]
    BY <1>1, <2>1, FrameSent DEF Send, RestOK
  <2> QED
    BY <1>1, <2>2, FewerRows, SameTurns DEF Send, RestOK
<1>2. ASSUME NEW b \in Tabs, ClickStop(b)
      PROVE  RowsOK' /\ TurnsOK' /\ RestOK'
  <2>1. [type |-> "stop", pivot |-> None] \in Frame
    BY DEF Frame
  <2>2. frames' \in [Tabs -> Seq(Frame)]
    BY <1>2, <2>1, FrameSent DEF ClickStop, RestOK
  <2> QED
    BY <1>2, <2>2, FewerRows, SameTurns DEF ClickStop, RestOK
<1>3. ASSUME NEW b \in Tabs, Rewind(b)
      PROVE  RowsOK' /\ TurnsOK' /\ RestOK'
  <2>1. PICK m \in messages : RewindTo(b, m)
    BY <1>3 DEF Rewind
  <2>2. RowsOK' /\ TurnsOK'
    BY <1>3, <2>1, RewindRows, FewerRows, SameTurns DEF Rewind
  <2>3. frames' \in [Tabs -> Seq(Frame)] /\ ui' \in [Tabs -> {"open", "waiting", "stopping", "lost"}]
    <3>1. CASE UNCHANGED <<frames, ui>>
      BY <3>1 DEF RestOK
    <3>2. ASSUME NEW p \in Nat, ui' = [ui EXCEPT ![b] = "waiting"],
                 frames' = [frames EXCEPT ![b] = Append(@, [type |-> "again", pivot |-> p])]
          PROVE  frames' \in [Tabs -> Seq(Frame)] /\ ui' \in [Tabs -> {"open", "waiting", "stopping", "lost"}]
      <4>1. [type |-> "again", pivot |-> p] \in Frame
        BY DEF Frame
      <4>2. frames' \in [Tabs -> Seq(Frame)]
        BY <3>2, <4>1, FrameSent DEF RestOK
      <4> QED
        BY <3>2, <4>2 DEF RestOK
    <3> QED
      BY <2>1, <3>1, <3>2, RewindRows
  <2>4. rewinds' \in 0..MaxRewinds
    BY <1>3, BoundsAssumption DEF Rewind, RestOK
  <2> QED
    BY <1>3, <2>2, <2>3, <2>4 DEF Rewind, RestOK
<1>4. ASSUME NEW b \in Tabs, Drop(b)
      PROVE  RowsOK' /\ TurnsOK' /\ RestOK'
  <2> DEFINE cut == Cancelled({tasks[b]})
  <2>1. turns' = [t \in Turns |-> IF cut[t].tab = b THEN [cut[t] EXCEPT !.tab = Gone] ELSE cut[t]]
    BY <1>4 DEF Drop
  <2>2. ASSUME NEW t \in Turns
        PROVE  turns'[t] \in Turn /\ KnowsTurn(turns'[t])
    <3>1. cut[t] \in Turn /\ KnowsTurn(cut[t])
      BY CancelledTurns DEF TurnsOK
    <3> HIDE DEF cut
    <3>2. turns'[t] = IF cut[t].tab = b THEN [cut[t] EXCEPT !.tab = Gone] ELSE cut[t]
      BY <2>1
    <3>3. [cut[t] EXCEPT !.tab = Gone] \in Turn /\ KnowsTurn([cut[t] EXCEPT !.tab = Gone])
      BY <3>1 DEF Turn, KnowsTurn
    <3> QED
      BY <3>1, <3>2, <3>3
  <2> HIDE DEF cut
  <2>3. TurnsOK'
    BY <2>1, <2>2 DEF TurnsOK, TurnsKnow
  <2>4. RowsOK'
    BY <1>4, FewerRows DEF Drop
  <2>5. <<>> \in Seq(Frame)
    OBVIOUS
  <2>6. drops' \in 0..MaxDrops
    BY <1>4, BoundsAssumption DEF Drop, RestOK
  <2>7. /\ tasks' = [tasks EXCEPT ![b] = None] /\ frames' = [frames EXCEPT ![b] = <<>>]
        /\ ui' = [ui EXCEPT ![b] = "open"] /\ rewinds' = rewinds
    BY <1>4 DEF Drop
  <2> QED
    BY <2>3, <2>4, <2>5, <2>6, <2>7 DEF RestOK
<1>5. ASSUME NEW b \in Tabs, StartTurn(b)
      PROVE  RowsOK' /\ TurnsOK' /\ RestOK'
  <2>1. Head(frames[b]) \in Frame /\ frames' \in [Tabs -> Seq(Frame)]
    BY <1>5, FrameTaken DEF StartTurn, RestOK
  <2> DEFINE k == [Unused(b) EXCEPT !.pc = IF Head(frames[b]).type = "again" THEN "load" ELSE "persist",
                                    !.prompt = Head(frames[b]).pivot]
  <2>2. PICK t \in Turns : turns' = [turns EXCEPT ![t] = k] /\ tasks' = [tasks EXCEPT ![b] = t]
    BY <1>5 DEF StartTurn, Fresh
  <2>3. k \in Turn /\ KnowsTurn(k)
    BY <2>1 DEF Unused, Turn, Phases, KnowsTurn, Frame, Streaming
  <2> HIDE DEF k
  <2>4. TurnsOK'
    BY <2>2, <2>3, OneTurn
  <2> QED
    BY <1>5, <2>1, <2>2, <2>4, FewerRows DEF StartTurn, RestOK
<1>6. ASSUME NEW b \in Tabs, StopTurn(b)
      PROVE  RowsOK' /\ TurnsOK' /\ RestOK'
  <2>1. frames' \in [Tabs -> Seq(Frame)]
    BY <1>6, FrameTaken DEF StopTurn, RestOK
  <2>2. TurnsOK'
    <3>1. CASE UNCHANGED turns
      BY <3>1, SameTurns
    <3>2. CASE turns' = Cancelled({tasks[b]})
      <4>1. \A t \in Turns : turns'[t] \in Turn /\ KnowsTurn(turns'[t])
        BY <3>2, CancelledTurns DEF TurnsOK
      <4>2. DOMAIN turns' = Turns /\ turns' = [t \in DOMAIN turns' |-> turns'[t]]
        BY <3>2 DEF Cancelled
      <4> QED
        BY <4>1, <4>2 DEF TurnsOK, TurnsKnow
    <3> QED
      BY <1>6, <3>1, <3>2 DEF StopTurn
  <2>3. /\ tasks' = tasks \/ tasks' = [tasks EXCEPT ![b] = None]
        /\ ui' = ui \/ ui' = [ui EXCEPT ![b] = "open"]
    BY <1>6 DEF StopTurn
  <2> QED
    BY <1>6, <2>1, <2>2, <2>3, FewerRows DEF StopTurn, RestOK
<1>7. ASSUME NEW t \in Turns, Load(t)
      PROVE  RowsOK' /\ TurnsOK' /\ RestOK'
  <2>1. CASE Refuse(t, FALSE)
    BY <1>7, <2>1, RefusedTurn DEF Load, RestOK
  <2>2. CASE /\ Users # {} /\ UNCHANGED <<messages, now, tasks, ui>>
             /\ turns' = [turns EXCEPT ![t].pc = "prepare", ![t].prompt = PivotRow(turns[t].prompt)]
    <3> DEFINE k == [turns[t] EXCEPT !.pc = "prepare", !.prompt = PivotRow(turns[t].prompt)]
    <3>1. turns[t] \in Turn /\ KnowsTurn(turns[t]) /\ turns[t].pc = "load"
      BY <1>7 DEF TurnsOK, TurnsKnow, Load
    <3>2. PivotRow(turns[t].prompt) \in Nat
      BY <2>2, PivotIsUser DEF RowsOK, Row, Users
    <3>3. k \in Turn /\ KnowsTurn(k)
      BY <3>1, <3>2 DEF Turn, Phases, KnowsTurn, Streaming
    <3>4. turns' = [turns EXCEPT ![t] = k]
      BY <2>2, <3>1 DEF TurnsOK
    <3> HIDE DEF k
    <3> QED
      BY <1>7, <2>2, <3>3, <3>4, OneTurn, FewerRows DEF Load, RestOK
  <2> QED
    BY <1>7, <2>1, <2>2 DEF Load
<1>8. ASSUME NEW t \in Turns, Persist(t)
      PROVE  RowsOK' /\ TurnsOK' /\ RestOK'
  <2>1. CASE Refuse(t, FALSE) \/ Refuse(t, TRUE)
    BY <1>8, <2>1, RefusedTurn DEF Persist, RestOK
  <2>2. CASE /\ messages' = Inserted(t, "user", None, "full") /\ now' = now + 1 /\ UNCHANGED <<tasks, ui>>
             /\ turns' = [turns EXCEPT ![t].pc = "prepare", ![t].prompt = now]
    <3> DEFINE k == [turns[t] EXCEPT !.pc = "prepare", !.prompt = now]
    <3>1. turns[t] \in Turn /\ KnowsTurn(turns[t]) /\ turns[t].pc = "persist"
      BY <1>8 DEF TurnsOK, TurnsKnow, Persist
    <3>2. k \in Turn /\ KnowsTurn(k)
      BY <3>1 DEF Turn, Phases, KnowsTurn, Streaming, RowsOK
    <3>3. turns' = [turns EXCEPT ![t] = k]
      BY <2>2, <3>1 DEF TurnsOK
    <3> HIDE DEF k
    <3>4. RowsOK'
      BY <2>2, InsertedRow DEF Texts
    <3> QED
      BY <1>8, <2>2, <3>2, <3>3, <3>4, OneTurn DEF Persist, RestOK
  <2> QED
    BY <1>8, <2>1, <2>2 DEF Persist
<1>9. ASSUME NEW t \in Turns, LatePersist(t)
      PROVE  RowsOK' /\ TurnsOK' /\ RestOK'
  <2> DEFINE k == [turns[t] EXCEPT !.late = FALSE, !.prompt = now]
  <2>1. turns[t] \in Turn /\ KnowsTurn(turns[t])
    BY DEF TurnsOK, TurnsKnow
  <2>2. k \in Turn /\ KnowsTurn(k)
    BY <2>1 DEF Turn, KnowsTurn, RowsOK
  <2>3. turns' = [turns EXCEPT ![t] = k]
    BY <1>9, <2>1 DEF TurnsOK, LatePersist
  <2> HIDE DEF k
  <2>4. RowsOK'
    BY <1>9, InsertedRow DEF LatePersist, Texts
  <2> QED
    BY <1>9, <2>2, <2>3, <2>4, OneTurn DEF LatePersist, RestOK
<1>10. ASSUME NEW t \in Turns, Prepare(t)
       PROVE  RowsOK' /\ TurnsOK' /\ RestOK'
  <2>1. CASE Refuse(t, FALSE)
    BY <1>10, <2>1, RefusedTurn DEF Prepare, RestOK
  <2>2. CASE turns' = [turns EXCEPT ![t].pc = "stream"] /\ UNCHANGED <<messages, now, tasks, ui>>
    <3> DEFINE k == [turns[t] EXCEPT !.pc = "stream"]
    <3>1. turns[t] \in Turn /\ KnowsTurn(turns[t]) /\ turns[t].pc = "prepare"
      BY <1>10 DEF TurnsOK, TurnsKnow, Prepare
    <3>2. k \in Turn /\ KnowsTurn(k)
      BY <3>1 DEF Turn, Phases, KnowsTurn, Streaming
    <3> QED
      BY <1>10, <2>2, <3>2, OneTurn, FewerRows DEF Prepare, RestOK
  <2>3. CASE /\ turns' = Ended(t, "broken") /\ UNCHANGED <<messages, now>>
             /\ tasks' = Unregistered(t) /\ ui' = Lost(t)
    BY <1>10, <2>3, EndedTurn, FewerRows, ToldTyped DEF Prepare, RestOK
  <2> QED
    BY <1>10, <2>1, <2>2, <2>3 DEF Prepare
<1>11. ASSUME NEW t \in Turns, Delta(t)
       PROVE  RowsOK' /\ TurnsOK' /\ RestOK'
  <2> DEFINE k == [turns[t] EXCEPT !.some = TRUE]
  <2>1. turns[t] \in Turn /\ KnowsTurn(turns[t]) /\ turns[t].pc = "stream"
    BY <1>11 DEF TurnsOK, TurnsKnow, Delta
  <2>2. k \in Turn /\ KnowsTurn(k)
    BY <2>1 DEF Turn, KnowsTurn, Streaming
  <2> QED
    BY <1>11, <2>2, OneTurn, FewerRows DEF Delta, RestOK
<1>12. ASSUME NEW t \in Turns, CallTools(t)
       PROVE  RowsOK' /\ TurnsOK' /\ RestOK'
  <2>1. turns[t] \in Turn /\ KnowsTurn(turns[t]) /\ turns[t].pc = "stream"
    BY <1>12 DEF TurnsOK, TurnsKnow, CallTools
  <2>2. CASE /\ messages' = Inserted(t, "assistant", None, IF turns[t].some THEN "partial" ELSE "none")
             /\ now' = now + 1 /\ turns' = [turns EXCEPT ![t].pc = "tools", ![t].reply = now]
    <3> DEFINE k == [turns[t] EXCEPT !.pc = "tools", !.reply = now]
    <3>1. k \in Turn /\ KnowsTurn(k)
      BY <2>1 DEF Turn, Phases, KnowsTurn, Streaming, RowsOK
    <3>2. turns' = [turns EXCEPT ![t] = k]
      BY <2>1, <2>2 DEF TurnsOK
    <3> HIDE DEF k
    <3>3. (IF turns[t].some THEN "partial" ELSE "none") \in Texts
      BY DEF Texts
    <3>4. RowsOK'
      BY <2>2, <3>3, InsertedRow
    <3> QED
      BY <1>12, <3>1, <3>2, <3>4, OneTurn DEF CallTools, RestOK
  <2>3. CASE turns' = [turns EXCEPT ![t].pc = "tools"] /\ UNCHANGED <<messages, now>>
    <3> DEFINE k == [turns[t] EXCEPT !.pc = "tools"]
    <3>1. k \in Turn /\ KnowsTurn(k)
      BY <2>1 DEF Turn, Phases, KnowsTurn, Streaming
    <3> QED
      BY <1>12, <2>3, <3>1, OneTurn, FewerRows DEF CallTools, RestOK
  <2> QED
    BY <1>12, <2>2, <2>3 DEF CallTools
<1>13. ASSUME NEW t \in Turns, RunTool(t)
       PROVE  RowsOK' /\ TurnsOK' /\ RestOK'
  <2> DEFINE k == [turns[t] EXCEPT !.pc = "stream", !.rounds = @ + 1,
                                   !.some = @ \/ turns[t].rounds + 1 >= MaxRounds]
  <2>1. turns[t] \in Turn /\ KnowsTurn(turns[t]) /\ turns[t].pc = "tools"
    BY <1>13 DEF TurnsOK, TurnsKnow, RunTool
  <2>2. turns' = [turns EXCEPT ![t] = k]
    BY <1>13, <2>1 DEF TurnsOK, RunTool
  <2>3. PICK said \in BOOLEAN : said = (turns[t].some \/ turns[t].rounds + 1 >= MaxRounds)
    OBVIOUS
  <2>4. k = [turns[t] EXCEPT !.pc = "stream", !.rounds = @ + 1, !.some = said]
    BY <2>3
  <2> HIDE DEF k
  <2>5. k \in Turn /\ KnowsTurn(k)
    <3>1. turns[t].rounds + 1 \in Nat /\ turns[t].how = "running" /\ ~turns[t].late
      BY <2>1 DEF Turn, KnowsTurn
    <3>2. k \in Turn
      BY <2>1, <2>4, <3>1 DEF Turn, Phases
    <3>3. k.pc = "stream" /\ k.how = "running" /\ ~k.late
      BY <2>1, <2>4, <3>1 DEF Turn
    <3> QED
      BY <3>2, <3>3 DEF KnowsTurn, Streaming
  <2>6. TurnsOK'
    BY <2>2, <2>5, OneTurn
  <2>7. RowsOK'
    <3>1. turns[t].reply \in Nat
      BY <2>1 DEF Turn
    <3>2. CASE messages' = Inserted(t, "tool", turns[t].reply, "full") /\ now' = now + 1
      BY <3>1, <3>2, InsertedRow DEF Texts
    <3>3. CASE UNCHANGED <<messages, now>>
      BY <3>3, FewerRows
    <3> QED
      BY <1>13, <3>2, <3>3 DEF RunTool
  <2> QED
    BY <1>13, <2>6, <2>7 DEF RunTool, RestOK
<1>14. ASSUME NEW t \in Turns, Complete(t)
       PROVE  RowsOK' /\ TurnsOK' /\ RestOK'
  <2>1. turns[t] \in Turn /\ KnowsTurn(turns[t]) /\ turns[t].pc = "stream"
    BY <1>14 DEF TurnsOK, TurnsKnow, Complete
  <2>2. RowsOK'
    <3> DEFINE r == turns[t].reply
               text == IF turns[t].some THEN "full" ELSE "none"
    <3>1. text \in Texts
      BY DEF Texts
    <3>2. \/ messages' = Inserted(t, "assistant", None, text) /\ now' = now + 1
          \/ messages' = Updated(r, text) /\ now' = now + 1
          \/ UNCHANGED <<messages, now>>
      BY <1>14 DEF Complete, SaveReply
    <3> HIDE DEF text, r
    <3>3. CASE messages' = Inserted(t, "assistant", None, text) /\ now' = now + 1
      BY <3>1, <3>3, InsertedRow
    <3>4. CASE messages' = Updated(r, text) /\ now' = now + 1
      BY <3>1, <3>4, UpdatedRow
    <3>5. CASE UNCHANGED <<messages, now>>
      BY <3>5, FewerRows
    <3> QED
      BY <3>2, <3>3, <3>4, <3>5
  <2>3. TurnsOK'
    <3>1. PICK how \in {"done", "unsaved"} :
              \/ turns' = [turns EXCEPT ![t].pc = "after", ![t].how = how]
              \/ turns' = Ended(t, how)
      BY <1>14 DEF Complete
    <3> DEFINE k == [turns[t] EXCEPT !.pc = "after", !.how = how]
    <3>2. k \in Turn /\ KnowsTurn(k)
      BY <2>1 DEF Turn, Phases, KnowsTurn, Streaming
    <3>3. turns' = [turns EXCEPT ![t] = k] \/ turns' = Ended(t, how)
      BY <2>1, <3>1 DEF TurnsOK
    <3> HIDE DEF k
    <3> QED
      BY <3>2, <3>3, OneTurn, EndedTurn
  <2>4. ui' \in {Told(t), Lost(t)} /\ tasks' \in {tasks, Unregistered(t)}
    BY <1>14 DEF Complete
  <2>5. UNCHANGED <<frames, rewinds, drops>>
    BY <1>14 DEF Complete
  <2> QED
    BY <2>2, <2>3, <2>4, <2>5, ToldTyped DEF RestOK
<1>15. ASSUME NEW t \in Turns, After(t)
       PROVE  RowsOK' /\ TurnsOK' /\ RestOK'
  <2>1. turns[t].how \in {"running", "done", "broken", "cancelled", "refused", "unsaved"}
    BY DEF TurnsOK, Turn
  <2> QED
    BY <1>15, <2>1, EndedTurn, FewerRows, ToldTyped DEF After, RestOK
<1>16. ASSUME NEW t \in Turns, Break(t)
       PROVE  RowsOK' /\ TurnsOK' /\ RestOK'
  <2>1. RowsOK' /\ TurnsOK'
    <3>1. CASE SavePartial(t, TRUE, "broken")
      BY <3>1, SavePartialType
    <3>2. CASE turns' = Ended(t, "broken") /\ UNCHANGED <<messages, now>>
      BY <3>2, EndedTurn, FewerRows
    <3> QED
      BY <1>16, <3>1, <3>2 DEF Break
  <2> QED
    BY <1>16, <2>1, ToldTyped DEF Break, Tell, RestOK
<1>17. ASSUME NEW t \in Turns, SocketDies(t) \/ Stopped(t)
       PROVE  RowsOK' /\ TurnsOK' /\ RestOK'
  <2>1. SavePartial(t, FALSE, "broken") \/ SavePartial(t, FALSE, "cancelled")
    BY <1>17 DEF SocketDies, Stopped
  <2>2. RowsOK' /\ TurnsOK'
    BY <2>1, SavePartialType
  <2> QED
    BY <1>17, <2>2, ToldTyped DEF SocketDies, Stopped, Tell, RestOK
<1>18. CASE UNCHANGED vars
  BY <1>18, FewerRows, SameTurns DEF vars, RestOK
<1> QED
  BY <1>1, <1>2, <1>3, <1>4, <1>5, <1>6, <1>7, <1>8, <1>9, <1>10, <1>11, <1>12, <1>13, <1>14,
     <1>15, <1>16, <1>17, <1>18 DEF Next, Step

\* Rows, turns, registry, inputs and queues are what the code keeps in them, and
\* a turn knows in every phase what its local variables hold then.
THEOREM TypeCorrect == Spec => []TypeOK
<1>1. TypeInv => TypeOK
  BY DEF TypeInv
<1> QED
  BY <1>1, TypeInit, TypeStep, PTL DEF Spec

-----------------------------------------------------------------------------
(* A locked tab is answered *)

\* A step of a turn: it unlocks its tab, or tries to and the event is lost, or it
\* leaves the tab no worse than before.
LEMMA TurnWaits ==
    ASSUME WaitInv, NEW t \in Turns, turns[t].pc # "unused",
           \A u \in Turns : u # t => turns'[u] = turns[u],
           turns'[t].pc # "unused", turns'[t].tab \in {turns[t].tab, Gone},
           UNCHANGED tasks \/ tasks' = Unregistered(t), UNCHANGED frames,
           \/ ui' \in {Told(t), Lost(t)}
           \/ /\ UNCHANGED ui
              /\ \/ turns[t].tab = Gone
                 \/ turns[t].pc \in {"after", "ended"}
                 \/ /\ turns'[t].tab = turns[t].tab
                    /\ turns'[t].pc \notin {"after", "ended"}
    PROVE  RegistryHolds' /\ WaitHolds'
<1>1. turns[t].tab \in Tabs \cup {Gone} /\ tasks \in [Tabs -> Turns \cup {None}]
      /\ ui \in [Tabs -> {"open", "waiting", "stopping", "lost"}]
  BY DEF WaitInv, TypeInv, TypeOK, Turn
<1>2. RegistryHolds'
  <2> SUFFICES ASSUME NEW b \in Tabs, tasks'[b] # None
               PROVE  turns'[tasks'[b]].tab \in {b, Gone} /\ turns'[tasks'[b]].pc # "unused"
    BY DEF RegistryHolds, None
  <2>1. tasks'[b] = tasks[b]
    BY <1>1 DEF Unregistered, None
  <2>2. tasks[b] \in Turns
    BY <1>1, <2>1
  <2>3. turns[tasks[b]].tab \in {b, Gone} /\ turns[tasks[b]].pc # "unused"
    BY <2>1 DEF WaitInv, RegistryHolds
  <2> QED
    BY <2>1, <2>2, <2>3
<1>3. WaitHolds'
  <2> SUFFICES ASSUME NEW b \in Tabs, ui'[b] = "waiting", frames'[b] = <<>>
               PROVE  \E u \in Turns : turns'[u].tab = b /\ Generating(u)'
    <3>1. ASSUME NEW b \in Tabs, ui'[b] = "waiting", frames'[b] # <<>>
          PROVE  frames'[b][Len(frames'[b])].type # "stop"
      <4>1. ui[b] = "waiting"
        BY <1>1, <3>1 DEF Told, Lost
      <4> QED
        BY <3>1, <4>1 DEF WaitInv, WaitHolds
    <3> QED
      BY <3>1 DEF WaitHolds
  <2>1. ui[b] = "waiting" /\ frames[b] = <<>>
    BY <1>1 DEF Told, Lost
  <2>2. PICK u \in Turns : turns[u].tab = b /\ Generating(u)
    BY <2>1 DEF WaitInv, WaitHolds
  <2>3. b # Gone
    BY TabsAssumption
  <2>4. CASE u # t
    BY <2>2, <2>4 DEF Generating, Live
  <2>5. CASE u = t /\ ui' \in {Told(t), Lost(t)}
    <3>1. ui'[b] \in {"open", "lost"}
      BY <1>1, <2>1, <2>2, <2>3, <2>5 DEF Told, Lost
    <3> QED
      BY <3>1
  <2>6. CASE u = t /\ UNCHANGED ui
    <3>1. turns[t].tab = b /\ turns[t].pc \notin {"after", "ended"}
      BY <2>2, <2>6 DEF Generating, Live
    <3>2. ui' \notin {Told(t), Lost(t)}
      BY <1>1, <2>1, <2>3, <2>6, <3>1 DEF Told, Lost
    <3>3. turns'[t].tab = turns[t].tab /\ turns'[t].pc \notin {"after", "ended"}
      BY <2>3, <3>1, <3>2
    <3> QED
      BY <3>1, <3>3 DEF Generating, Live
  <2> QED
    BY <2>4, <2>5, <2>6
<1> QED
  BY <1>2, <1>3

\* A step of a tab that leaves the turns alone.
LEMMA TabWaits ==
    ASSUME WaitInv, NEW b \in Tabs, UNCHANGED <<turns, tasks>>,
           \A c \in Tabs : c # b => ui'[c] = ui[c] /\ frames'[c] = frames[c],
           ui'[b] = "waiting" => frames'[b] # <<>> /\ frames'[b][Len(frames'[b])].type # "stop"
    PROVE  RegistryHolds' /\ WaitHolds'
<1>1. RegistryHolds'
  BY DEF WaitInv, RegistryHolds
<1>2. ASSUME NEW c \in Tabs, ui'[c] = "waiting"
      PROVE  IF frames'[c] = <<>> THEN \E t \in Turns : turns'[t].tab = c /\ Generating(t)'
                                  ELSE frames'[c][Len(frames'[c])].type # "stop"
  <2>1. CASE c = b
    BY <1>2, <2>1
  <2>2. CASE c # b
    BY <1>2, <2>2 DEF WaitInv, WaitHolds, Generating, Live
  <2> QED
    BY <2>1, <2>2
<1> QED
  BY <1>1, <1>2 DEF WaitHolds

LEMMA WaitInit == Init => WaitInv
<1> SUFFICES ASSUME Init PROVE RegistryHolds /\ WaitHolds
  BY TypeInit DEF WaitInv
<1> QED
  BY DEF Init, RegistryHolds, WaitHolds

\* What a cancelled task leaves to the turns of the other tabs.
LEMMA CutTurns ==
    ASSUME WaitInv, NEW b \in Tabs, NEW t \in Turns
    PROVE  /\ Cancelled({tasks[b]})[t].tab \in {turns[t].tab, Gone}
           /\ turns[t].pc # "unused" => Cancelled({tasks[b]})[t].pc # "unused"
           /\ turns[t].tab \notin {b, Gone} => Cancelled({tasks[b]})[t] = turns[t]
<1> DEFINE cut == Cancelled({tasks[b]})
<1>1. turns \in [Turns -> Turn] /\ TurnsKnow /\ turns[t] \in Turn
  BY DEF WaitInv, TypeInv, TypeOK
<1>2. \/ cut[t] = turns[t]
      \/ t = tasks[b] /\ cut[t] = [turns[t] EXCEPT !.pc = "stopping"]
      \/ t = tasks[b] /\ cut[t].tab = Gone /\ cut[t].pc = "ended"
  <2> DEFINE ts == {tasks[b]}
  <2>1. t \in ts => t = tasks[b]
    OBVIOUS
  <2> HIDE DEF ts
  <2>2. \/ Cancelled(ts)[t] = turns[t]
        \/ t \in ts /\ Cancelled(ts)[t] = [turns[t] EXCEPT !.pc = "stopping"]
        \/ t \in ts /\ Cancelled(ts)[t].tab = Gone /\ Cancelled(ts)[t].pc = "ended"
    BY <1>1, CancelledTurns
  <2> QED
    BY <2>1, <2>2 DEF ts
<1>3. t = tasks[b] => turns[t].tab \in {b, Gone}
  BY DEF WaitInv, RegistryHolds, Turns, None
<1> HIDE DEF cut
<1>4. cut[t].tab \in {turns[t].tab, Gone} /\ (turns[t].pc # "unused" => cut[t].pc # "unused")
  BY <1>1, <1>2 DEF Turn
<1> QED
  BY <1>2, <1>3, <1>4 DEF cut

LEMMA WaitTabStep ==
    ASSUME WaitInv, NEW b \in Tabs,
           Send(b) \/ ClickStop(b) \/ Rewind(b) \/ Drop(b) \/ StartTurn(b) \/ StopTurn(b)
    PROVE  RegistryHolds' /\ WaitHolds'
<1>0. /\ RowsOK /\ TurnsOK /\ RestOK /\ RegistryHolds /\ WaitHolds
      /\ frames \in [Tabs -> Seq(Frame)] /\ ui \in [Tabs -> {"open", "waiting", "stopping", "lost"}]
      /\ tasks \in [Tabs -> Turns \cup {None}] /\ turns \in [Turns -> Turn]
  BY TypeParts DEF WaitInv, RestOK, TurnsOK
<1>1. CASE Send(b)
  <2>1. [type |-> "send", pivot |-> None] \in Frame
    BY DEF Frame, None
  <2>2. /\ frames'[b] # <<>> /\ frames'[b][Len(frames'[b])] = [type |-> "send", pivot |-> None]
        /\ \A c \in Tabs : c # b => frames'[c] = frames[c]
    BY <1>0, <1>1, <2>1, FrameSent DEF Send
  <2>3. \A c \in Tabs : c # b => ui'[c] = ui[c]
    BY <1>0, <1>1 DEF Send
  <2> QED
    BY <1>1, <2>2, <2>3, TabWaits DEF Send
<1>2. CASE ClickStop(b)
  <2>1. \A c \in Tabs : c # b => ui'[c] = ui[c] /\ frames'[c] = frames[c]
    BY <1>0, <1>2 DEF ClickStop
  <2>2. ui'[b] = "stopping"
    BY <1>0, <1>2 DEF ClickStop
  <2> QED
    BY <1>2, <2>1, <2>2, TabWaits DEF ClickStop
<1>3. CASE Rewind(b)
  <2>1. PICK m \in messages : RewindTo(b, m)
    BY <1>3 DEF Rewind
  <2>2. UNCHANGED <<turns, tasks>>
    BY <1>3 DEF Rewind
  <2>3. CASE UNCHANGED <<frames, ui>>
    BY <1>0, <2>2, <2>3 DEF RegistryHolds, WaitHolds, Generating, Live
  <2>4. ASSUME NEW p \in Nat, ui' = [ui EXCEPT ![b] = "waiting"],
               frames' = [frames EXCEPT ![b] = Append(@, [type |-> "again", pivot |-> p])]
        PROVE  RegistryHolds' /\ WaitHolds'
    <3>1. [type |-> "again", pivot |-> p] \in Frame
      BY DEF Frame
    <3>2. /\ frames'[b] # <<>> /\ frames'[b][Len(frames'[b])] = [type |-> "again", pivot |-> p]
          /\ \A c \in Tabs : c # b => frames'[c] = frames[c]
      BY <1>0, <2>4, <3>1, FrameSent
    <3>3. \A c \in Tabs : c # b => ui'[c] = ui[c]
      BY <1>0, <2>4
    <3> QED
      BY <2>2, <3>2, <3>3, TabWaits
  <2> QED
    BY <1>0, <2>1, <2>3, <2>4, RewindRows
<1>4. CASE Drop(b)
  <2> DEFINE cut == Cancelled({tasks[b]})
  <2>1. \A t \in Turns : turns'[t] = IF cut[t].tab = b THEN [cut[t] EXCEPT !.tab = Gone] ELSE cut[t]
    BY <1>4 DEF Drop
  <2>2. \A t \in Turns : /\ cut[t] \in Turn /\ cut[t].tab \in {turns[t].tab, Gone}
                         /\ turns[t].pc # "unused" => cut[t].pc # "unused"
                         /\ turns[t].tab \notin {b, Gone} => cut[t] = turns[t]
    BY <1>0, CutTurns, CancelledTyped DEF TurnsOK
  <2>3. /\ tasks' = [tasks EXCEPT ![b] = None] /\ frames' = [frames EXCEPT ![b] = <<>>]
        /\ ui' = [ui EXCEPT ![b] = "open"]
    BY <1>4 DEF Drop
  <2> HIDE DEF cut
  <2>4. \A t \in Turns : /\ turns'[t].tab \in {turns[t].tab, Gone}
                         /\ turns[t].pc # "unused" => turns'[t].pc # "unused"
                         /\ turns[t].tab \notin {b, Gone} => turns'[t] = turns[t]
    BY <2>1, <2>2 DEF Turn
  <2>5. RegistryHolds'
    <3> SUFFICES ASSUME NEW c \in Tabs, tasks'[c] # None
                 PROVE  turns'[tasks'[c]].tab \in {c, Gone} /\ turns'[tasks'[c]].pc # "unused"
      BY DEF RegistryHolds, None
    <3>1. tasks'[c] = tasks[c] /\ tasks[c] \in Turns
      BY <1>0, <2>3
    <3>2. turns[tasks[c]].tab \in {c, Gone} /\ turns[tasks[c]].pc # "unused"
      BY <1>0, <3>1 DEF RegistryHolds
    <3> QED
      BY <2>4, <3>1, <3>2
  <2>6. ASSUME NEW c \in Tabs, ui'[c] = "waiting"
        PROVE  IF frames'[c] = <<>> THEN \E t \in Turns : turns'[t].tab = c /\ Generating(t)'
                                    ELSE frames'[c][Len(frames'[c])].type # "stop"
    <3>1. c # b /\ ui[c] = "waiting" /\ frames'[c] = frames[c] /\ c # Gone
      BY <1>0, <2>3, <2>6, TabsAssumption
    <3>2. CASE frames[c] # <<>>
      BY <1>0, <3>1, <3>2 DEF WaitHolds
    <3>3. CASE frames[c] = <<>>
      <4>1. PICK t \in Turns : turns[t].tab = c /\ Generating(t)
        BY <1>0, <3>1, <3>3 DEF WaitHolds
      <4>2. turns'[t] = turns[t]
        BY <2>4, <3>1, <4>1
      <4> QED
        BY <3>1, <3>3, <4>1, <4>2 DEF Generating, Live
    <3> QED
      BY <3>2, <3>3
  <2> QED
    BY <2>5, <2>6 DEF WaitHolds
<1>5. CASE StartTurn(b)
  <2> DEFINE k == [Unused(b) EXCEPT !.pc = IF Head(frames[b]).type = "again" THEN "load" ELSE "persist",
                                    !.prompt = Head(frames[b]).pivot]
  <2>1. PICK t \in Turns : /\ turns[t].pc = "unused"
                           /\ turns' = [turns EXCEPT ![t] = k] /\ tasks' = [tasks EXCEPT ![b] = t]
    BY <1>5 DEF StartTurn, Fresh
  <2>2. k.tab = b /\ k.pc \in {"load", "persist"}
    BY DEF Unused
  <2> HIDE DEF k
  <2>3. turns'[t] = k /\ \A u \in Turns : u # t => turns'[u] = turns[u]
    BY <1>0, <2>1
  <2>4. /\ frames'[b] # <<>> => frames'[b][Len(frames'[b])] = frames[b][Len(frames[b])]
        /\ \A c \in Tabs : c # b => frames'[c] = frames[c]
        /\ frames[b] # <<>>
    BY <1>0, <1>5, FrameTaken DEF StartTurn
  <2>5. RegistryHolds'
    <3> SUFFICES ASSUME NEW c \in Tabs, tasks'[c] # None
                 PROVE  turns'[tasks'[c]].tab \in {c, Gone} /\ turns'[tasks'[c]].pc # "unused"
      BY DEF RegistryHolds, None
    <3>1. CASE c = b
      BY <1>0, <2>1, <2>2, <2>3, <3>1
    <3>2. CASE c # b
      <4>1. tasks'[c] = tasks[c] /\ tasks[c] \in Turns
        BY <1>0, <2>1, <3>2
      <4>2. turns[tasks[c]].tab \in {c, Gone} /\ turns[tasks[c]].pc # "unused"
        BY <1>0, <4>1 DEF RegistryHolds
      <4> QED
        BY <2>1, <2>3, <4>1, <4>2
    <3> QED
      BY <3>1, <3>2
  <2>6. ASSUME NEW c \in Tabs, ui'[c] = "waiting"
        PROVE  IF frames'[c] = <<>> THEN \E u \in Turns : turns'[u].tab = c /\ Generating(u)'
                                    ELSE frames'[c][Len(frames'[c])].type # "stop"
    <3>1. ui[c] = "waiting"
      BY <1>5, <2>6 DEF StartTurn
    <3>2. CASE c = b /\ frames'[b] # <<>>
      BY <1>0, <2>4, <3>1, <3>2 DEF WaitHolds
    <3>3. CASE c = b /\ frames'[b] = <<>>
      BY <2>2, <2>3, <3>3 DEF Generating, Live
    <3>4. CASE c # b /\ frames[c] # <<>>
      BY <1>0, <2>4, <3>1, <3>4 DEF WaitHolds
    <3>5. CASE c # b /\ frames[c] = <<>>
      <4>1. PICK u \in Turns : turns[u].tab = c /\ Generating(u)
        BY <1>0, <3>1, <3>5 DEF WaitHolds
      <4>2. turns'[u] = turns[u]
        BY <2>1, <2>3, <4>1 DEF Generating, Live
      <4> QED
        BY <2>4, <3>5, <4>1, <4>2 DEF Generating, Live
    <3> QED
      BY <3>2, <3>3, <3>4, <3>5
  <2> QED
    BY <2>5, <2>6 DEF WaitHolds
<1>6. CASE StopTurn(b)
  <2>1. /\ frames'[b] # <<>> => frames'[b][Len(frames'[b])] = frames[b][Len(frames[b])]
        /\ frames'[b] = <<>> => Head(frames[b]) = frames[b][Len(frames[b])]
        /\ \A c \in Tabs : c # b => frames'[c] = frames[c]
        /\ frames[b] # <<>> /\ Head(frames[b]).type = "stop"
    BY <1>0, <1>6, FrameTaken DEF StopTurn
  <2>2. /\ \A c \in Tabs : ui'[c] = "waiting" => ui[c] = "waiting"
        /\ \A c \in Tabs : tasks'[c] # None => tasks'[c] = tasks[c]
    BY <1>0, <1>6 DEF StopTurn
  <2>3. \A t \in Turns : /\ turns'[t].tab \in {turns[t].tab, Gone}
                         /\ turns[t].pc # "unused" => turns'[t].pc # "unused"
                         /\ turns[t].tab \notin {b, Gone} => turns'[t] = turns[t]
    <3>1. UNCHANGED turns \/ turns' = Cancelled({tasks[b]})
      BY <1>6 DEF StopTurn
    <3> QED
      BY <3>1, CutTurns
  <2>4. RegistryHolds'
    <3> SUFFICES ASSUME NEW c \in Tabs, tasks'[c] # None
                 PROVE  turns'[tasks'[c]].tab \in {c, Gone} /\ turns'[tasks'[c]].pc # "unused"
      BY DEF RegistryHolds, None
    <3>1. tasks'[c] = tasks[c] /\ tasks[c] \in Turns
      BY <1>0, <2>2
    <3>2. turns[tasks[c]].tab \in {c, Gone} /\ turns[tasks[c]].pc # "unused"
      BY <1>0, <3>1 DEF RegistryHolds
    <3> QED
      BY <2>3, <3>1, <3>2
  <2>5. ASSUME NEW c \in Tabs, ui'[c] = "waiting"
        PROVE  IF frames'[c] = <<>> THEN \E t \in Turns : turns'[t].tab = c /\ Generating(t)'
                                    ELSE frames'[c][Len(frames'[c])].type # "stop"
    <3>1. ui[c] = "waiting" /\ c # Gone
      BY <2>2, <2>5, TabsAssumption
    <3>2. CASE c = b
      <4>1. frames[b][Len(frames[b])].type # "stop"
        BY <1>0, <2>1, <3>1, <3>2 DEF WaitHolds
      <4> QED
        BY <2>1, <3>2, <4>1
    <3>3. CASE c # b /\ frames[c] # <<>>
      BY <1>0, <2>1, <3>1, <3>3 DEF WaitHolds
    <3>4. CASE c # b /\ frames[c] = <<>>
      <4>1. PICK t \in Turns : turns[t].tab = c /\ Generating(t)
        BY <1>0, <3>1, <3>4 DEF WaitHolds
      <4>2. turns'[t] = turns[t]
        BY <2>3, <3>1, <3>4, <4>1
      <4> QED
        BY <2>1, <3>4, <4>1, <4>2 DEF Generating, Live
    <3> QED
      BY <3>2, <3>3, <3>4
  <2> QED
    BY <2>4, <2>5 DEF WaitHolds
<1> QED
  BY <1>1, <1>2, <1>3, <1>4, <1>5, <1>6

LEMMA WaitTurnStep ==
    ASSUME WaitInv, NEW t \in Turns,
           \/ Step(t) \/ LatePersist(t) \/ Delta(t) \/ CallTools(t) \/ RunTool(t)
           \/ Complete(t) \/ SocketDies(t)
    PROVE  RegistryHolds' /\ WaitHolds'
<1>0. RowsOK /\ TurnsOK /\ RestOK /\ turns \in [Turns -> Turn] /\ turns[t] \in Turn
  BY TypeParts DEF WaitInv, TurnsOK
<1>1. ASSUME Refuse(t, FALSE) \/ Refuse(t, TRUE), UNCHANGED frames, turns[t].pc # "unused"
      PROVE  RegistryHolds' /\ WaitHolds'
  <2>1. ui' \in {Told(t), Lost(t)} /\ tasks' = Unregistered(t)
    BY <1>1 DEF Refuse, Tell
  <2>2. /\ turns'[t].pc = "ended" /\ turns'[t].tab = Gone
        /\ \A u \in Turns : u # t => turns'[u] = turns[u]
    BY <1>0, <1>1, RefusedTurn
  <2> QED
    BY <1>1, <2>1, <2>2, TurnWaits
<1>2. ASSUME NEW how \in {"broken", "cancelled", "unsaved", "done"}, turns' = Ended(t, how),
             UNCHANGED frames, turns[t].pc # "unused", tasks' = Unregistered(t),
             ui' \in {Told(t), Lost(t)}
      PROVE  RegistryHolds' /\ WaitHolds'
  <2>1. turns'[t].pc = "ended" /\ turns'[t].tab = Gone /\ \A u \in Turns : u # t => turns'[u] = turns[u]
    BY <1>0, <1>2, EndedTurn
  <2> QED
    BY <1>2, <2>1, TurnWaits
<1>3. CASE Load(t)
  <2>1. CASE /\ UNCHANGED <<tasks, ui, frames>>
             /\ turns' = [turns EXCEPT ![t].pc = "prepare", ![t].prompt = PivotRow(turns[t].prompt)]
    <3>1. /\ turns'[t].pc = "prepare" /\ turns'[t].tab = turns[t].tab
          /\ \A u \in Turns : u # t => turns'[u] = turns[u]
      BY <1>0, <2>1 DEF Turn
    <3> QED
      BY <1>3, <2>1, <3>1, TurnWaits DEF Load
  <2> QED
    BY <1>1, <1>3, <2>1 DEF Load
<1>4. CASE Persist(t)
  <2>1. CASE /\ UNCHANGED <<tasks, ui, frames>>
             /\ turns' = [turns EXCEPT ![t].pc = "prepare", ![t].prompt = now]
    <3>1. /\ turns'[t].pc = "prepare" /\ turns'[t].tab = turns[t].tab
          /\ \A u \in Turns : u # t => turns'[u] = turns[u]
      BY <1>0, <2>1 DEF Turn
    <3> QED
      BY <1>4, <2>1, <3>1, TurnWaits DEF Persist
  <2> QED
    BY <1>1, <1>4, <2>1 DEF Persist
<1>5. CASE LatePersist(t)
  <2>1. turns[t].pc = "ended"
    BY <1>0, <1>5 DEF LatePersist, TurnsOK, TurnsKnow, KnowsTurn
  <2>2. /\ turns'[t].pc = "ended" /\ turns'[t].tab = turns[t].tab
        /\ \A u \in Turns : u # t => turns'[u] = turns[u]
    BY <1>0, <1>5, <2>1 DEF LatePersist, Turn
  <2> QED
    BY <1>5, <2>1, <2>2, TurnWaits DEF LatePersist
<1>6. CASE Prepare(t)
  <2>1. CASE turns' = [turns EXCEPT ![t].pc = "stream"] /\ UNCHANGED <<tasks, ui, frames>>
    <3>1. /\ turns'[t].pc = "stream" /\ turns'[t].tab = turns[t].tab
          /\ \A u \in Turns : u # t => turns'[u] = turns[u]
      BY <1>0, <2>1 DEF Turn
    <3> QED
      BY <1>6, <2>1, <3>1, TurnWaits DEF Prepare
  <2>2. CASE /\ turns' = Ended(t, "broken") /\ UNCHANGED frames
             /\ tasks' = Unregistered(t) /\ ui' = Lost(t)
    BY <1>2, <1>6, <2>2 DEF Prepare
  <2> QED
    BY <1>1, <1>6, <2>1, <2>2 DEF Prepare
<1>7. CASE Delta(t) \/ CallTools(t) \/ RunTool(t)
  <2>1. /\ turns'[t].pc \in {"stream", "tools"} /\ turns'[t].tab = turns[t].tab
        /\ \A u \in Turns : u # t => turns'[u] = turns[u]
    BY <1>0, <1>7 DEF Delta, CallTools, RunTool, Turn
  <2>2. turns[t].pc # "unused" /\ UNCHANGED <<tasks, ui, frames>>
    BY <1>7 DEF Delta, CallTools, RunTool
  <2> QED
    BY <2>1, <2>2, TurnWaits
<1>8. CASE Complete(t)
  <2>0. turns[t].pc = "stream" /\ UNCHANGED frames
    BY <1>8 DEF Complete
  <2>1. ASSUME NEW how \in {"done", "unsaved"}, ui' = Told(t), UNCHANGED tasks,
               turns' = [turns EXCEPT ![t].pc = "after", ![t].how = how]
        PROVE  RegistryHolds' /\ WaitHolds'
    <3>1. /\ turns'[t].pc = "after" /\ turns'[t].tab = turns[t].tab
          /\ \A u \in Turns : u # t => turns'[u] = turns[u]
      BY <1>0, <2>1 DEF Turn
    <3> QED
      BY <2>0, <2>1, <3>1, TurnWaits
  <2>2. ASSUME NEW how \in {"done", "unsaved"}, turns' = Ended(t, how),
               tasks' = Unregistered(t), ui' = Lost(t)
        PROVE  RegistryHolds' /\ WaitHolds'
    BY <1>2, <2>0, <2>2
  <2> QED
    BY <1>8, <2>1, <2>2 DEF Complete
<1>9. CASE After(t)
  <2>1. turns'[t].pc = "ended" /\ turns'[t].tab = Gone /\ \A u \in Turns : u # t => turns'[u] = turns[u]
    BY <1>0, <1>9, EndedTurn DEF After, Turn
  <2> QED
    BY <1>9, <2>1, TurnWaits DEF After
<1>10. CASE Break(t) \/ Stopped(t) \/ SocketDies(t)
  <2>1. PICK how \in {"broken", "cancelled", "unsaved"} : turns' = Ended(t, how)
    BY <1>10 DEF Break, Stopped, SocketDies, SavePartial
  <2>2. UNCHANGED frames /\ turns[t].pc # "unused"
    BY <1>10 DEF Break, Stopped, SocketDies
  <2>3. tasks' = Unregistered(t)
    BY <1>10 DEF Break, Stopped, SocketDies
  <2>4. ui' \in {Told(t), Lost(t)}
    BY <1>10 DEF Break, Stopped, SocketDies, Tell
  <2> QED
    BY <1>2, <2>1, <2>2, <2>3, <2>4
<1> QED
  BY <1>3, <1>4, <1>5, <1>6, <1>7, <1>8, <1>9, <1>10 DEF Step

\* While a tab's input is locked, a turn of that tab is generating, or a frame of
\* it that asks for one is on its way, or the event that would have unlocked it
\* timed out: no interleaving of sends, stops, lost connections, time limits and
\* failed writes leaves the page waiting for a turn that has not tried.
THEOREM WaitJustified == Spec => []WaitIsJustified
<1>1. WaitInv /\ [Next]_vars => WaitInv'
  <2> SUFFICES ASSUME WaitInv, [Next]_vars
               PROVE  RegistryHolds' /\ WaitHolds'
    BY TypeStep DEF WaitInv
  <2>1. CASE UNCHANGED vars
    BY <2>1 DEF vars, WaitInv, RegistryHolds, WaitHolds, Generating, Live
  <2> QED
    BY <2>1, WaitTabStep, WaitTurnStep DEF Next
<1>2. WaitInv => WaitIsJustified
  BY DEF WaitInv, WaitHolds, WaitIsJustified, Answering
<1> QED
  BY <1>1, <1>2, WaitInit, PTL DEF Spec

\* Without timeouts an event is lost only with its tab.
LEMMA NothingLost ==
    ASSUME "send" \notin Faults, TypeOK, NEW t \in Turns
    PROVE  /\ Unsendable(t) => Lost(t) = ui
           /\ \A b \in Tabs : Told(t)[b] \in {"open", ui[b]}
BY DEF Unsendable, Lost, Told, TypeOK

\* What the exception of WaitJustified stands for: as long as _safe_send delivers
\* every event to an open socket, no tab is ever left behind with its input locked.
THEOREM LockJustified ==
    ASSUME "send" \notin Faults
    PROVE  Spec => []LockIsJustified
<1> DEFINE NoneLost == \A b \in Tabs : ui[b] # "lost"
<1>1. Init => NoneLost
  BY DEF Init
<1>2. TypeOK /\ NoneLost /\ [Next]_vars => NoneLost'
  <2> SUFFICES ASSUME TypeOK, NoneLost, [Next]_vars
               PROVE  NoneLost'
    OBVIOUS
  <2>1. ui \in [Tabs -> {"open", "waiting", "stopping", "lost"}]
    BY DEF TypeOK
  <2>2. CASE \E b \in Tabs : Send(b) \/ ClickStop(b) \/ Rewind(b) \/ Drop(b) \/ StartTurn(b) \/ StopTurn(b)
    BY <2>1, <2>2 DEF Send, ClickStop, Rewind, RewindTo, Drop, StartTurn, StopTurn
  <2>3. ASSUME NEW t \in Turns, ui' = Told(t) \/ ui' = ui
        PROVE  NoneLost'
    BY <2>3, NothingLost
  <2>4. ASSUME NEW t \in Turns, Tell(t) \/ (Unsendable(t) /\ ui' = Lost(t))
        PROVE  NoneLost'
    BY <2>3, <2>4, NothingLost DEF Tell
  <2>5. CASE \E t \in Turns : Load(t) \/ Persist(t) \/ Prepare(t)
    BY <2>3, <2>4, <2>5 DEF Load, Persist, Prepare, Refuse
  <2>6. CASE \E t \in Turns : Break(t) \/ Stopped(t) \/ SocketDies(t) \/ Complete(t)
    BY <2>3, <2>4, <2>6 DEF Break, Stopped, SocketDies, Complete
  <2>7. CASE \E t \in Turns : After(t) \/ LatePersist(t) \/ Delta(t) \/ CallTools(t) \/ RunTool(t)
    BY <2>3, <2>7 DEF After, LatePersist, Delta, CallTools, RunTool
  <2>8. CASE UNCHANGED vars
    BY <2>8 DEF vars
  <2> QED
    BY <2>2, <2>5, <2>6, <2>7, <2>8 DEF Next, Step
<1>3. WaitIsJustified /\ NoneLost => LockIsJustified
  BY DEF WaitIsJustified, LockIsJustified
<1> QED
  BY <1>1, <1>2, <1>3, TypeCorrect, WaitJustified, PTL DEF Spec

-----------------------------------------------------------------------------
(* The thread stays a dialogue *)

\* A step leaves the rows of every turn but t's alone, takes new names for new
\* rows, and keeps every user row.
RowStep(t) ==
    /\ \A x \in messages' : x \in messages \/ x.turn = t
    /\ \A x \in messages' : x.id = now \/ \E m \in messages : m.id = x.id /\ m.turn = x.turn /\ m.role = x.role
    /\ now' >= now
    /\ \A v \in Users : v \in messages'

\* A step writes no row of turn u but a user row.
NoReplyOf(u) == \A x \in messages' : x.turn = u /\ x.role # "user" => x \in messages

\* A step of turn u that goes with the replies as they are.
TurnStays(u) ==
    /\ turns'[u].pc \in {"unused", "load", "persist", "prepare"} \/ turns'[u].late => Replies(u) = {}
    /\ turns'[u].pc \in Streaming =>
          \/ turns[u].pc \in Streaming /\ turns'[u].reply = turns[u].reply
          \/ Replies(u) = {} /\ turns'[u].reply = None
    /\ turns[u].pc \in {"after", "ended"} => turns'[u].pc \in {"after", "ended"}
    /\ turns'[u].how \in {"broken", "cancelled"} => turns'[u].how = turns[u].how \/ Replies(u) = {}
PromptStays(u) ==
    /\ turns'[u].prompt = turns[u].prompt \/ Replies(u) = {}
    /\ turns'[u].pc \in Streaming \cup {"prepare"} =>
          \/ turns[u].pc \in Streaming \cup {"prepare"} /\ turns'[u].prompt = turns[u].prompt
          \/ \E v \in messages' : v.role = "user" /\ v.id = turns'[u].prompt

LEMMA WholeStays ==
    ASSUME RowsOK, RowsOK', NEW u \in Turns, Whole(u), NoReplyOf(u), TurnStays(u), now' >= now,
           turns \in [Turns -> Turn],
           \A x \in messages' : x.id = now \/ \E m \in messages : m.id = x.id /\ m.turn = x.turn /\ m.role = x.role
    PROVE  Whole(u)'
<1>1. Replies(u)' \subseteq Replies(u)
  BY DEF Replies, NoReplyOf
<1>2. now \in Nat /\ now' \in Nat
  BY DEF RowsOK
<1>3. ReplyIsKnown(u)'
  <2>1. turns'[u].pc \in {"unused", "load", "persist", "prepare"} \/ turns'[u].late => Replies(u)' = {}
    BY <1>1 DEF TurnStays
  <2>2. ASSUME turns'[u].pc \in Streaming
        PROVE  /\ turns'[u].reply = None => Replies(u)' = {}
               /\ turns'[u].reply # None =>
                     /\ turns'[u].reply < now'
                     /\ \A m \in messages' : m \in Replies(u)' <=> m.id = turns'[u].reply
    <3>1. turns'[u].reply = None => Replies(u)' = {}
      BY <1>1, <2>2 DEF TurnStays, Whole, ReplyIsKnown
    <3>2. ASSUME turns'[u].reply # None
          PROVE  turns'[u].reply < now' /\ \A m \in messages' : m \in Replies(u)' <=> m.id = turns'[u].reply
      <4>1. /\ turns'[u].reply = turns[u].reply /\ turns[u].reply < now
            /\ \A m \in messages : m \in Replies(u) <=> m.id = turns[u].reply
        BY <2>2, <3>2 DEF TurnStays, Whole, ReplyIsKnown
      <4>2. turns[u].reply \in Nat
        BY DEF Turn
      <4>3. turns'[u].reply < now'
        BY <1>2, <4>1, <4>2
      <4>4. ASSUME NEW x \in messages', x.id = turns[u].reply
            PROVE  x \in Replies(u)'
        <5>1. PICK m \in messages : m.id = x.id /\ m.turn = x.turn /\ m.role = x.role
          BY <1>2, <4>1, <4>2, <4>4
        <5>2. m \in Replies(u)
          BY <4>1, <4>4, <5>1
        <5> QED
          BY <5>1, <5>2 DEF Replies
      <4>5. ASSUME NEW x \in messages', x \in Replies(u)'
            PROVE  x.id = turns[u].reply
        BY <1>1, <4>1, <4>5 DEF Replies
      <4> QED
        BY <4>1, <4>3, <4>4, <4>5
    <3> QED
      BY <3>1, <3>2
  <2>3. \A m, n \in Replies(u)' : m = n
    BY <1>1 DEF Whole, ReplyIsKnown
  <2>4. \A m \in Replies(u)' : m.text = "full" => turns'[u].pc \in {"after", "ended"}
    BY <1>1 DEF Whole, ReplyIsKnown, TurnStays
  <2> QED
    BY <2>1, <2>2, <2>3, <2>4 DEF ReplyIsKnown
<1>4. ToolsAreFirst(u)'
  <2> SUFFICES ASSUME NEW m \in Replies(u)', m.text = "full",
                      NEW n \in messages', n.turn = u, n.role = "tool"
               PROVE  n.at < m.at
    BY DEF ToolsAreFirst
  <2>1. n \in messages
    BY DEF NoReplyOf
  <2> QED
    BY <1>1, <2>1 DEF Whole, ToolsAreFirst
<1>5. NotBlank(u)'
  BY <1>1 DEF Whole, NotBlank, TurnStays
<1> QED
  BY <1>3, <1>4, <1>5 DEF Whole

LEMMA AnswersStays ==
    ASSUME NEW u \in Turns, Answers(u), NoReplyOf(u), PromptStays(u), \A v \in Users : v \in messages'
    PROVE  Answers(u)'
<1>1. Replies(u)' \subseteq Replies(u)
  BY DEF Replies, NoReplyOf
<1>2. \A v \in Users : v \in Users'
  BY DEF Users
<1>3. PromptIsThere(u)'
  <2> SUFFICES ASSUME turns'[u].pc \in Streaming \cup {"prepare"}
               PROVE  \E v \in Users' : v.id = turns'[u].prompt
    BY DEF PromptIsThere
  <2>1. CASE turns[u].pc \in Streaming \cup {"prepare"} /\ turns'[u].prompt = turns[u].prompt
    BY <1>2, <2>1 DEF Answers, PromptIsThere
  <2>2. CASE \E v \in messages' : v.role = "user" /\ v.id = turns'[u].prompt
    BY <2>2 DEF Users
  <2> QED
    BY <2>1, <2>2 DEF PromptStays
<1>4. HasPrompt(u)'
  <2> SUFFICES ASSUME NEW m \in Replies(u)'
               PROVE  \E v \in Users' : v.at < m.at /\ v.id = turns'[u].prompt
    BY DEF HasPrompt
  <2>1. PICK v \in Users : v.at < m.at /\ v.id = turns[u].prompt
    BY <1>1 DEF Answers, HasPrompt
  <2>2. turns'[u].prompt = turns[u].prompt
    BY <1>1 DEF PromptStays
  <2> QED
    BY <1>2, <2>1, <2>2
<1> QED
  BY <1>3, <1>4 DEF Answers

\* A turn that ends, or is complete, with its reply written at this very step.
LEMMA WholeWritten ==
    ASSUME RowsOK, NEW t \in Turns, NEW text, now' = now + 1,
           \A x \in Replies(t)' : x.text = text /\ x.at = now,
           \A x, y \in Replies(t)' : x = y,
           \A x \in messages' : x.turn = t /\ x.role = "tool" => x \in messages,
           turns'[t].pc \in {"after", "ended"}, ~turns'[t].late,
           turns'[t].how \in {"broken", "cancelled"} => text # "none"
    PROVE  Whole(t)'
<1>1. ReplyIsKnown(t)'
  BY DEF ReplyIsKnown, Streaming
<1>2. ToolsAreFirst(t)'
  <2> SUFFICES ASSUME NEW m \in Replies(t)', NEW n \in messages', n.turn = t, n.role = "tool"
               PROVE  n.at < m.at
    BY DEF ToolsAreFirst
  <2>1. n \in messages /\ m.at = now
    OBVIOUS
  <2> QED
    BY <2>1 DEF RowsOK, RowsHold
<1>3. NotBlank(t)'
  BY DEF NotBlank
<1> QED
  BY <1>1, <1>2, <1>3 DEF Whole

\* The reply that a streaming turn writes comes after the user row it answers.
LEMMA AnswersWritten ==
    ASSUME RowsOK, NEW t \in Turns, Answers(t), turns[t].pc \in Streaming,
           \A x \in Replies(t)' : x \in Replies(t) \/ x.at = now,
           turns'[t].prompt = turns[t].prompt, \A v \in Users : v \in messages'
    PROVE  Answers(t)'
<1>1. \A v \in Users : v \in Users'
  BY DEF Users
<1>2. PICK p \in Users : p.id = turns[t].prompt
  BY DEF Answers, PromptIsThere
<1>3. p.at < now
  BY DEF RowsOK, RowsHold, Users
<1>4. PromptIsThere(t)'
  BY <1>1, <1>2 DEF PromptIsThere
<1>5. HasPrompt(t)'
  <2> SUFFICES ASSUME NEW m \in Replies(t)'
               PROVE  \E v \in Users' : v.at < m.at /\ v.id = turns'[t].prompt
    BY DEF HasPrompt
  <2>1. CASE m \in Replies(t)
    BY <1>1, <2>1 DEF Answers, HasPrompt
  <2>2. CASE m.at = now
    BY <1>1, <1>2, <1>3, <2>2
  <2> QED
    BY <2>1, <2>2
<1> QED
  BY <1>4, <1>5 DEF Answers

-----------------------------------------------------------------------------
(* What a step does to the rows *)

LEMMA InsertedStep ==
    ASSUME RowsOK, NEW t \in Turns,
           NEW role \in {"user", "assistant", "tool"}, NEW parent \in Nat, NEW text \in Texts,
           role = "user" => parent = None,
           messages' = Inserted(t, role, parent, text), now' = now + 1
    PROVE  /\ RowsOK' /\ RowStep(t)
           /\ \E new \in messages' :
                 /\ new.id = now /\ new.at = now /\ new.turn = t /\ new.role = role /\ new.text = text
                 /\ new \notin messages /\ messages' = messages \cup {new}
<1>1. RowsOK'
  BY InsertedRow
<1>2. PICK new \in messages' :
         /\ new.id = now /\ new.at = now /\ new.turn = t /\ new.role = role /\ new.text = text
         /\ new \notin messages /\ messages' = messages \cup {new}
  BY RowInserted DEF RowsOK
<1>3. RowStep(t)
  <2>1. now' >= now
    BY DEF RowsOK
  <2> QED
    BY <1>2, <2>1 DEF RowStep, Users
<1> QED
  BY <1>1, <1>2, <1>3

LEMMA SameStep ==
    ASSUME RowsOK, NEW t \in Turns, UNCHANGED messages, now' = now \/ now' = now + 1
    PROVE  RowsOK' /\ RowStep(t) /\ NoReplyOf(t)
<1>1. RowsOK'
  BY FewerRows
<1>2. now' >= now
  BY DEF RowsOK
<1> QED
  BY <1>1, <1>2 DEF RowStep, NoReplyOf, Users

\* The row that a streaming turn calls its reply is no user row.
LEMMA ReplyIsOwn ==
    ASSUME NEW t \in Turns, Whole(t), turns[t].pc \in Streaming, turns[t].reply # None,
           NEW m \in messages, m.id = turns[t].reply
    PROVE  m.turn = t /\ m.role = "assistant" /\ m \in Replies(t)
BY DEF Whole, ReplyIsKnown, Replies

LEMMA UpdatedStep ==
    ASSUME RowsOK, NEW t \in Turns, Whole(t), turns[t].pc \in Streaming, turns[t].reply # None,
           NEW text \in Texts, messages' = Updated(turns[t].reply, text), now' = now + 1
    PROVE  /\ RowsOK' /\ RowStep(t)
           /\ \A x \in Replies(t)' : x.text = text /\ x.at = now
           /\ \A x, y \in Replies(t)' : x = y
           /\ \A x \in messages' : x.turn = t /\ x.role = "tool" => x \in messages
<1> DEFINE r == turns[t].reply
<1>1. RowsOK'
  BY UpdatedRow
<1>2. /\ \A m \in messages : m.id # r => m \in messages'
      /\ \A x \in messages' : \E m \in messages :
            /\ x.id = m.id /\ x.turn = m.turn /\ x.role = m.role /\ x.at >= m.at
            /\ m.id # r => x = m
            /\ m.id = r => x.text = text /\ x.at = now
  BY RowUpdated DEF RowsOK
<1>3. \A m \in messages : m.id = r => m.turn = t /\ m.role = "assistant" /\ m \in Replies(t)
  BY ReplyIsOwn
<1>4. \A m \in Replies(t) : m.id = r
  BY DEF Whole, ReplyIsKnown, Replies
<1>5. ASSUME NEW x \in Replies(t)'
      PROVE  x.id = r /\ x.text = text /\ x.at = now
  <2>1. x \in messages' /\ x.turn = t /\ x.role = "assistant"
    BY DEF Replies
  <2>2. PICK m \in messages : /\ x.id = m.id /\ x.turn = m.turn /\ x.role = m.role
                              /\ m.id = r => x.text = text /\ x.at = now
    BY <1>2, <2>1
  <2>3. m \in Replies(t)
    BY <2>1, <2>2 DEF Replies
  <2> QED
    BY <1>4, <2>2, <2>3
<1>6. \A x, y \in Replies(t)' : x = y
  BY <1>1, <1>5 DEF RowsOK, RowsHold, Replies
<1>7. \A x \in messages' : x.turn = t /\ x.role = "tool" => x \in messages
  BY <1>2, <1>3
<1>8. RowStep(t)
  <2>1. now' >= now
    BY DEF RowsOK
  <2>2. \A v \in Users : v \in messages'
    BY <1>2, <1>3 DEF Users
  <2>3. \A x \in messages' : x \in messages \/ x.turn = t
    BY <1>2, <1>3
  <2>4. \A x \in messages' : \E m \in messages : m.id = x.id /\ m.turn = x.turn /\ m.role = x.role
    BY <1>2
  <2> QED
    BY <2>1, <2>2, <2>3, <2>4 DEF RowStep
<1> QED
  BY <1>1, <1>5, <1>6, <1>7, <1>8

LEMMA DeletedStep ==
    ASSUME RowsOK, NEW t \in Turns, Whole(t), turns[t].pc \in Streaming, turns[t].reply # None,
           messages' = Without({turns[t].reply}), now' = now + 1
    PROVE  RowsOK' /\ RowStep(t) /\ NoReplyOf(t)
<1>1. messages' \subseteq messages
  BY DEF Without
<1>2. RowsOK'
  BY <1>1, FewerRows
<1>3. ASSUME NEW v \in Users
      PROVE  v \in messages'
  <2>1. v.id # turns[t].reply
    BY ReplyIsOwn DEF Users
  <2> QED
    BY <2>1, UsersOutlive DEF RowsOK
<1>4. now' >= now
  BY DEF RowsOK
<1> QED
  BY <1>1, <1>2, <1>3, <1>4 DEF RowStep, NoReplyOf

-----------------------------------------------------------------------------
(* The steps of a turn *)

\* A step of turn t that leaves the other turns alone: what is to be shown of t.
LEMMA TurnStepLifts ==
    ASSUME ThreadInv, NEW t \in Turns, RowsOK', RowStep(t),
           \A u \in Turns : u # t => turns'[u] = turns[u],
           Whole(t)', ~RewindsAnytime => Answers(t)'
    PROVE  (\A u \in Turns : Whole(u)') /\ (~RewindsAnytime => \A u \in Turns : Answers(u)')
<1>0. RowsOK /\ TurnsOK /\ turns \in [Turns -> Turn]
  BY TypeParts DEF ThreadInv, TurnsOK
<1>1. ASSUME NEW u \in Turns, u # t
      PROVE  Whole(u)' /\ (~RewindsAnytime => Answers(u)')
  <2>1. turns'[u] = turns[u] /\ Whole(u) /\ NoReplyOf(u)
    BY <1>1 DEF RowStep, ThreadInv, NoReplyOf
  <2>2. TurnStays(u) /\ PromptStays(u)
    BY <2>1 DEF TurnStays, PromptStays, Whole, ReplyIsKnown
  <2>3. Whole(u)'
    BY <1>0, <2>1, <2>2, WholeStays DEF RowStep
  <2>4. ~RewindsAnytime => Answers(u)'
    BY <2>1, <2>2, AnswersStays DEF RowStep, ThreadInv
  <2> QED
    BY <2>3, <2>4
<1> QED
  BY <1>1

\* ... when it writes no reply.
LEMMA TurnStepStays ==
    ASSUME ThreadInv, NEW t \in Turns, RowsOK', RowStep(t), NoReplyOf(t),
           \A u \in Turns : u # t => turns'[u] = turns[u],
           TurnStays(t), PromptStays(t)
    PROVE  (\A u \in Turns : Whole(u)') /\ (~RewindsAnytime => \A u \in Turns : Answers(u)')
<1>1. RowsOK /\ turns \in [Turns -> Turn] /\ Whole(t)
  BY TypeParts DEF ThreadInv, TurnsOK
<1>2. Whole(t)'
  BY <1>1, WholeStays DEF RowStep
<1>3. ~RewindsAnytime => Answers(t)'
  BY AnswersStays DEF RowStep, ThreadInv
<1> QED
  BY <1>2, <1>3, TurnStepLifts

\* A turn that has come no further than its prompt has no reply.
LEMMA NoReplyYet ==
    ASSUME ThreadInv, NEW t \in Turns,
           \/ turns[t].pc \in {"unused", "load", "persist", "prepare"}
           \/ turns[t].late
           \/ turns[t].pc \in Streaming /\ turns[t].reply = None
    PROVE  Replies(t) = {}
BY DEF ThreadInv, Whole, ReplyIsKnown

LEMMA RefusedStep ==
    ASSUME ThreadInv, NEW t \in Turns, turns[t].pc \in {"load", "persist", "prepare"},
           Refuse(t, FALSE) \/ Refuse(t, TRUE)
    PROVE  (\A u \in Turns : Whole(u)') /\ (~RewindsAnytime => \A u \in Turns : Answers(u)')
<1>0. RowsOK /\ TurnsOK /\ RestOK
  BY TypeParts DEF ThreadInv
<1>1. /\ \A u \in Turns : u # t => turns'[u] = turns[u]
      /\ turns'[t].pc = "ended" /\ turns'[t].how = "refused"
  BY <1>0, RefusedTurn
<1>2. Replies(t) = {}
  BY NoReplyYet
<1>3. TurnStays(t) /\ PromptStays(t)
  BY <1>1, <1>2 DEF TurnStays, PromptStays, Streaming
<1>4. RowsOK' /\ RowStep(t) /\ NoReplyOf(t)
  BY <1>0, SameStep DEF Refuse
<1> QED
  BY <1>1, <1>3, <1>4, TurnStepStays

\* However a streaming phase ends.
LEMMA SavedStep ==
    ASSUME ThreadInv, NEW t \in Turns, turns[t].pc \in Streaming, NEW suffix \in BOOLEAN,
           NEW how \in {"broken", "cancelled"}, SavePartial(t, suffix, how)
    PROVE  (\A u \in Turns : Whole(u)') /\ (~RewindsAnytime => \A u \in Turns : Answers(u)')
<1>0. RowsOK /\ TurnsOK /\ Whole(t) /\ "partial" \in Texts /\ None \in Nat
  BY TypeParts DEF ThreadInv, Texts, None
<1>1. PICK h \in {"broken", "cancelled", "unsaved"} : turns' = Ended(t, h)
  BY DEF SavePartial
<1>2. /\ \A u \in Turns : u # t => turns'[u] = turns[u]
      /\ turns'[t].pc = "ended" /\ turns'[t].how = h /\ ~turns'[t].late
      /\ turns'[t].prompt = turns[t].prompt
  BY <1>0, <1>1, EndedTurn
<1>3. CASE turns[t].reply = None /\ now' = now + 1 /\ messages' = Inserted(t, "assistant", None, "partial")
  <2>1. Replies(t) = {}
    BY <1>3, NoReplyYet
  <2>2. PICK new \in messages' : /\ new.id = now /\ new.at = now /\ new.turn = t
                                 /\ new.role = "assistant" /\ new.text = "partial"
                                 /\ new \notin messages /\ messages' = messages \cup {new}
    BY <1>0, <1>3, InsertedStep
  <2>3. RowsOK' /\ RowStep(t)
    BY <1>0, <1>3, InsertedStep
  <2>4. Replies(t)' = {new}
    BY <2>1, <2>2 DEF Replies
  <2>5. \A x \in messages' : x.turn = t /\ x.role = "tool" => x \in messages
    BY <2>2
  <2>6. Whole(t)'
    BY <1>0, <1>2, <1>3, <2>2, <2>4, <2>5, WholeWritten
  <2>7. ~RewindsAnytime => Answers(t)'
    BY <1>0, <1>2, <2>2, <2>3, <2>4, AnswersWritten DEF RowStep, ThreadInv
  <2> QED
    BY <1>2, <2>3, <2>6, <2>7, TurnStepLifts
<1>4. CASE turns[t].reply # None /\ now' = now + 1 /\ messages' = Updated(turns[t].reply, "partial")
  <2>1. /\ RowsOK' /\ RowStep(t)
        /\ \A x \in Replies(t)' : x.text = "partial" /\ x.at = now
        /\ \A x, y \in Replies(t)' : x = y
        /\ \A x \in messages' : x.turn = t /\ x.role = "tool" => x \in messages
    BY <1>0, <1>4, UpdatedStep
  <2>2. Whole(t)'
    BY <1>0, <1>2, <1>4, <2>1, WholeWritten
  <2>3. ~RewindsAnytime => Answers(t)'
    BY <1>0, <1>2, <2>1, AnswersWritten DEF RowStep, ThreadInv
  <2> QED
    BY <1>2, <2>1, <2>2, <2>3, TurnStepLifts
<1>5. PromptStays(t)
  BY <1>2 DEF PromptStays, Streaming
<1>6. CASE turns[t].reply = None /\ UNCHANGED messages /\ now' = now + 1
  <2>1. Replies(t) = {}
    BY <1>6, NoReplyYet
  <2>2. TurnStays(t)
    BY <1>2, <2>1 DEF TurnStays, Streaming
  <2> QED
    BY <1>0, <1>2, <1>5, <1>6, <2>2, SameStep, TurnStepStays
<1>7. CASE turns[t].reply # None /\ now' = now + 1 /\ messages' = Without({turns[t].reply})
  <2>1. RowsOK' /\ RowStep(t) /\ NoReplyOf(t)
    BY <1>0, <1>7, DeletedStep
  <2>2. Replies(t)' = {}
    BY <1>7 DEF Replies, Without, Cascade, ThreadInv, Whole, ReplyIsKnown
  <2>3. Whole(t)'
    BY <1>2, <2>2 DEF Whole, ReplyIsKnown, ToolsAreFirst, NotBlank, Streaming
  <2>4. ~RewindsAnytime => Answers(t)'
    BY <1>5, <2>1, AnswersStays DEF RowStep, ThreadInv
  <2> QED
    BY <1>2, <2>1, <2>3, <2>4, TurnStepLifts
<1>8. CASE h = "unsaved" /\ UNCHANGED <<messages, now>>
  <2>1. TurnStays(t)
    BY <1>2, <1>8 DEF TurnStays, Streaming
  <2> QED
    BY <1>0, <1>2, <1>5, <1>8, <2>1, SameStep, TurnStepStays
<1>9. CASE messages' = Partial(t, suffix) /\ now' = now + 1
  BY <1>0, <1>3, <1>4, <1>6, <1>7, <1>9, PartialCases
<1>10. CASE turns' = Ended(t, "unsaved") /\ UNCHANGED <<messages, now>>
  <2>1. turns'[t].how = "unsaved"
    BY <1>0, <1>10, EndedTurn
  <2> QED
    BY <1>2, <1>8, <1>10, <2>1
<1> QED
  BY <1>9, <1>10 DEF SavePartial

\* The reply is complete.
LEMMA CompleteStep ==
    ASSUME ThreadInv, NEW t \in Turns, Complete(t)
    PROVE  (\A u \in Turns : Whole(u)') /\ (~RewindsAnytime => \A u \in Turns : Answers(u)')
<1> DEFINE r == turns[t].reply
           text == IF turns[t].some THEN "full" ELSE "none"
<1>0. /\ RowsOK /\ TurnsOK /\ Whole(t) /\ text \in Texts /\ None \in Nat
      /\ turns[t].pc = "stream" /\ turns[t].pc \in Streaming /\ ~turns[t].late
  BY TypeParts DEF ThreadInv, Texts, None, Complete, TurnsOK, TurnsKnow, KnowsTurn, Streaming
<1>1. /\ turns'[t].pc \in {"after", "ended"} /\ turns'[t].how \in {"done", "unsaved"}
      /\ ~turns'[t].late /\ turns'[t].prompt = turns[t].prompt
      /\ \A u \in Turns : u # t => turns'[u] = turns[u]
  <2>1. PICK how \in {"done", "unsaved"} :
            \/ turns' = [turns EXCEPT ![t].pc = "after", ![t].how = how]
            \/ turns' = Ended(t, how)
    BY DEF Complete
  <2>2. CASE turns' = [turns EXCEPT ![t].pc = "after", ![t].how = how]
    BY <1>0, <2>2 DEF TurnsOK, Turn
  <2>3. CASE turns' = Ended(t, how)
    BY <1>0, <2>3, EndedTurn
  <2> QED
    BY <2>1, <2>2, <2>3
<1>2. \/ messages' = (IF r = None THEN Inserted(t, "assistant", None, text) ELSE Updated(r, text)) /\ now' = now + 1
      \/ UNCHANGED <<messages, now>>
  BY DEF Complete, SaveReply
<1> HIDE DEF text, r
<1>3. CASE r = None /\ now' = now + 1 /\ messages' = Inserted(t, "assistant", None, text)
  <2>1. Replies(t) = {}
    BY <1>0, <1>3, NoReplyYet DEF r
  <2>2. PICK new \in messages' : /\ new.id = now /\ new.at = now /\ new.turn = t
                                 /\ new.role = "assistant" /\ new.text = text
                                 /\ new \notin messages /\ messages' = messages \cup {new}
    BY <1>0, <1>3, InsertedStep
  <2>3. RowsOK' /\ RowStep(t)
    BY <1>0, <1>3, InsertedStep
  <2>4. Replies(t)' = {new}
    BY <2>1, <2>2 DEF Replies
  <2>5. \A x \in messages' : x.turn = t /\ x.role = "tool" => x \in messages
    BY <2>2
  <2>6. Whole(t)'
    BY <1>0, <1>1, <1>3, <2>2, <2>4, <2>5, WholeWritten
  <2>7. ~RewindsAnytime => Answers(t)'
    BY <1>0, <1>1, <2>2, <2>3, <2>4, AnswersWritten DEF RowStep, ThreadInv
  <2> QED
    BY <1>1, <2>3, <2>6, <2>7, TurnStepLifts
<1>4. CASE r # None /\ now' = now + 1 /\ messages' = Updated(r, text)
  <2>1. /\ RowsOK' /\ RowStep(t)
        /\ \A x \in Replies(t)' : x.text = text /\ x.at = now
        /\ \A x, y \in Replies(t)' : x = y
        /\ \A x \in messages' : x.turn = t /\ x.role = "tool" => x \in messages
    BY <1>0, <1>4, UpdatedStep DEF r
  <2>2. Whole(t)'
    BY <1>0, <1>1, <1>4, <2>1, WholeWritten
  <2>3. ~RewindsAnytime => Answers(t)'
    BY <1>0, <1>1, <2>1, AnswersWritten DEF RowStep, ThreadInv
  <2> QED
    BY <1>1, <2>1, <2>2, <2>3, TurnStepLifts
<1>5. CASE UNCHANGED <<messages, now>>
  <2>1. TurnStays(t) /\ PromptStays(t)
    BY <1>0, <1>1 DEF TurnStays, PromptStays, Streaming
  <2> QED
    BY <1>0, <1>1, <1>5, <2>1, SameStep, TurnStepStays
<1> QED
  BY <1>2, <1>3, <1>4, <1>5

\* The assistant row that is inserted for its tools.
LEMMA PlaceholderStep ==
    ASSUME ThreadInv, NEW t \in Turns, turns[t].pc = "stream", turns[t].reply = None,
           NEW text \in {"partial", "none"},
           messages' = Inserted(t, "assistant", None, text), now' = now + 1,
           turns' = [turns EXCEPT ![t].pc = "tools", ![t].reply = now]
    PROVE  (\A u \in Turns : Whole(u)') /\ (~RewindsAnytime => \A u \in Turns : Answers(u)')
<1>0. /\ RowsOK /\ TurnsOK /\ text \in Texts /\ None \in Nat /\ turns[t].pc \in Streaming
      /\ ~turns[t].late /\ turns[t].how = "running"
  BY TypeParts DEF ThreadInv, Texts, None, Streaming, TurnsOK, TurnsKnow, KnowsTurn
<1>1. /\ turns'[t].pc = "tools" /\ turns'[t].reply = now /\ turns'[t].prompt = turns[t].prompt
      /\ turns'[t].how = "running" /\ ~turns'[t].late /\ \A u \in Turns : u # t => turns'[u] = turns[u]
  BY <1>0 DEF TurnsOK, Turn
<1>2. Replies(t) = {}
  BY <1>0, NoReplyYet
<1>3. PICK new \in messages' : /\ new.id = now /\ new.at = now /\ new.turn = t
                               /\ new.role = "assistant" /\ new.text = text
                               /\ messages' = messages \cup {new}
  BY <1>0, InsertedStep
<1>4. RowsOK' /\ RowStep(t)
  BY <1>0, InsertedStep
<1>5. Replies(t)' = {new}
  BY <1>2, <1>3 DEF Replies
<1>6. ReplyIsKnown(t)'
  <2>1. now < now' /\ now # None
    BY DEF ThreadInv, TypeInv, TypeOK, None
  <2>2. \A m \in messages : m.id # now
    BY <1>0 DEF RowsOK, RowsHold
  <2>3. \A m \in messages' : m \in {new} <=> m.id = now
    BY <1>3, <2>2
  <2> QED
    BY <1>1, <1>3, <1>5, <2>1, <2>3 DEF ReplyIsKnown, Streaming
<1>7. Whole(t)'
  BY <1>1, <1>3, <1>5, <1>6 DEF Whole, ToolsAreFirst, NotBlank
<1>8. ~RewindsAnytime => Answers(t)'
  BY <1>0, <1>1, <1>3, <1>4, <1>5, AnswersWritten DEF RowStep, ThreadInv
<1> QED
  BY <1>1, <1>4, <1>7, <1>8, TurnStepLifts

\* A tool's row stands behind no complete reply of its turn: the turn still streams.
LEMMA ToolStep ==
    ASSUME ThreadInv, NEW t \in Turns, RunTool(t)
    PROVE  (\A u \in Turns : Whole(u)') /\ (~RewindsAnytime => \A u \in Turns : Answers(u)')
<1>0. /\ RowsOK /\ TurnsOK /\ Whole(t) /\ "full" \in Texts /\ turns[t].pc = "tools"
      /\ ~turns[t].late /\ turns[t].how = "running" /\ turns[t].reply \in Nat
  BY TypeParts DEF ThreadInv, Texts, Streaming, TurnsOK, TurnsKnow, KnowsTurn, RunTool, Turn
<1>1. /\ turns'[t].pc = "stream" /\ turns'[t].reply = turns[t].reply /\ turns'[t].prompt = turns[t].prompt
      /\ turns'[t].how = "running" /\ ~turns'[t].late /\ \A u \in Turns : u # t => turns'[u] = turns[u]
  BY <1>0 DEF RunTool, TurnsOK, Turn
<1>2. TurnStays(t) /\ PromptStays(t)
  BY <1>0, <1>1 DEF TurnStays, PromptStays, Streaming
<1>3. CASE UNCHANGED <<messages, now>>
  BY <1>0, <1>1, <1>2, <1>3, SameStep, TurnStepStays
<1>4. CASE messages' = Inserted(t, "tool", turns[t].reply, "full") /\ now' = now + 1
  <2>1. PICK new \in messages' : /\ new.id = now /\ new.turn = t /\ new.role = "tool"
                                 /\ messages' = messages \cup {new}
    BY <1>0, <1>4, InsertedStep
  <2>2. RowsOK' /\ RowStep(t)
    BY <1>0, <1>4, InsertedStep
  <2>3. Replies(t)' = Replies(t)
    BY <2>1 DEF Replies
  <2>4. \A m \in Replies(t) : m.text # "full"
    BY <1>0 DEF Whole, ReplyIsKnown
  <2>5. ReplyIsKnown(t)'
    <3>1. turns[t].reply = None => Replies(t)' = {}
      BY <1>0, <2>3 DEF Whole, ReplyIsKnown, Streaming
    <3>2. ASSUME turns[t].reply # None
          PROVE  /\ turns[t].reply < now'
                 /\ \A m \in messages' : m \in Replies(t)' <=> m.id = turns[t].reply
      <4>1. turns[t].reply < now /\ \A m \in messages : m \in Replies(t) <=> m.id = turns[t].reply
        BY <1>0, <3>2 DEF Whole, ReplyIsKnown, Streaming
      <4>2. new.id # turns[t].reply /\ turns[t].reply < now'
        BY <1>0, <1>4, <2>1, <4>1 DEF RowsOK
      <4>3. new \notin Replies(t)
        BY <2>1 DEF Replies
      <4> QED
        BY <2>1, <2>3, <4>1, <4>2, <4>3
    <3>3. \A m, n \in Replies(t)' : m = n
      BY <1>0, <2>3 DEF Whole, ReplyIsKnown
    <3> QED
      BY <1>1, <2>3, <2>4, <3>1, <3>2, <3>3 DEF ReplyIsKnown, Streaming
  <2>6. Whole(t)'
    BY <1>1, <2>3, <2>4, <2>5 DEF Whole, ToolsAreFirst, NotBlank
  <2>7. ~RewindsAnytime => Answers(t)'
    BY <1>0, <1>1, <2>2, <2>3, AnswersWritten DEF RowStep, ThreadInv, Streaming
  <2> QED
    BY <1>1, <2>2, <2>6, <2>7, TurnStepLifts
<1> QED
  BY <1>3, <1>4 DEF RunTool

\* A user row, inserted in time or late.
LEMMA PromptStep ==
    ASSUME ThreadInv, NEW t \in Turns, turns[t].pc = "persist" \/ turns[t].late,
           messages' = Inserted(t, "user", None, "full"), now' = now + 1,
           \A u \in Turns : u # t => turns'[u] = turns[u],
           turns'[t].pc \in {"prepare", "ended"}, turns'[t].prompt = now,
           turns[t].pc \in {"after", "ended"} => turns'[t].pc = "ended"
    PROVE  (\A u \in Turns : Whole(u)') /\ (~RewindsAnytime => \A u \in Turns : Answers(u)')
<1>0. RowsOK /\ "full" \in Texts /\ None \in Nat /\ Replies(t) = {}
  BY TypeParts, NoReplyYet DEF ThreadInv, Texts, None
<1>1. PICK new \in messages' : /\ new.id = now /\ new.at = now /\ new.turn = t
                               /\ new.role = "user" /\ new.text = "full"
                               /\ new \notin messages /\ messages' = messages \cup {new}
  BY <1>0, InsertedStep
<1>2. RowsOK' /\ RowStep(t)
  BY <1>0, InsertedStep
<1>3. NoReplyOf(t)
  BY <1>1 DEF NoReplyOf
<1>4. TurnStays(t)
  BY <1>0 DEF TurnStays, Streaming
<1>5. PromptStays(t)
  BY <1>0, <1>1 DEF PromptStays, Streaming
<1> QED
  BY <1>2, <1>3, <1>4, <1>5, TurnStepStays

LEMMA ThreadTurnStep ==
    ASSUME ThreadInv, NEW t \in Turns,
           \/ Step(t) \/ LatePersist(t) \/ Delta(t) \/ CallTools(t) \/ RunTool(t)
           \/ Complete(t) \/ SocketDies(t)
    PROVE  (\A u \in Turns : Whole(u)') /\ (~RewindsAnytime => \A u \in Turns : Answers(u)')
<1> DEFINE Goal == (\A u \in Turns : Whole(u)') /\ (~RewindsAnytime => \A u \in Turns : Answers(u)')
<1> SUFFICES Goal
  OBVIOUS
<1>0. RowsOK /\ TurnsOK /\ RestOK /\ turns \in [Turns -> Turn] /\ turns[t] \in Turn /\ KnowsTurn(turns[t])
  BY TypeParts DEF ThreadInv, TurnsOK, TurnsKnow
<1>1. CASE Load(t)
  <2>1. CASE Refuse(t, FALSE)
    BY <1>1, <2>1, RefusedStep DEF Load
  <2>2. CASE /\ Users # {} /\ UNCHANGED <<messages, now>>
             /\ turns' = [turns EXCEPT ![t].pc = "prepare", ![t].prompt = PivotRow(turns[t].prompt)]
    <3>1. /\ turns'[t].pc = "prepare" /\ turns'[t].prompt = PivotRow(turns[t].prompt)
          /\ turns'[t].how = "running" /\ ~turns'[t].late
          /\ \A u \in Turns : u # t => turns'[u] = turns[u]
      BY <1>0, <1>1, <2>2 DEF Load, Turn, KnowsTurn
    <3>2. Replies(t) = {}
      BY <1>1, NoReplyYet DEF Load
    <3>3. \E v \in messages' : v.role = "user" /\ v.id = turns'[t].prompt
      BY <1>0, <2>2, <3>1, PivotIsUser DEF Users
    <3>4. TurnStays(t) /\ PromptStays(t)
      BY <1>1, <3>1, <3>2, <3>3 DEF TurnStays, PromptStays, Load, Streaming
    <3>5. RowsOK' /\ RowStep(t) /\ NoReplyOf(t)
      BY <1>0, <2>2, SameStep
    <3> QED
      BY <3>1, <3>4, <3>5, TurnStepStays
  <2> QED
    BY <1>1, <2>1, <2>2 DEF Load
<1>2. CASE Persist(t)
  <2>1. CASE Refuse(t, FALSE) \/ Refuse(t, TRUE)
    BY <1>2, <2>1, RefusedStep DEF Persist
  <2>2. CASE /\ messages' = Inserted(t, "user", None, "full") /\ now' = now + 1
             /\ turns' = [turns EXCEPT ![t].pc = "prepare", ![t].prompt = now]
    <3>1. /\ turns'[t].pc = "prepare" /\ turns'[t].prompt = now
          /\ \A u \in Turns : u # t => turns'[u] = turns[u]
      BY <1>0, <2>2 DEF Turn
    <3> QED
      BY <1>2, <2>2, <3>1, PromptStep DEF Persist
  <2> QED
    BY <1>2, <2>1, <2>2 DEF Persist
<1>3. CASE LatePersist(t)
  <2>1. turns[t].pc = "ended"
    BY <1>0, <1>3 DEF LatePersist, KnowsTurn
  <2>2. /\ turns'[t].pc = "ended" /\ turns'[t].prompt = now
        /\ \A u \in Turns : u # t => turns'[u] = turns[u]
    BY <1>0, <1>3, <2>1 DEF LatePersist, Turn
  <2> QED
    BY <1>3, <2>1, <2>2, PromptStep DEF LatePersist
<1>4. CASE Prepare(t)
  <2>1. CASE Refuse(t, FALSE)
    BY <1>4, <2>1, RefusedStep DEF Prepare
  <2>2. Replies(t) = {}
    BY <1>4, NoReplyYet DEF Prepare
  <2>3. CASE turns' = [turns EXCEPT ![t].pc = "stream"] /\ UNCHANGED <<messages, now>>
    <3>1. /\ turns'[t].pc = "stream" /\ turns'[t].prompt = turns[t].prompt /\ turns'[t].reply = None
          /\ turns'[t].how = "running" /\ ~turns'[t].late
          /\ \A u \in Turns : u # t => turns'[u] = turns[u]
      BY <1>0, <1>4, <2>3 DEF Prepare, Turn, KnowsTurn, Streaming
    <3>2. TurnStays(t) /\ PromptStays(t)
      BY <1>4, <2>2, <3>1 DEF TurnStays, PromptStays, Prepare, Streaming
    <3> QED
      BY <1>0, <2>3, <3>1, <3>2, SameStep, TurnStepStays
  <2>4. CASE turns' = Ended(t, "broken") /\ UNCHANGED <<messages, now>>
    <3>1. /\ turns'[t].pc = "ended" /\ turns'[t].prompt = turns[t].prompt
          /\ \A u \in Turns : u # t => turns'[u] = turns[u]
      BY <1>0, <2>4, EndedTurn
    <3>2. TurnStays(t) /\ PromptStays(t)
      BY <2>2, <3>1 DEF TurnStays, PromptStays, Streaming
    <3> QED
      BY <1>0, <2>4, <3>1, <3>2, SameStep, TurnStepStays
  <2> QED
    BY <1>4, <2>1, <2>3, <2>4 DEF Prepare
<1>5. CASE Delta(t)
  <2>1. /\ turns'[t].pc = "stream" /\ turns[t].pc = "stream" /\ turns'[t].prompt = turns[t].prompt
        /\ turns'[t].reply = turns[t].reply /\ turns'[t].how = "running" /\ ~turns'[t].late
        /\ \A u \in Turns : u # t => turns'[u] = turns[u]
    BY <1>0, <1>5 DEF Delta, Turn, KnowsTurn
  <2>2. TurnStays(t) /\ PromptStays(t)
    BY <2>1 DEF TurnStays, PromptStays, Streaming
  <2>3. UNCHANGED <<messages, now>>
    BY <1>5 DEF Delta
  <2> QED
    BY <1>0, <2>1, <2>2, <2>3, SameStep, TurnStepStays
<1>6. CASE CallTools(t)
  <2>1. CASE /\ turns[t].reply = None
             /\ messages' = Inserted(t, "assistant", None, IF turns[t].some THEN "partial" ELSE "none")
             /\ now' = now + 1 /\ turns' = [turns EXCEPT ![t].pc = "tools", ![t].reply = now]
    <3>1. PICK text \in {"partial", "none"} : text = IF turns[t].some THEN "partial" ELSE "none"
      OBVIOUS
    <3>2. messages' = Inserted(t, "assistant", None, text) /\ turns[t].pc = "stream"
      BY <1>6, <2>1, <3>1 DEF CallTools
    <3> QED
      BY <2>1, <3>2, PlaceholderStep
  <2>2. CASE turns' = [turns EXCEPT ![t].pc = "tools"] /\ UNCHANGED <<messages, now>>
    <3>1. /\ turns'[t].pc = "tools" /\ turns[t].pc = "stream" /\ turns'[t].prompt = turns[t].prompt
          /\ turns'[t].reply = turns[t].reply /\ turns'[t].how = "running" /\ ~turns'[t].late
          /\ \A u \in Turns : u # t => turns'[u] = turns[u]
      BY <1>0, <1>6, <2>2 DEF CallTools, Turn, KnowsTurn
    <3>2. TurnStays(t) /\ PromptStays(t)
      BY <3>1 DEF TurnStays, PromptStays, Streaming
    <3> QED
      BY <1>0, <2>2, <3>1, <3>2, SameStep, TurnStepStays
  <2> QED
    BY <1>6, <2>1, <2>2 DEF CallTools
<1>7. CASE After(t)
  <2>1. /\ turns'[t].pc = "ended" /\ turns'[t].prompt = turns[t].prompt /\ ~turns'[t].late
        /\ turns'[t].how = turns[t].how /\ \A u \in Turns : u # t => turns'[u] = turns[u]
    BY <1>0, <1>7, EndedTurn DEF After, Turn
  <2>2. TurnStays(t) /\ PromptStays(t)
    BY <2>1 DEF TurnStays, PromptStays, Streaming
  <2>3. UNCHANGED <<messages, now>>
    BY <1>7 DEF After
  <2> QED
    BY <1>0, <2>1, <2>2, <2>3, SameStep, TurnStepStays
<1>8. CASE Break(t)
  <2>1. turns[t].pc \in Streaming
    BY <1>8 DEF Break, Streaming
  <2>2. CASE turns[t].reply = None /\ turns' = Ended(t, "broken") /\ UNCHANGED <<messages, now>>
    <3>1. /\ turns'[t].pc = "ended" /\ turns'[t].prompt = turns[t].prompt
          /\ \A u \in Turns : u # t => turns'[u] = turns[u]
      BY <1>0, <2>2, EndedTurn
    <3>2. Replies(t) = {}
      BY <2>1, <2>2, NoReplyYet
    <3>3. TurnStays(t) /\ PromptStays(t)
      BY <3>1, <3>2 DEF TurnStays, PromptStays, Streaming
    <3> QED
      BY <1>0, <2>2, <3>1, <3>3, SameStep, TurnStepStays
  <2>3. CASE SavePartial(t, TRUE, "broken")
    BY <2>1, <2>3, SavedStep
  <2> QED
    BY <1>8, <2>2, <2>3 DEF Break
<1>9. CASE SocketDies(t) \/ Stopped(t)
  <2>1. turns[t].pc \in Streaming /\ (SavePartial(t, FALSE, "broken") \/ SavePartial(t, FALSE, "cancelled"))
    BY <1>9 DEF SocketDies, Stopped, Streaming
  <2> QED
    BY <2>1, SavedStep
<1> QED
  BY <1>1, <1>2, <1>3, <1>4, <1>5, <1>6, <1>7, <1>8, <1>9, CompleteStep, ToolStep DEF Step

-----------------------------------------------------------------------------
(* The steps of a tab *)

\* Turns that are started or cancelled while the rows stay.
LEMMA ThreadRowsStay ==
    ASSUME ThreadInv, UNCHANGED <<messages, now>>, \A u \in Turns : TurnStays(u) /\ PromptStays(u)
    PROVE  (\A u \in Turns : Whole(u)') /\ (~RewindsAnytime => \A u \in Turns : Answers(u)')
<1>0. RowsOK /\ turns \in [Turns -> Turn]
  BY TypeParts DEF ThreadInv, TurnsOK
<1>1. \A u \in Turns : RowsOK' /\ RowStep(u) /\ NoReplyOf(u)
  BY <1>0, SameStep
<1>2. ASSUME NEW u \in Turns
      PROVE  Whole(u)' /\ (~RewindsAnytime => Answers(u)')
  <2>1. Whole(u)'
    BY <1>0, <1>1, WholeStays DEF RowStep, ThreadInv
  <2>2. ~RewindsAnytime => Answers(u)'
    BY <1>1, AnswersStays DEF RowStep, ThreadInv
  <2> QED
    BY <2>1, <2>2
<1> QED
  BY <1>2

\* A cancelled turn keeps its reply for the branch that stores what there is of it.
LEMMA CutStays ==
    ASSUME ThreadInv, NEW ts, NEW u \in Turns,
           \/ turns'[u] = Cancelled(ts)[u]
           \/ turns'[u] = [Cancelled(ts)[u] EXCEPT !.tab = Gone]
    PROVE  TurnStays(u) /\ PromptStays(u)
<1> DEFINE c == Cancelled(ts)[u]
<1>0. turns \in [Turns -> Turn] /\ TurnsKnow /\ turns[u] \in Turn /\ Whole(u) /\ KnowsTurn(turns[u])
  BY DEF ThreadInv, TypeInv, TypeOK, TurnsKnow
<1>1. c \in Turn
  BY <1>0, CancelledTurns
<1>2. \/ c = turns[u]
      \/ turns[u].pc \in {"stream", "tools"} /\ c = [turns[u] EXCEPT !.pc = "stopping"]
      \/ /\ turns[u].pc \in {"load", "persist", "prepare"}
         /\ c.pc = "ended" /\ c.prompt = turns[u].prompt
      \/ /\ turns[u].pc = "after" /\ c.pc = "ended" /\ ~c.late
         /\ c.how = turns[u].how /\ c.prompt = turns[u].prompt
  BY <1>0, CancelledTurns
<1> HIDE DEF c
<1>3. /\ turns'[u].pc = c.pc /\ turns'[u].late = c.late /\ turns'[u].how = c.how
      /\ turns'[u].reply = c.reply /\ turns'[u].prompt = c.prompt
  BY <1>1 DEF c, Turn
<1>4. CASE c = turns[u]
  BY <1>0, <1>3, <1>4 DEF TurnStays, PromptStays, Whole, ReplyIsKnown
<1>5. CASE turns[u].pc \in {"stream", "tools"} /\ c = [turns[u] EXCEPT !.pc = "stopping"]
  <2>1. /\ c.pc = "stopping" /\ c.late = turns[u].late /\ c.how = turns[u].how
        /\ c.reply = turns[u].reply /\ c.prompt = turns[u].prompt
    BY <1>0, <1>5 DEF Turn
  <2> QED
    BY <1>0, <1>3, <1>5, <2>1 DEF TurnStays, PromptStays, KnowsTurn, Streaming
<1>6. CASE turns[u].pc \in {"load", "persist", "prepare"} /\ c.pc = "ended" /\ c.prompt = turns[u].prompt
  <2>1. Replies(u) = {}
    BY <1>6, NoReplyYet
  <2> QED
    BY <1>3, <1>6, <2>1 DEF TurnStays, PromptStays, Streaming
<1>7. CASE /\ turns[u].pc = "after" /\ c.pc = "ended" /\ ~c.late
           /\ c.how = turns[u].how /\ c.prompt = turns[u].prompt
  BY <1>3, <1>7 DEF TurnStays, PromptStays, Streaming
<1> QED
  BY <1>2, <1>4, <1>5, <1>6, <1>7

\* Deleting what stands behind a user row takes the replies it would orphan with
\* it: each stands behind its prompt.
LEMMA RewindStep ==
    ASSUME ThreadInv, NEW b \in Tabs, Rewind(b)
    PROVE  (\A u \in Turns : Whole(u)') /\ (~RewindsAnytime => \A u \in Turns : Answers(u)')
<1>0. /\ RowsOK /\ turns \in [Turns -> Turn] /\ UNCHANGED <<now, turns>>
      /\ now \in Nat /\ RowsHold
  BY TypeParts DEF ThreadInv, TurnsOK, Rewind, RowsOK
<1>1. PICK m \in messages : RewindTo(b, m)
  BY <1>0 DEF Rewind
<1> DEFINE before == {v \in Users : v.at <= m.at}
           gone   == {n \in messages : IF before = {} THEN n.at >= m.at ELSE n.at > Last(before).at}
           names  == {n.id : n \in gone}
<1>2. messages' = Without(names)
  BY <1>1 DEF RewindTo
<1>3. messages' \subseteq messages
  BY <1>2 DEF Without
<1>4. PICK limit \in Nat : \A n \in messages : n \in gone <=> n.at >= limit
  <2>1. CASE before = {}
    <3>1. m.at \in Nat
      BY <1>0 DEF RowsHold
    <3> QED
      BY <2>1, <3>1
  <2>2. CASE before # {}
    <3>1. Last(before) \in before
      <4>1. before \subseteq messages
        BY DEF Users
      <4> HIDE DEF before
      <4> QED
        BY <1>0, <2>2, <4>1, LastRow DEF RowsOK
    <3>2. PICK last \in Nat : last = Last(before).at
      <4>1. PICK p \in messages : p = Last(before)
        BY <3>1 DEF Users
      <4>2. p.at \in Nat
        BY <1>0 DEF RowsHold
      <4> HIDE DEF before
      <4> QED
        BY <4>1, <4>2
    <3>3. \A n \in messages : n.at \in Nat
      BY <1>0 DEF RowsHold
    <3>4. \A n \in messages : n \in gone <=> n.at > last
      BY <2>2, <3>2
    <3>5. \A n \in messages : n \in gone <=> n.at >= last + 1
      BY <3>3, <3>4
    <3> QED
      BY <3>5
  <2> QED
    BY <2>1, <2>2
<1> HIDE DEF before, gone
<1>5. gone \subseteq messages
  BY DEF gone
<1>6. \A x \in messages' : x.at < limit
  <2> SUFFICES ASSUME NEW x \in messages', ~(x.at < limit) PROVE FALSE
    OBVIOUS
  <2>1. x \in messages /\ x.at \in Nat
    BY <1>0, <1>3 DEF RowsHold
  <2>2. x.id \in names
    BY <1>4, <2>1
  <2> QED
    BY <1>2, <2>2 DEF Without, Cascade
<1>7. ASSUME NEW v \in Users, v.at < limit
      PROVE  v \in messages'
  <2>1. v \in messages /\ v \notin gone
    BY <1>0, <1>4, <1>7 DEF Users, RowsHold
  <2>2. v.id \notin names
    BY <1>0, <1>5, <2>1 DEF RowsHold
  <2>3. None \notin names
    BY <1>0, <1>5 DEF RowsHold, None
  <2> HIDE DEF names
  <2> QED
    BY <1>0, <1>2, <2>2, <2>3, UsersOutlive
<1>8. ASSUME NEW u \in Turns
      PROVE  Whole(u)'
  <2>1. RowsOK'
    BY <1>0, <1>3, FewerRows
  <2>2. Whole(u) /\ NoReplyOf(u) /\ turns'[u] = turns[u] /\ now' >= now
    BY <1>0, <1>3 DEF ThreadInv, NoReplyOf
  <2>3. TurnStays(u)
    BY <2>2 DEF TurnStays, Whole, ReplyIsKnown
  <2> QED
    BY <1>0, <1>3, <2>1, <2>2, <2>3, WholeStays
<1>9. ASSUME ~RewindsAnytime, NEW u \in Turns
      PROVE  Answers(u)'
  <2>1. Quiet /\ turns'[u] = turns[u]
    BY <1>0, <1>9 DEF Rewind
  <2>2. PromptIsThere(u)'
    BY <2>1 DEF PromptIsThere, Quiet, Live, Streaming
  <2>3. ASSUME NEW x \in Replies(u)'
        PROVE  \E v \in Users' : v.at < x.at /\ v.id = turns'[u].prompt
    <3>1. x \in Replies(u) /\ x \in messages'
      BY <1>3 DEF Replies
    <3>2. PICK v \in Users : v.at < x.at /\ v.id = turns[u].prompt
      BY <1>9, <3>1 DEF ThreadInv, Answers, HasPrompt
    <3>3. v.at < limit
      BY <1>0, <1>3, <1>6, <3>1, <3>2 DEF RowsHold, Users
    <3> QED
      BY <1>7, <2>1, <3>2, <3>3 DEF Users
  <2> QED
    BY <2>2, <2>3 DEF Answers, HasPrompt
<1> QED
  BY <1>8, <1>9

LEMMA ThreadTabStep ==
    ASSUME ThreadInv, NEW b \in Tabs,
           Send(b) \/ ClickStop(b) \/ Rewind(b) \/ Drop(b) \/ StartTurn(b) \/ StopTurn(b)
    PROVE  (\A u \in Turns : Whole(u)') /\ (~RewindsAnytime => \A u \in Turns : Answers(u)')
<1>0. /\ turns \in [Turns -> Turn] /\ \A u \in Turns : Whole(u)
  BY DEF ThreadInv, TypeInv, TypeOK
<1>1. CASE UNCHANGED <<messages, now, turns>>
  <2>1. \A u \in Turns : TurnStays(u) /\ PromptStays(u)
    BY <1>0, <1>1 DEF TurnStays, PromptStays, Whole, ReplyIsKnown
  <2> QED
    BY <1>1, <2>1, ThreadRowsStay
<1>2. CASE Drop(b)
  <2>1. \A u \in Turns : TurnStays(u) /\ PromptStays(u)
    BY <1>2, CutStays DEF Drop
  <2> QED
    BY <1>2, <2>1, ThreadRowsStay DEF Drop
<1>3. CASE StartTurn(b)
  <2> DEFINE k == [Unused(b) EXCEPT !.pc = IF Head(frames[b]).type = "again" THEN "load" ELSE "persist",
                                    !.prompt = Head(frames[b]).pivot]
  <2>1. PICK t \in Turns : turns[t].pc = "unused" /\ turns' = [turns EXCEPT ![t] = k]
    BY <1>3 DEF StartTurn, Fresh
  <2>2. k.pc \in {"load", "persist"} /\ k.how = "running"
    BY DEF Unused
  <2> HIDE DEF k
  <2>3. ASSUME NEW u \in Turns
        PROVE  TurnStays(u) /\ PromptStays(u)
    <3>1. CASE u # t
      BY <1>0, <2>1, <3>1 DEF TurnStays, PromptStays, Whole, ReplyIsKnown
    <3>2. CASE u = t
      <4>1. Replies(u) = {} /\ turns'[u] = k
        BY <1>0, <2>1, <3>2, NoReplyYet
      <4> QED
        BY <2>1, <2>2, <3>2, <4>1 DEF TurnStays, PromptStays, Streaming
    <3> QED
      BY <3>1, <3>2
  <2> QED
    BY <1>3, <2>3, ThreadRowsStay DEF StartTurn
<1>4. CASE StopTurn(b)
  <2>1. CASE turns' = Cancelled({tasks[b]})
    <3>1. \A u \in Turns : TurnStays(u) /\ PromptStays(u)
      BY <2>1, CutStays
    <3> QED
      BY <1>4, <3>1, ThreadRowsStay DEF StopTurn
  <2>2. CASE UNCHANGED turns
    BY <1>1, <1>4, <2>2 DEF StopTurn
  <2> QED
    BY <1>4, <2>1, <2>2 DEF StopTurn
<1>5. CASE Send(b) \/ ClickStop(b)
  BY <1>1, <1>5 DEF Send, ClickStop
<1> QED
  BY <1>2, <1>3, <1>4, <1>5, RewindStep

-----------------------------------------------------------------------------
(* Theorems *)

LEMMA ThreadInit == Init => ThreadInv
<1> SUFFICES ASSUME Init PROVE ThreadInv
  OBVIOUS
<1>1. TypeInv
  BY TypeInit
<1>2. \A t \in Turns : Replies(t) = {} /\ turns[t].pc = "unused"
  BY DEF Init, Replies, Unused
<1>3. \A t \in Turns : Whole(t) /\ Answers(t)
  BY <1>2 DEF Whole, ReplyIsKnown, ToolsAreFirst, NotBlank, Answers, PromptIsThere, HasPrompt, Streaming
<1> QED
  BY <1>1, <1>3 DEF ThreadInv

LEMMA ThreadStep == ThreadInv /\ [Next]_vars => ThreadInv'
<1> SUFFICES ASSUME ThreadInv, [Next]_vars
             PROVE  ThreadInv'
  OBVIOUS
<1>1. TypeInv'
  BY TypeStep DEF ThreadInv
<1>2. CASE UNCHANGED vars
  <2>1. turns \in [Turns -> Turn] /\ \A u \in Turns : Whole(u)
    BY DEF ThreadInv, TypeInv, TypeOK
  <2>2. \A u \in Turns : TurnStays(u) /\ PromptStays(u)
    BY <1>2, <2>1 DEF TurnStays, PromptStays, Whole, ReplyIsKnown, vars
  <2> QED
    BY <1>1, <1>2, <2>2, ThreadRowsStay DEF ThreadInv, vars
<1>3. ASSUME (\A u \in Turns : Whole(u)') /\ (~RewindsAnytime => \A u \in Turns : Answers(u)')
      PROVE  ThreadInv'
  BY <1>1, <1>3 DEF ThreadInv
<1> QED
  BY <1>2, <1>3, ThreadTabStep, ThreadTurnStep DEF Next

\* Whenever the thread is rewound, and however many tabs show it: a turn has one
\* assistant row at most, a complete reply stands behind its tools, and an
\* interrupted turn leaves no empty bubble.
THEOREM RepliesAreWhole == Spec => [](OneReplyPerTurn /\ ToolsBeforeReply /\ NoBlankReply)
<1>1. ThreadInv => OneReplyPerTurn /\ ToolsBeforeReply /\ NoBlankReply
  <2> SUFFICES ASSUME ThreadInv PROVE OneReplyPerTurn /\ ToolsBeforeReply /\ NoBlankReply
    OBVIOUS
  <2>1. ASSUME NEW t \in Turns
        PROVE  Cardinality(Replies(t)) <= 1
    <3>1. \A m, n \in Replies(t) : m = n
      BY DEF ThreadInv, Whole, ReplyIsKnown
    <3>2. CASE Replies(t) = {}
      BY <3>2, FS_EmptySet
    <3>3. CASE Replies(t) # {}
      <4>1. PICK m \in Replies(t) : Replies(t) = {m}
        BY <3>1, <3>3
      <4>2. Cardinality({m}) = 1
        BY FS_Singleton, Zenon
      <4> QED
        BY <4>1, <4>2
    <3> QED
      BY <3>2, <3>3
  <2>2. ToolsBeforeReply
    BY DEF ThreadInv, Whole, ToolsAreFirst, ToolsBeforeReply
  <2>3. NoBlankReply
    BY DEF ThreadInv, Whole, NotBlank, NoBlankReply
  <2> QED
    BY <2>1, <2>2, <2>3 DEF OneReplyPerTurn
<1> QED
  BY <1>1, ThreadInit, ThreadStep, PTL DEF Spec

\* While no rewind is asked for during a turn, every reply also answers a user row
\* that stands before it, after any sequence of turns, stops, failures and rewinds.
THEOREM DialogueHolds ==
    ASSUME ~RewindsAnytime
    PROVE  Spec => []ThreadIsADialogue
<1>1. Spec => [](OneReplyPerTurn /\ ToolsBeforeReply /\ NoBlankReply)
  BY RepliesAreWhole
<1>2. ThreadInv => ReplyHasPrompt
  BY DEF ThreadInv, Answers, HasPrompt, ReplyHasPrompt
<1>3. Spec => []ReplyHasPrompt
  BY <1>2, ThreadInit, ThreadStep, PTL DEF Spec
<1> QED
  BY <1>1, <1>3, PTL DEF ThreadIsADialogue
=============================================================================
