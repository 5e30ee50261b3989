------------------------------ MODULE LiveChat ------------------------------
(***************************************************************************)
(* The chat of one live session: the handlers of the gateway               *)
(* (live.gateway.ts), the messages (chat.service.ts), the viewers it       *)
(* counts (live.broadcaster.ts), and the page of the subscriber app        *)
(* (use-live-chat.ts, chat-store.ts).  A page's connection delivers what   *)
(* the server sends in order, and loses what is on the way when it breaks. *)
(***************************************************************************)
EXTENDS Naturals, Sequences, FiniteSets

CONSTANTS
  Viewer,                \* pages with the session open
  MaxMessages,           \* bound on the messages sent
  ChatRecentLimit,       \* LIVE_CHAT_RECENT_LIMIT
  MaxConnects            \* bound on the connections of all pages

VARIABLES
  onAir,                 \* live_sessions.status: before, live or ended
  chat,                  \* chat_messages: sequence of visibilities
  connected, room,       \* sockets that are connected, and those in the live room
  presence,              \* the broadcaster's viewers
  tasks,                 \* handlers that run
  events,                \* what is on the way to each page
  page,                  \* what each page shows
  overtaken,             \* pages for which a message or a hide was overtaken
  late,                  \* sockets that were joined after they had disconnected
  connects

chatVars == <<onAir, chat, connected, room, presence, tasks, events, page, overtaken, late, connects>>

Message == 1 .. Len(chat)
blank == [messages |-> {}, joined |-> FALSE]

Emit(to, event) ==
  events' = [v \in Viewer |-> IF v \in to THEN Append(events[v], event) ELSE events[v]]

\* A message or a hide passes an answer that has read the messages already, or a
\* hide has passed the message it hides.
Overtake(t) ==
  overtaken' = overtaken
    \union {u.by : u \in {w \in tasks : w.op = "join" /\ w.pc = "answer"}}
    \union (IF t.op = "send" /\ \E m \in t.seen : chat[m] = "hidden" THEN room ELSE {})

-------------------------------------------------------------------------------
(* Connections *)

NewTask(v, op) == [by |-> v, op |-> op, pc |-> "load", seen |-> {}]

\* A page joins whenever it connects.
OpenSocket(v) ==
  /\ v \notin connected /\ connects < MaxConnects
  /\ \A t \in tasks : t.by # v
  /\ connects' = connects + 1
  /\ connected' = connected \union {v}
  /\ tasks' = tasks \union {NewTask(v, "join")}
  /\ overtaken' = overtaken \ {v}
  /\ UNCHANGED <<onAir, chat, room, presence, events, page, late>>

Leave(v) == IF v \in room THEN presence \ {v} ELSE presence

\* handleDisconnect: the sessions the socket has joined by now are left.
CloseSocket(v) ==
  /\ v \in connected
  /\ connected' = connected \ {v}
  /\ room' = room \ {v}
  /\ presence' = Leave(v)
  /\ events' = [events EXCEPT ![v] = <<>>]
  /\ page' = [page EXCEPT ![v].joined = FALSE]
  /\ UNCHANGED <<onAir, chat, tasks, overtaken, late, connects>>

-------------------------------------------------------------------------------
(* live.join *)

\* The session was loaded; the socket may be gone by the time it is joined.
JoinRoom(t) ==
  /\ t.op = "join" /\ t.pc = "load"
  /\ IF onAir = "ended"
       THEN /\ tasks' = tasks \ {t}
            /\ UNCHANGED <<room, presence, late>>
       ELSE /\ tasks' = (tasks \ {t}) \union {[t EXCEPT !.pc = "recent"]}
            /\ room' = room \union {t.by}
            /\ presence' = presence \union {t.by}
            /\ late' = IF t.by \in connected THEN late ELSE late \union {t.by}
  /\ UNCHANGED <<onAir, chat, connected, events, page, overtaken, connects>>

RecentVisible ==
  LET visible == {m \in Message : chat[m] = "visible"} IN
  {m \in visible : Cardinality({n \in visible : n > m}) < ChatRecentLimit}

ReadRecentChat(t) ==
  /\ t.op = "join" /\ t.pc = "recent"
  /\ tasks' = (tasks \ {t}) \union {[t EXCEPT !.pc = "answer", !.seen = RecentVisible]}
  /\ UNCHANGED <<onAir, chat, connected, room, presence, events, page, overtaken, late, connects>>

AnswerJoin(t) ==
  /\ t.op = "join" /\ t.pc = "answer"
  /\ tasks' = tasks \ {t}
  /\ Emit({t.by} \intersect connected, [kind |-> "ack", ids |-> t.seen])
  /\ UNCHANGED <<onAir, chat, connected, room, presence, page, overtaken, late, connects>>

-------------------------------------------------------------------------------
(* chat.send and hide *)

\* The page sends while it shows the session on air, which may be over.
SendChat(v) ==
  /\ v \in connected /\ page[v].joined
  /\ Len(chat) + Cardinality({t \in tasks : t.op = "send"}) < MaxMessages
  /\ NewTask(v, "send") \notin tasks
  /\ tasks' = tasks \union {NewTask(v, "send")}
  /\ UNCHANGED <<onAir, chat, connected, room, presence, events, page, overtaken, late, connects>>

\* Only who has joined, and only while the session is live.
CheckSend(t) == t.by \in room /\ onAir = "live"

Check(t) ==
  /\ t.op = "send" /\ t.pc = "load"
  /\ tasks' = (tasks \ {t}) \union (IF CheckSend(t) THEN {[t EXCEPT !.pc = "persist"]} ELSE {})
  /\ UNCHANGED <<onAir, chat, connected, room, presence, events, page, overtaken, late, connects>>

PersistChat(t) ==
  /\ t.op = "send" /\ t.pc = "persist"
  /\ chat' = Append(chat, "visible")
  /\ tasks' = (tasks \ {t}) \union {[t EXCEPT !.pc = "emit", !.seen = {Len(chat')}]}
  /\ UNCHANGED <<onAir, connected, room, presence, events, page, overtaken, late, connects>>

\* A message or a hide goes to the room, after its commit.
EmitChat(t) ==
  /\ t.pc = "emit"
  /\ tasks' = tasks \ {t}
  /\ Emit(room \intersect connected,
          [kind |-> IF t.op = "send" THEN "new" ELSE "hidden", ids |-> t.seen])
  /\ Overtake(t)
  /\ UNCHANGED <<onAir, chat, connected, room, presence, page, late, connects>>

\* hide: the conditional update.  Whoever hides a message has seen it, which may
\* be in the answer to a join, before the message itself goes out.
Hide(m) ==
  /\ chat[m] = "visible" /\ \E v \in Viewer : m \in page[v].messages
  /\ chat' = [chat EXCEPT ![m] = "hidden"]
  /\ tasks' = tasks \union {[by |-> "operator", op |-> "hide", pc |-> "emit", seen |-> {m}]}
  /\ UNCHANGED <<onAir, connected, room, presence, events, page, overtaken, late, connects>>

\* The session goes on air and off again (LiveSession).
StartAir ==
  /\ onAir = "before"
  /\ onAir' = "live"
  /\ UNCHANGED <<chat, connected, room, presence, tasks, events, page, overtaken, late, connects>>

EndAir ==
  /\ onAir = "live"
  /\ onAir' = "ended"
  /\ UNCHANGED <<chat, connected, room, presence, tasks, events, page, overtaken, late, connects>>

-------------------------------------------------------------------------------
(* The page *)

\* The answer to a join replaces the messages (seedChat), the rest edits them
\* (appendChat, removeChat).
Shown(p, e) ==
  CASE e.kind = "ack" -> [p EXCEPT !.messages = e.ids, !.joined = TRUE]
    [] e.kind = "new" -> [p EXCEPT !.messages = @ \union e.ids]
    [] OTHER -> [p EXCEPT !.messages = @ \ e.ids]

ReceiveEvent(v) ==
  /\ events[v] # <<>>
  /\ page' = [page EXCEPT ![v] = Shown(@, Head(events[v]))]
  /\ events' = [events EXCEPT ![v] = Tail(@)]
  /\ UNCHANGED <<onAir, chat, connected, room, presence, tasks, overtaken, late, connects>>

ChatInit ==
  /\ onAir = "before" /\ chat = <<>>
  /\ connected = {} /\ room = {} /\ presence = {} /\ tasks = {}
  /\ events = [v \in Viewer |-> <<>>] /\ page = [v \in Viewer |-> blank]
  /\ overtaken = {} /\ late = {} /\ connects = 0

ChatNext ==
  \/ \E v \in Viewer : OpenSocket(v) \/ CloseSocket(v) \/ SendChat(v) \/ ReceiveEvent(v)
  \/ \E t \in tasks :
       JoinRoom(t) \/ ReadRecentChat(t) \/ AnswerJoin(t) \/ Check(t) \/ PersistChat(t) \/ EmitChat(t)
  \/ \E m \in Message : Hide(m)
  \/ StartAir \/ EndAir

-------------------------------------------------------------------------------
(* Properties *)

ChatTypeOK ==
  /\ \A m \in Message : chat[m] \in {"visible", "hidden"}
  /\ room \subseteq Viewer
  /\ \A v \in Viewer : page[v].messages \subseteq Message /\ (v \notin connected => events[v] = <<>>)

Settled(v) ==
  v \in connected /\ page[v].joined /\ events[v] = <<>> /\ \A t \in tasks : t.by = v => t.op = "send" /\ t.pc = "load"

\* A page with nothing on the way shows no hidden message, also one that was
\* hidden while it was away, unless the hide overtook the answer to its join.
HiddenIsNotShown ==
  \A v \in Viewer \ overtaken :
    Settled(v) /\ (\A t \in tasks : t.pc # "emit")
      => \A m \in page[v].messages : chat[m] = "visible"

\* ... and it shows what is visible of the latest messages, those of its absence
\* too.
PageIsComplete ==
  \A v \in Viewer \ overtaken :
    Settled(v) /\ (\A t \in tasks : t.pc # "emit")
      => {m \in Message : m + ChatRecentLimit > Len(chat) /\ chat[m] = "visible"}
           \subseteq page[v].messages

\* The viewers that are counted are connected, but for sockets whose join came
\* through after they had gone.
PresenceIsConnected == presence \ late \subseteq connected /\ room \ late = presence \ late
===============================================================================
