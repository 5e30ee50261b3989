------------------------------ MODULE LivePrompter ------------------------------
(***************************************************************************)
(* The announcer's prompter (use-live-prompter.ts, prompter-store.ts and   *)
(* the screen live/[id].tsx of the control center) over its room           *)
(* (onPrompterJoin and onControlJoin in live.gateway.ts), while the        *)
(* collector of LiveSession records comments, pushes them and marks them   *)
(* prompted.                                                               *)
(***************************************************************************)
EXTENDS Naturals, Sequences, FiniteSets

CONSTANTS
  Collected,             \* bound on the comments collected
  PrompterBatch,         \* LIVE_COMMENT_BATCH_MAX
  MaxJoins               \* bound on the connections of the prompter

VARIABLES
  recorded,              \* live_comments: the comments 1 .. recorded are on record
  prompted,              \* ... and these are marked prompted
  pushing,               \* what the collector has pushed and not yet marked
  linked,                \* whether the prompter's socket is connected
  inRoom, inbox,         \* its room and what is on the way to it
  joining,               \* its calls of join, by what made them
  screen, ready,         \* what it shows, and whether it says that it is connected
  overtaken,             \* whether a push came between the answer to a join and its list
  joins

prompterVars == <<recorded, prompted, pushing, linked, inRoom, inbox, joining, screen, ready,
                  overtaken, joins>>
roomVars == <<linked, inRoom, inbox, joining, screen, ready, overtaken, joins>>
collectorVars == <<recorded, prompted, pushing>>

\* The hook joins when it is mounted, which waits for the connection, and at each
\* connection: twice at the first.
Call == {"mount", "connect"}

idle == [pc |-> "none", recent |-> {}]

\* A list that has been read and may still replace what is shown.
Pending == {c \in Call : joining[c].pc \in {"answer", "acked", "control"}}

RecordComment ==
  /\ recorded < Collected
  /\ recorded' = recorded + 1
  /\ UNCHANGED <<prompted, pushing, roomVars>>

\* fetchUnprompted, oldest first, and the push in the same turn.
PushComments ==
  /\ pushing = {}
  /\ LET waiting == (1 .. recorded) \ prompted
         batch == {c \in waiting : Cardinality({d \in waiting : d < c}) < PrompterBatch} IN
     /\ batch # {}
     /\ pushing' = batch
     /\ IF inRoom
          THEN /\ inbox' = Append(inbox, [kind |-> "comments", of |-> "room", ids |-> batch])
               /\ overtaken' = (overtaken \/ Pending # {})
          ELSE UNCHANGED <<inbox, overtaken>>
  /\ UNCHANGED <<recorded, prompted, linked, inRoom, joining, screen, ready, joins>>

MarkPushed ==
  /\ pushing # {}
  /\ prompted' = prompted \union pushing
  /\ pushing' = {}
  /\ UNCHANGED <<recorded, roomVars>>

\* The socket connects, and its calls of prompter.join are on the way.
Connect ==
  /\ ~ linked /\ joins < MaxJoins
  /\ linked' = TRUE /\ joins' = joins + 1 /\ overtaken' = FALSE
  /\ joining' = [c \in Call |-> IF c = "connect" \/ joins = 0 THEN [idle EXCEPT !.pc = "sent"]
                                                          ELSE idle]
  /\ UNCHANGED <<collectorVars, inRoom, inbox, screen, ready>>

\* The handler enters the room before it reads.
EnterRoom(c) ==
  /\ joining[c].pc = "sent"
  /\ joining' = [joining EXCEPT ![c].pc = "recent"]
  /\ inRoom' = TRUE
  /\ UNCHANGED <<collectorVars, linked, inbox, screen, ready, overtaken, joins>>

Latest(S) == {c \in S : Cardinality({d \in S : d > c}) < PrompterBatch}

\* The latest comments on record, prompted or not.
RecentForPrompter == Latest(1 .. recorded)

ReadRecent(c) ==
  /\ joining[c].pc = "recent"
  /\ joining' = [joining EXCEPT ![c] = [pc |-> "answer", recent |-> RecentForPrompter]]
  /\ UNCHANGED <<collectorVars, linked, inRoom, inbox, screen, ready, overtaken, joins>>

Sends(c, kind, ids, pc) ==
  /\ inbox' = Append(inbox, [kind |-> kind, of |-> c, ids |-> ids])
  /\ joining' = [joining EXCEPT ![c].pc = pc]
  /\ UNCHANGED <<collectorVars, linked, inRoom, screen, ready, overtaken, joins>>

Answer(c) == joining[c].pc = "answer" /\ Sends(c, "join", joining[c].recent, "acked")

\* control.join, which the hook awaits before it shows the answer.
AnswerControl(c) == joining[c].pc = "control" /\ Sends(c, "control", joining[c].recent, "seed")

\* Either of them is refused: no such session, no such role, a failed query.
Refuse(c) == joining[c].pc \in {"sent", "recent", "control"} /\ Sends(c, "refused", {}, "seed")

\* A push is merged into the list (mergePrompterComments).  The answer to
\* prompter.join is kept until that to control.join, and replaces the list then
\* (seedPrompterComments); after a refusal it is not shown.
ReceiveComments ==
  /\ inbox # <<>>
  /\ LET e == Head(inbox) IN
     \/ /\ e.kind = "comments"
        /\ screen' = screen \union e.ids
        /\ UNCHANGED <<joining, ready>>
     \/ /\ e.kind = "join"
        /\ joining' = [joining EXCEPT ![e.of].pc = "control"]
        /\ UNCHANGED <<screen, ready>>
     \/ /\ e.kind = "control"
        /\ screen' = e.ids /\ ready' = TRUE
        /\ joining' = [joining EXCEPT ![e.of] = idle]
     \/ /\ e.kind = "refused"
        /\ ready' = FALSE
        /\ joining' = [joining EXCEPT ![e.of] = idle]
        /\ UNCHANGED screen
  /\ inbox' = Tail(inbox)
  /\ UNCHANGED <<collectorVars, linked, inRoom, overtaken, joins>>

\* The connection breaks, and what was on the way with it; a call that waits for
\* an answer fails.
Disconnect ==
  /\ linked
  /\ linked' = FALSE /\ inRoom' = FALSE /\ inbox' = <<>>
  /\ joining' = [c \in Call |-> idle]
  /\ ready' = (ready /\ joining = [c \in Call |-> idle])
  /\ UNCHANGED <<collectorVars, screen, overtaken, joins>>

PrompterInit ==
  /\ recorded = 0 /\ prompted = {} /\ pushing = {}
  /\ linked = FALSE /\ inRoom = FALSE /\ inbox = <<>> /\ joining = [c \in Call |-> idle]
  /\ screen = {} /\ ready = FALSE /\ overtaken = FALSE
  /\ joins = 0

PrompterNext ==
  \/ RecordComment \/ PushComments \/ MarkPushed
  \/ \E c \in Call : EnterRoom(c) \/ ReadRecent(c) \/ Answer(c) \/ AnswerControl(c) \/ Refuse(c)
  \/ Connect \/ ReceiveComments \/ Disconnect

-------------------------------------------------------------------------------
(* Properties *)

PrompterTypeOK ==
  /\ prompted \subseteq 1 .. recorded /\ screen \subseteq 1 .. recorded
  /\ ~ linked => ~ inRoom /\ inbox = <<>> /\ joining = [c \in Call |-> idle]

\* A prompter that says it is connected and waits for nothing shows every comment
\* that was marked prompted and is among the latest, also after it reconnected and
\* whichever of its two first joins ends last.  Excepted is a push that came between
\* the reading of a join's list and the answer to control.join: the older list then
\* replaces the one the push was merged into.
PrompterIsComplete ==
  inRoom /\ ready /\ inbox = <<>> /\ (\A c \in Call : joining[c].pc = "none") /\ ~ overtaken
    => Latest(1 .. recorded) \intersect prompted \subseteq screen
===============================================================================
