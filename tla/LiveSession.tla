------------------------------ MODULE LiveSession ------------------------------
(***************************************************************************)
(* One live session: the operators' commands (live-sessions.service.ts and *)
(* its controller) and the collector that reads the comments of the        *)
(* outside channels while the session is on air                            *)
(* (comment-collector.service.ts, live-comments.service.ts).               *)
(***************************************************************************)
EXTENDS Naturals, FiniteSets

CONSTANTS
  Operator,              \* control screens that may send a command
  MaxComments,           \* bound on the comments posted outside
  CommentBatch,          \* LIVE_COMMENT_BATCH_MAX
  MaxPollFailures,       \* bound on channels that do not answer
  MaxRestarts            \* bound on restarts of the api

VARIABLES
  liveStatus, liveLog,   \* the row and the last line of its audit trail
  shown,                 \* the statuses a control screen may still show
  command,               \* what each operator's request is doing
  armed,                 \* the session is in the collector's memory
  ticks,                 \* collections that run
  comment,               \* live_comments.status per comment
  pushes,                \* how often a comment was sent to the prompters
  pollFailures, restarts

session == <<liveStatus, liveLog, shown, command, armed>>
comments == <<comment, pushes>>
liveVars == <<session, ticks, comments, pollFailures, restarts>>

Comment == 1 .. MaxComments

LIVE_SESSION_STATUS_TRANSITIONS ==
  [scheduled   |-> {"preparing", "canceled"},
   preparing   |-> {"live", "canceled"},
   live        |-> {"interrupted", "ended"},
   interrupted |-> {"live", "ended"},
   ended       |-> {},
   canceled    |-> {}]

LiveStatus == DOMAIN LIVE_SESSION_STATUS_TRANSITIONS

\* prepare, start, interrupt, resume, end, cancel
Target ==
  [prepare |-> "preparing", start |-> "live", interrupt |-> "interrupted",
   resume |-> "live", end |-> "ended", cancel |-> "canceled"]

idle == [op |-> "none", from |-> "none", pc |-> "idle"]

-------------------------------------------------------------------------------
(* Commands *)

\* availableLifecycleActions: a screen offers what leads on from the status it
\* shows, which may be an old one.
Offered(op, status) ==
  /\ Target[op] \in LIVE_SESSION_STATUS_TRANSITIONS[status]
  /\ op = "start" => status = "preparing"
  /\ op = "resume" => status = "interrupted"

\* applyTransition loads the row and checks the map, which knows the target and
\* not the command; what it refuses changes nothing.
LoadSession(o) ==
  /\ command[o].pc = "idle"
  /\ \E op \in DOMAIN Target :
       /\ \E status \in shown : Offered(op, status)
       /\ Target[op] \in LIVE_SESSION_STATUS_TRANSITIONS[liveStatus]
       /\ command' = [command EXCEPT ![o] = [op |-> op, from |-> liveStatus, pc |-> "commit"]]
  /\ UNCHANGED <<liveStatus, liveLog, shown, armed, ticks, comments, pollFailures, restarts>>

Unmoved(o) == liveStatus = command[o].from

\* The transaction: the conditional update and its audit line, or a conflict.
CommitSession(o) ==
  /\ command[o].pc = "commit"
  /\ IF Unmoved(o)
       THEN /\ liveStatus' = Target[command[o].op]
            /\ shown' = shown \union {liveStatus'}
            /\ liveLog' = [from |-> command[o].from, to |-> liveStatus']
            /\ command' = [command EXCEPT ![o].pc = "collector"]
       ELSE /\ command' = [command EXCEPT ![o] = idle]
            /\ UNCHANGED <<liveStatus, liveLog, shown>>
  /\ UNCHANGED <<armed, ticks, comments, pollFailures, restarts>>

\* The controller after the commit: start arms the collector, end and cancel
\* disarm it, and nothing orders it with another operator's.
Armed(op) == CASE op = "start" -> TRUE [] op \in {"end", "cancel"} -> FALSE [] OTHER -> armed

Finish(o) ==
  /\ command[o].pc = "collector"
  /\ armed' = Armed(command[o].op)
  /\ command' = [command EXCEPT ![o] = idle]
  /\ UNCHANGED <<liveStatus, liveLog, shown, ticks, comments, pollFailures, restarts>>

-------------------------------------------------------------------------------
(* The collector *)

Post(c) ==
  /\ comment[c] = "none"
  /\ \A d \in Comment : d < c => comment[d] # "none"
  /\ comment' = [comment EXCEPT ![c] = "posted"]
  /\ UNCHANGED <<session, ticks, pushes, pollFailures, restarts>>

\* The faulty version for the mutant checks: a tick may begin while one runs.
MayTick_Overlapping == armed /\ Cardinality(ticks) < 2

\* The interval runs while a session is armed; tick skips while one is running.
MayTick == armed /\ ticks = {}

Tick ==
  /\ MayTick
  /\ ticks' = ticks \union {[n |-> Cardinality(ticks), pc |-> "poll", batch |-> {}]}
  /\ UNCHANGED <<session, comments, pollFailures, restarts>>

Move(t, pc, batch) == ticks' = (ticks \ {t}) \union {[t EXCEPT !.pc = pc, !.batch = batch]}

\* collectOnce: nothing unless the session is live; a channel that does not
\* answer is skipped.
Poll(t) ==
  /\ t.pc = "poll"
  /\ IF liveStatus # "live"
       THEN ticks' = ticks \ {t} /\ UNCHANGED pollFailures
       ELSE \/ /\ Move(t, "persist", {c \in Comment : comment[c] # "none"})
               /\ UNCHANGED pollFailures
            \/ /\ pollFailures < MaxPollFailures
               /\ pollFailures' = pollFailures + 1
               /\ Move(t, "persist", {})
  /\ UNCHANGED <<session, comments, restarts>>

\* persistMany skips what is on record.
Persisted(batch) ==
  [c \in Comment |-> IF c \in batch /\ comment[c] = "posted" THEN "collected" ELSE comment[c]]

Persist(t) ==
  /\ t.pc = "persist"
  /\ comment' = Persisted(t.batch)
  /\ Move(t, "fetch", {})
  /\ UNCHANGED <<session, pushes, pollFailures, restarts>>

Oldest(S) == {c \in S : Cardinality({d \in S : d < c}) < CommentBatch}

\* fetchUnprompted and, in the same turn, the push to whoever is in the room.
Push(t) ==
  /\ t.pc = "fetch"
  /\ LET batch == Oldest({c \in Comment : comment[c] = "collected"}) IN
     /\ IF batch = {} THEN ticks' = ticks \ {t} ELSE Move(t, "mark", batch)
     /\ pushes' = [c \in Comment |-> pushes[c] + IF c \in batch THEN 1 ELSE 0]
  /\ UNCHANGED <<session, comment, pollFailures, restarts>>

MarkPrompted(t) ==
  /\ t.pc = "mark"
  /\ comment' = [c \in Comment |->
       IF c \in t.batch /\ comment[c] = "collected" THEN "prompted" ELSE comment[c]]
  /\ ticks' = ticks \ {t}
  /\ UNCHANGED <<session, pushes, pollFailures, restarts>>

-------------------------------------------------------------------------------
\* The api restarts: requests, collections and the collector's memory are gone.
RestartApi ==
  /\ restarts < MaxRestarts
  /\ restarts' = restarts + 1
  /\ command' = [o \in Operator |-> idle] /\ armed' = FALSE /\ ticks' = {}
  /\ UNCHANGED <<liveStatus, liveLog, shown, comments, pollFailures>>

\* create: an emergency starts as preparing, the rest is scheduled.
LiveInit ==
  /\ liveStatus \in {"scheduled", "preparing"}
  /\ liveLog = [from |-> "none", to |-> liveStatus]
  /\ shown = {liveStatus} /\ command = [o \in Operator |-> idle]
  /\ armed = FALSE /\ ticks = {}
  /\ comment = [c \in Comment |-> "none"] /\ pushes = [c \in Comment |-> 0]
  /\ pollFailures = 0 /\ restarts = 0

Collect == Tick \/ \E t \in ticks : Poll(t) \/ Persist(t) \/ Push(t) \/ MarkPrompted(t)

LiveNext ==
  \/ \E o \in Operator : LoadSession(o) \/ CommitSession(o) \/ Finish(o)
  \/ \E c \in Comment : Post(c)
  \/ Collect
  \/ RestartApi

-------------------------------------------------------------------------------
(* Properties *)

LiveTypeOK ==
  /\ liveStatus \in LiveStatus /\ armed \in BOOLEAN
  /\ \A o \in Operator : command[o].pc \in {"idle", "commit", "collector"}
  /\ comment \in [Comment -> {"none", "posted", "collected", "prompted"}]
  /\ \A c \in Comment : comment[c] = "prompted" => pushes[c] > 0

\* Concurrent commands leave an audit trail without gaps: every line starts
\* where the one before ended.
LiveAuditJoinsUp == [][liveLog' # liveLog => liveLog'.from = liveLog.to]_liveVars

\* Without a restart, a session that is on air is in the collector's memory,
\* once the command that started it has finished.
OnAirIsCollected ==
  restarts = 0 /\ liveStatus \in {"live", "interrupted"}
    => armed \/ \E o \in Operator : command[o].op = "start" /\ command[o].pc = "collector"

\* No comment is read out twice, also by slow collections: only a restart that
\* hits between the push and its record repeats one.
PushedOnce == \A c \in Comment : pushes[c] <= 1 + restarts

\* While the collector has a session in its memory, what is posted outside
\* reaches the prompter, or the session leaves the air.
PostedIsPrompted ==
  \A c \in Comment :
    comment[c] = "posted" /\ armed ~> (comment[c] = "prompted" \/ ~ armed \/ liveStatus # "live")
===============================================================================
