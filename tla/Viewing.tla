-------------------------------- MODULE Viewing --------------------------------
(***************************************************************************)
(* A viewer's pages in the subscriber app.  That of a live broadcast       *)
(* (app/live/[id].tsx): the session it loads, the room it joins once there *)
(* is a nickname (use-live-chat.ts, live.gateway.ts) and the player that   *)
(* starts, fails and is retried as the room tells where the stream is.     *)
(*                                                                         *)
(* That of one video (app/watch/[id].tsx), whose signed URL ages under the *)
(* player, and the home page's offer to keep the app (app/(tabs)/index.tsx,*)
(* home-banner.ts): what the browser remembers for all of its tabs.        *)
(***************************************************************************)
EXTENDS Naturals, Sequences

CONSTANTS
  MaxMoves,              \* bound on the moves of the broadcast
  MaxJoinsSent,          \* bound on the joins the page sends
  MaxFaults,             \* bound on what fails: requests, connections, the stream
  Tab,                   \* tabs that have the home page open
  StaleAt,               \* PLAYBACK_STALE_MS
  ExpiresAt,             \* DOWNLOAD_URL_TTL_SEC
  MaxReloads             \* bound on the times the home page is opened

VARIABLES
  broadcast,             \* live_sessions.status
  moves,                 \* how often it has moved
  playable,              \* selectPlaybackStrategy finds hls.js or native support
  stage,                 \* "loading", "failed", "notFound", "gate", "room" or "left"
  initial,               \* useLiveSession's data
  session, current, joined,  \* useLiveChat: the session, its version, connected
  entered,               \* the version when the socket entered the room
  joinTasks,             \* joins on their way
  member,                \* whether the socket is in the room
  notices,               \* live.status_changed on their way to the page
  player, running,       \* the mounted LivePlayer; the attempts that hold a stream
  sent, faults,
  crossed,               \* an answer is older than what was announced to, or missed by, the page
  age,                   \* of the URL the page of the video holds
  watch,                 \* that page: "closed", "loading", "error", "playing" or "failed"
  focused,               \* whether its tab has been on the screen since its last read
  memory,                \* localStorage: [watched, seen]
  kakao,                 \* whether this is the browser inside KakaoTalk
  banner,                \* what the home page of each tab shows
  opened, offers         \* home pages opened; offers made

air == <<broadcast, moves>>
page == <<playable, stage, initial>>
known == <<session, current, joined, crossed>>
link == <<entered, joinTasks, member, notices>>
screen == <<player, running>>
bounds == <<sent, faults>>
viewingVars == <<air, page, known, link, screen, bounds>>

watchingVars == <<age, watch, focused, memory, kakao, banner, opened, offers>>
playback == <<age, watch, focused>>
home == <<kakao, banner, opened, offers>>

\* toLiveSessionPublic: the url is set when the broadcast starts.
Public(status) == [status |-> status, url |-> status \in {"live", "interrupted"}]
NoSession == [status |-> "none", url |-> FALSE]
Joinable == broadcast # "ended"

ViewingTypeOK ==
  /\ stage \in {"loading", "failed", "notFound", "gate", "room", "left"}
  /\ moves \in 0 .. MaxMoves /\ sent \in 0 .. MaxJoinsSent /\ faults \in 0 .. MaxFaults
  /\ \A j \in joinTasks : j.pc \in {"load", "enter", "answer"} /\ j.at <= moves

NoPlayer == [n |-> 0, failed |-> FALSE]

ViewingInit ==
  /\ broadcast = "preparing" /\ moves = 0
  /\ playable \in BOOLEAN
  /\ stage = "loading" /\ initial = NoSession
  /\ session = NoSession /\ current = 0 /\ joined = FALSE /\ entered = 0 /\ joinTasks = {}
  /\ member = FALSE /\ notices = <<>> /\ crossed = FALSE
  /\ player = NoPlayer /\ running = {}
  /\ sent = 0 /\ faults = 0

-------------------------------------------------------------------------------
(* The player *)

ShownUrl == (stage = "gate" /\ initial.url) \/ (stage = "room" /\ session.url)

\* A fresh HlsVideo: what cannot play is not started, and its failure is overwritten by
\* the effect that resets the flag for a new url.
Mount(n) ==
  /\ player' = [n |-> n, failed |-> FALSE]
  /\ running' = IF playable THEN {n} ELSE {}

\* The page is drawn with another url or at another stage: HlsVideo's cleanup ends the
\* attempt, and a url starts one.
Render(newStage, url) ==
  IF newStage = stage /\ url = ShownUrl THEN UNCHANGED screen
  ELSE IF url THEN Mount(player.n + 1)
  ELSE player' = [player EXCEPT !.failed = FALSE] /\ running' = {}

Fault == faults < MaxFaults /\ faults' = faults + 1

\* A fatal error of a stream replaces the player by the fallback.
StreamFails ==
  /\ Fault
  /\ \E n \in running : running' = running \ {n}
  /\ player' = [player EXCEPT !.failed = TRUE]
  /\ UNCHANGED <<air, page, known, link, sent>>

\* "Try again": a new key, hence a new player.
Retry ==
  /\ player.failed /\ Mount(player.n + 1)
  /\ UNCHANGED <<air, page, known, link, bounds>>

-------------------------------------------------------------------------------
(* The page *)

LeaveRoom ==
  /\ session' = NoSession /\ joined' = FALSE /\ joinTasks' = {} /\ member' = FALSE
  /\ notices' = <<>> /\ crossed' = FALSE /\ current' = 0 /\ entered' = 0

\* The session's first read, and the one after the tab got the focus again, whose
\* failure takes the page away as well.
Read ==
  /\ stage \in {"loading", "gate", "room"}
  /\ \/ /\ Joinable
        /\ initial' = Public(broadcast)
        /\ LET next == IF stage = "room" THEN "room" ELSE "gate"
           IN  /\ stage' = next
               /\ Render(next, IF next = "room" THEN session.url ELSE initial'.url)
        /\ UNCHANGED <<known, link, faults>>
     \/ /\ ~Joinable \/ faults < MaxFaults
        /\ stage' = IF Joinable THEN "failed" ELSE "notFound"
        /\ faults' = IF Joinable THEN faults + 1 ELSE faults
        /\ Render(stage', FALSE) /\ LeaveRoom /\ UNCHANGED initial
  /\ UNCHANGED <<air, playable, sent>>

\* The error view: "try again" reads again, "to the list" and going back leave.
AnswerError ==
  /\ stage \in {"failed", "notFound"}
  /\ stage' = IF stage = "failed" THEN "loading" ELSE "left"
  /\ UNCHANGED <<air, known, link, screen, bounds, playable, initial>>

Leave ==
  /\ stage \in {"gate", "room"} /\ stage' = "left"
  /\ Render("left", FALSE) /\ LeaveRoom
  /\ UNCHANGED <<air, bounds, playable, initial>>

Join(n) == [n |-> n, pc |-> "load", row |-> NoSession, at |-> 0]
SendJoin ==
  /\ sent < MaxJoinsSent /\ sent' = sent + 1
  /\ joinTasks' = joinTasks \cup {Join(sent')}

\* A nickname opens the room, whose socket joins at once ...
Enter ==
  /\ stage = "gate" /\ stage' = "room" /\ SendJoin
  /\ Render("room", FALSE)
  /\ UNCHANGED <<air, known, playable, initial, entered, member, notices, faults>>

\* ... and again whenever it has connected.
Connect ==
  /\ stage = "room" /\ SendJoin
  /\ UNCHANGED <<air, page, known, screen, entered, member, notices, faults>>

\* The connection breaks: what was on its way is lost.
Disconnect ==
  /\ stage = "room" /\ Fault
  /\ member' = FALSE /\ notices' = <<>>
  /\ joinTasks' = {} /\ joined' = (joined /\ joinTasks = {})
  /\ UNCHANGED <<air, page, screen, entered, session, current, sent, crossed>>

-------------------------------------------------------------------------------
(* The room *)

\* onLiveJoin reads the session, ...
LoadForJoin(j) ==
  /\ j.pc = "load"
  /\ joinTasks' = (joinTasks \ {j}) \cup
       (IF Joinable THEN {[j EXCEPT !.pc = "enter", !.row = Public(broadcast), !.at = moves]}
        ELSE {})
  /\ joined' = (joined /\ Joinable)
  /\ UNCHANGED <<air, page, screen, bounds, entered, session, current, member, notices, crossed>>

\* ... then enters the room: what was announced in between to a page that was not in it is
\* missed ...
EnterRoom(j) ==
  /\ j.pc = "enter"
  /\ joinTasks' = (joinTasks \ {j}) \cup {[j EXCEPT !.pc = "answer"]}
  /\ member' = TRUE
  /\ entered' = IF member THEN entered ELSE moves
  /\ UNCHANGED <<air, page, known, screen, bounds, notices>>

\* ... and answers with what it read, which may be older than what the page knows.
AnswerJoin(j) ==
  /\ j.pc = "answer"
  /\ joinTasks' = joinTasks \ {j}
  /\ session' = j.row /\ current' = j.at /\ joined' = TRUE
  /\ crossed' = (j.at # moves /\ (crossed \/ j.at < current \/ j.at < entered))
  /\ Render(stage, j.row.url)
  /\ UNCHANGED <<air, page, bounds, entered, member, notices>>

\* Its answer is lost or an error.
JoinFails(j) ==
  /\ Fault /\ joinTasks' = joinTasks \ {j} /\ joined' = FALSE
  /\ UNCHANGED <<air, page, screen, entered, session, current, member, notices, sent, crossed>>

\* The operator moves the broadcast, and the room is told.
Move ==
  /\ moves < MaxMoves /\ moves' = moves + 1
  /\ broadcast' \in CASE broadcast = "preparing" -> {"live", "ended"}
                      [] broadcast = "live" -> {"interrupted", "ended"}
                      [] broadcast = "interrupted" -> {"live", "ended"}
                      [] broadcast = "ended" -> {}
  /\ notices' =
       IF member THEN Append(notices, [to |-> broadcast', at |-> moves']) ELSE notices
  /\ UNCHANGED <<page, known, screen, bounds, entered, joinTasks, member>>

\* The faulty version for the mutant checks: the status is all that a start changes.
Receive_StatusOnly ==
  /\ notices # <<>> /\ notices' = Tail(notices)
  /\ session' = IF session = NoSession THEN session
                ELSE [session EXCEPT !.status = Head(notices).to]
  /\ current' = Head(notices).at
  /\ UNCHANGED <<air, page, screen, bounds, entered, joined, joinTasks, member, crossed>>

\* onLiveStatus: the status, and at a start another join, whose answer has the url.
Receive ==
  /\ notices # <<>> /\ notices' = Tail(notices)
  /\ session' = IF session = NoSession THEN session
                ELSE [session EXCEPT !.status = Head(notices).to]
  /\ current' = Head(notices).at
  /\ IF Head(notices).to = "live" THEN SendJoin ELSE UNCHANGED <<sent, joinTasks>>
  /\ UNCHANGED <<air, page, screen, entered, joined, member, faults, crossed>>

ViewingNext ==
  \/ Read \/ AnswerError \/ Leave \/ Enter \/ Connect \/ Disconnect
  \/ StreamFails \/ Retry \/ Move \/ Receive
  \/ \E j \in joinTasks : LoadForJoin(j) \/ EnterRoom(j) \/ AnswerJoin(j) \/ JoinFails(j)

-------------------------------------------------------------------------------
(* The page of a video, and the home page *)

Variant == {"hidden", "open_in_browser", "add_to_home"}

WatchingTypeOK ==
  /\ age \in 0 .. ExpiresAt /\ focused \in BOOLEAN
  /\ watch \in {"closed", "loading", "error", "playing", "failed"}
  /\ banner \in [Tab -> Variant] /\ opened \in 0 .. MaxReloads

WatchingInit ==
  /\ age = 0 /\ watch = "closed" /\ focused = TRUE
  /\ memory = [watched |-> FALSE, seen |-> FALSE] /\ kakao \in BOOLEAN
  /\ banner = [t \in Tab |-> "hidden"] /\ opened = 0 /\ offers = 0

-------------------------------------------------------------------------------
(* The video *)

\* The page opens: it marks that a video was watched, and asks for the playback.
Open ==
  /\ watch = "closed"
  /\ memory' = [memory EXCEPT !.watched = TRUE]
  /\ watch' = "loading"
  /\ UNCHANGED <<home, age, focused>>

\* An answer brings a URL that is signed anew, and with another URL another player; the
\* fallback stays where it is.
Answered ==
  /\ age' = 0 /\ focused' = TRUE
  /\ watch' = IF watch = "failed" THEN watch ELSE "playing"

\* The error view takes the player's place, also when a later read fails.
Refused == watch' = "error" /\ focused' = TRUE /\ UNCHANGED age

\* The first read, and the one of "try again" on the error view.
ReadPlayback ==
  /\ watch \in {"loading", "error"}
  /\ Answered \/ Refused
  /\ UNCHANGED <<memory, home>>

\* usePlayback's staleTime.
IsStale == age >= StaleAt

\* The tab comes to the front: what is stale is read again.
Focus ==
  /\ watch \in {"playing", "failed"} /\ ~focused
  /\ IF IsStale THEN Answered \/ Refused
     ELSE focused' = TRUE /\ UNCHANGED <<age, watch>>
  /\ UNCHANGED <<memory, home>>

Blur ==
  /\ watch \in {"playing", "failed"} /\ focused /\ focused' = FALSE
  /\ UNCHANGED <<age, watch, memory, home>>

\* Time passes; nothing is read again while the page stays in front.
Age ==
  /\ watch \in {"playing", "failed"} /\ age < ExpiresAt /\ age' = age + 1
  /\ UNCHANGED <<watch, focused, memory, home>>

\* The player reports an error: the fallback takes its place.
PlaybackFails ==
  /\ watch = "playing" /\ watch' = "failed"
  /\ UNCHANGED <<age, focused, memory, home>>

\* "Try again" there mounts a player of the URL the page holds, which may have expired.
RetryPlayback ==
  /\ watch = "failed" /\ focused /\ watch' = "playing"
  /\ UNCHANGED <<age, focused, memory, home>>

-------------------------------------------------------------------------------
(* The home page *)

\* resolveHomeBannerVariant
HomeBannerVariant ==
  IF ~memory.watched \/ memory.seen THEN "hidden"
  ELSE IF kakao THEN "open_in_browser" ELSE "add_to_home"

Remember == memory' = [memory EXCEPT !.seen = @ \/ HomeBannerVariant # "hidden"]

\* evaluateAndRecordHomeBanner, once for every page that opens.
OpenHome(t) ==
  /\ opened < MaxReloads /\ opened' = opened + 1
  /\ banner' = [banner EXCEPT ![t] = HomeBannerVariant]
  /\ Remember
  /\ offers' = IF HomeBannerVariant = "hidden" THEN offers ELSE offers + 1
  /\ UNCHANGED <<playback, kakao>>

Dismiss(t) ==
  /\ banner[t] # "hidden" /\ banner' = [banner EXCEPT ![t] = "hidden"]
  /\ UNCHANGED <<playback, memory, kakao, opened, offers>>

WatchingNext ==
  \/ Open \/ ReadPlayback \/ Focus \/ Blur \/ Age \/ PlaybackFails \/ RetryPlayback
  \/ \E t \in Tab : OpenHome(t) \/ Dismiss(t)

-------------------------------------------------------------------------------
(* Properties *)

\* One stream runs, that of the player on the screen: none outlives its page, its url or
\* its failure, and a page with a url plays it, in a browser that can play, or
\* shows that the player has failed (HlsVideo's cleanup and its error event).
OnePlayerRuns ==
  running = IF ShownUrl /\ ~player.failed /\ playable THEN {player.n} ELSE {}

\* A page that is joined and has heard everything shows the broadcast as it is, the
\* address of its stream included, unless an answer crossed the announcement
\* (use-live-chat.ts: joining again at the start).
RoomFollowsBroadcast ==
  stage = "room" /\ joined /\ member /\ joinTasks = {} /\ notices = <<>> /\ ~crossed
    => session.status = broadcast /\ (broadcast \in {"live", "interrupted"} => session.url)

\* A page that comes to the front has a URL that plays, however long it was behind
\* others: it is read again before it can expire (queries.ts: staleTime).
FocusRenews ==
  [][~focused /\ focused' /\ watch' # "error" => age' < ExpiresAt]_watchingVars

\* The offer to keep the app is made once per browser, whatever tabs are open, and to
\* somebody who has watched a video (home-banner.ts).
OfferedOnce ==
  /\ offers <= 1
  /\ (\E t \in Tab : banner[t] # "hidden") => memory.watched
===============================================================================
