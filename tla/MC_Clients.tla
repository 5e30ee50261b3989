------------------------------ MODULE MC_Clients ------------------------------
(* What stands around the api, part by part, so that a behaviour moves one  *)
(* of them: the probe of a deployment; a viewer's pages of a broadcast, of a *)
(* video and of the programme, and the web app's updates; the operator's     *)
(* sign-in, form and lists; a resident's page; the media-worker's jobs and   *)
(* the cut they make; the backups, and the gate of the controllers.          *)
EXTENDS Naturals, TLC

CONSTANTS
  Aired, Octets, MaxTurns,
  MaxMoves, MaxJoinsSent, MaxFaults,
  Tab, StaleAt, ExpiresAt, MaxReloads,
  MaxCards, MaxEdits, MaxSubmits,
  MaxIssued, MaxSlips,
  MaxBuilds, MaxOutages,
  Media, Retention, MaxDays, MaxNights,
  MaxUploads, Limit, MaxPicks, MaxSends, MaxGlitches, MaxLooks,
  Slot, Attempts, Timeout, MaxTroubles,
  Sizes, Durations, Rates, MaxSegments, LongEdge, ShortEdge, RenditionHeight, ShotAt,
  MaxRows, PageSize, MaxChanges, MaxAsks, MaxBreaks,
  MaxLines, MaxOdd,
  MaxTime, Zones, MaxVisits

\* Pairs of leading octets on both sides of the limits of the private networks.
Oct ==
  {<<10, 0>>, <<172, 15>>, <<172, 16>>, <<172, 31>>, <<172, 32>>, <<192, 168>>,
   <<100, 63>>, <<100, 64>>, <<100, 127>>, <<100, 128>>, <<93, 184>>}

\* Recordings of both orientations that fit the master's format, or do not.
SizesOf ==
  {<<16, 9>>, <<9, 16>>, <<32, 18>>, <<18, 32>>, <<8, 6>>, <<6, 16>>, <<20, 6>>, <<12, 12>>}

Focus ==
  {"probe", "live", "video", "form", "web", "app", "backup", "resident", "media", "cut",
   "boards", "gate", "schedule"}

VARIABLES
  focus,
  api, front, object, host, turns, probe, reached, disturbed,
  broadcast, moves, playable, stage, initial, session, current, joined, entered, joinTasks,
  member, notices, player, running, sent, faults, crossed,
  age, watch, focused, memory, kakao, banner, opened, offers,
  entry, complaints, submission, fresh, edits, submits,
  row, jar, tab, post, closed, tangled, slips,
  deployed, online, outages, active, waiting, cache, window, skipping, switched,
  store, gone, rows, today, remote, bucket, nas, copy, dumps, nights, had,
  link, stored, received, view, failure, read, form, picked, upload, behind, picks, sends,
  glitches, looks,
  process, queue, run, objects, disk, takes, killed, troubles,
  clip, plan, made, warned,
  newest, items, chip, cached, fetch, decision, known, changes, asks, breaks,
  allow, nest, said, owner, written, lines, odd, scan, mode, pending, found, verdict,
  time, firstDay, zone, built, air, page, visits

Probe == INSTANCE Probes
Viewer == INSTANCE Viewing
Form == INSTANCE LiveForm
Web == INSTANCE WebSession
App == INSTANCE SubscriberApp WITH tab <- window
Saved == INSTANCE Backup
Page == INSTANCE ResidentPage
Worker == INSTANCE MediaWorker
List == INSTANCE Boards
Gate == INSTANCE RoleGate

probeVars == <<api, front, object, host, turns, probe, reached, disturbed>>
liveVars ==
  <<broadcast, moves, playable, stage, initial, session, current, joined, entered, joinTasks,
    member, notices, player, running, sent, faults, crossed>>
videoVars == <<age, watch, focused, memory, kakao, banner, opened, offers>>
formVars == <<entry, complaints, submission, fresh, edits, submits>>
webVars == <<row, jar, tab, post, closed, tangled, slips>>
appVars == <<deployed, online, outages, active, waiting, cache, window, skipping, switched>>
backupVars == <<store, gone, rows, today, remote, bucket, nas, copy, dumps, nights, had>>
residentVars ==
  <<link, stored, received, view, failure, read, form, picked, upload, behind, picks, sends,
    glitches, looks>>
mediaVars == <<process, queue, run, objects, disk, takes, killed, troubles>>
cutVars == <<clip, plan, made, warned>>
boardsVars == <<newest, items, chip, cached, fetch, decision, known, changes, asks, breaks>>
gateVars ==
  <<allow, nest, said, owner, written, lines, odd, scan, mode, pending, found, verdict>>
scheduleVars == <<time, firstDay, zone, built, air, page, visits>>
vars ==
  <<focus, probeVars, liveVars, videoVars, formVars, webVars, appVars, backupVars,
    residentVars, mediaVars, cutVars, boardsVars, gateVars, scheduleVars>>


\* What the theorems assume of the bounds and sizes; a duration is at most the longest.
ASSUME SavedAssumption == Retention \in Nat /\ MaxDays \in Nat /\ MaxNights \in Nat
ASSUME MediaAssumption == Attempts \in Nat \ {0} /\ Timeout \in Nat \ {0}
ASSUME CutAssumption ==
  /\ Sizes \subseteq (Nat \ {0}) \X (Nat \ {0})
  /\ Durations \subseteq Nat \ {0} /\ \E d \in Durations : \A e \in Durations : e <= d
  /\ Rates \subseteq Nat /\ MaxSegments \in Nat /\ ShotAt \in Nat
  /\ LongEdge \in Nat \ {0} /\ ShortEdge \in 1 .. LongEdge

ASSUME PageAssumption == MaxUploads \in Nat /\ Limit \in Nat /\ MaxSends \in Nat
ASSUME BoardAssumption == MaxRows \in Nat \ {0} /\ PageSize \in Nat \ {0}
ASSUME FormAssumption == MaxCards \in Nat /\ MaxEdits \in Nat /\ MaxSubmits \in Nat
ASSUME WebAssumption == MaxIssued \in Nat \ {0} /\ MaxSlips \in Nat

ASSUME ProbeAssumption ==
  "none" \notin Aired /\ Octets \subseteq (0 .. 255) \X (0 .. 255) /\ MaxTurns \in Nat
ASSUME LiveAssumption == MaxMoves \in Nat /\ MaxJoinsSent \in Nat /\ MaxFaults \in Nat
ASSUME VideoAssumption ==
  ExpiresAt \in Nat \ {0} /\ StaleAt \in 0 .. ExpiresAt /\ MaxReloads \in Nat
ASSUME AppAssumption == MaxBuilds \in Nat \ {0} /\ MaxOutages \in Nat
ASSUME ScheduleAssumption == MaxTime \in Nat

\* A recording's size and rate do not touch the plan of its cuts: the two vary apart.
Varied == plan # <<>> => clip.size = <<16, 9>> /\ clip.rate = 30
Plain == plan = <<>> /\ clip = [size |-> <<16, 9>>, duration |-> 1, probed |-> 1, rate |-> 30]

\* The worker's slots are alike.
Alike == Permutations(Slot)

Init ==
  /\ focus \in Focus
  /\ Probe!ProbesInit
  /\ focus # "probe" =>
       /\ api = "up" /\ front = <<>>
       /\ object = [c \in Aired |-> "video"]
       /\ host = [kind |-> "name", octets |-> host.octets, https |-> TRUE]
  /\ Viewer!ViewingInit /\ (focus # "live" => playable)
  /\ Viewer!WatchingInit /\ (focus # "video" => ~kakao)
  /\ Form!FormInit
  /\ Web!WebInit /\ (focus # "web" => jar = Web!NoCookie)
  /\ App!UpdateInit
  /\ Saved!BackupInit
  /\ Page!ResidentPageInit /\ (focus # "resident" => link.known)
  /\ Worker!MediaJobsInit
  /\ Worker!MasterCutInit /\ (IF focus = "cut" THEN Varied ELSE Plain)
  /\ List!BoardInit /\ (focus # "boards" => newest)
  /\ Gate!RoleGateInit /\ (focus # "gate" => allow = {})
  /\ App!ScheduleInit /\ (focus # "schedule" => firstDay = 0 /\ zone = 0)

Still(f) ==
  CASE f = "probe" -> UNCHANGED probeVars
    [] f = "live" -> UNCHANGED liveVars
    [] f = "video" -> UNCHANGED videoVars
    [] f = "form" -> UNCHANGED formVars
    [] f = "web" -> UNCHANGED webVars
    [] f = "app" -> UNCHANGED appVars
    [] f = "backup" -> UNCHANGED backupVars
    [] f = "resident" -> UNCHANGED residentVars
    [] f = "media" -> UNCHANGED mediaVars
    [] f = "cut" -> UNCHANGED cutVars
    [] f = "boards" -> UNCHANGED boardsVars
    [] f = "gate" -> UNCHANGED gateVars
    [] f = "schedule" -> UNCHANGED scheduleVars

\* The step is of one part, and the others stand still.
Only(f) == UNCHANGED focus /\ \A g \in Focus \ {f} : Still(g)

Next ==
  \/ focus = "probe" /\ Probe!ProbesNext /\ Only("probe")
  \/ focus = "live" /\ Viewer!ViewingNext /\ Only("live")
  \/ focus = "video" /\ Viewer!WatchingNext /\ Only("video")
  \/ focus = "form" /\ Form!FormNext /\ Only("form")
  \/ focus = "web" /\ Web!WebNext /\ Only("web")
  \/ focus = "app" /\ App!UpdateNext /\ Only("app")
  \/ focus = "backup" /\ Saved!BackupNext /\ Only("backup")
  \/ focus = "resident" /\ Page!ResidentPageNext /\ Only("resident")
  \/ focus = "media" /\ Worker!MediaJobsNext /\ Only("media")
  \/ focus = "cut" /\ Worker!MasterCutNext /\ Only("cut")
  \/ focus = "boards" /\ List!BoardNext /\ Only("boards")
  \/ focus = "gate" /\ Gate!RoleGateNext /\ Only("gate")
  \/ focus = "schedule" /\ App!ScheduleNext /\ Only("schedule")

Spec == Init /\ [][Next]_vars

\* What a visitor meets.  A deployment passes its probe when, and only when, a visitor can
\* reach the videos; one player runs, and a room in contact shows its broadcast; a page that
\* comes to the front has a URL that plays; the app is offered once, and its updates come to
\* those who accept them and leave the others what they have; the programme leads with
\* Jeju's day, announces the first broadcast to come and plays only streams.
VisitorsAreServed ==
  /\ [](focus = "probe" => Probe!ProbesTypeOK /\ Probe!PassIsReachable /\ Probe!AlarmHasCause)
  /\ [](focus = "live" => Viewer!ViewingTypeOK /\ Viewer!OnePlayerRuns /\ Viewer!RoomFollowsBroadcast)
  /\ [](focus = "video" => Viewer!WatchingTypeOK /\ Viewer!OfferedOnce)
  /\ Viewer!FocusRenews
  /\ [](focus = "app" => App!UpdateTypeOK /\ App!KeepsItsAssets /\ App!AcceptedIsApplied)
  /\ App!NoForcedReload
  /\ [](focus = "schedule" =>
          /\ App!ScheduleTypeOK /\ App!WeekStartsToday
          /\ App!NextLiveIsSoonest /\ App!PlaysOnlyStreams)

\* What a page says is so.  A resident's page speaks of the link and of its uploads as they
\* are; a list read to its end skips no row, a filter shows its own rows, and what the reader
\* was told is decided leaves the list of what waits; what a form sends is accepted, and what
\* it refuses is marked; a sign-out closes the session, and nothing else does in calm times.
PagesTellTheTruth ==
  /\ [](focus = "resident" =>
          /\ Page!ResidentPageTypeOK /\ Page!FormKnowsTheFile /\ Page!StoppedIsNotReceived
          /\ Page!DeadEndIsTrue /\ Page!ViewKnowsItsUploads)
  /\ [](focus = "boards" =>
          /\ List!BoardTypeOK /\ List!NothingIsSkipped
          /\ List!FilterIsKept /\ List!DecidedLeavesTheList)
  /\ [](focus = "form" => Form!FormTypeOK /\ Form!SubmittedIsAccepted /\ Form!RefusalIsShown)
  /\ [](focus = "web" => Web!WebTypeOK /\ Web!SignOutCloses)
  /\ Web!KeptWhileCalm

\* What the media-worker leaves is whole and what it promised, and nothing else; what the
\* editing makes keeps what fits, and its timeline is true.
MediaIsWhole ==
  /\ focus = "media" =>
       /\ Worker!MediaJobsTypeOK /\ Worker!PromisedIsStored /\ Worker!ChecksumMatches
       /\ Worker!HangIsWatched /\ Worker!HealthyIsNotKilled
       /\ Worker!NothingLeftBehind /\ Worker!StopFinishesItsJobs
  /\ focus = "cut" =>
       /\ Worker!MasterCutTypeOK /\ Worker!MasterKeepsWhatFits /\ Worker!ShotIsInTheVideo
       /\ Worker!TimelineIsTrue /\ Worker!SilentMeansInPlace

\* What stands guard does: what the backups keep can be restored and stays; a file of
\* controllers that passes its gate has no open route and no dead exemption, and one that
\* fails has a cause.
SafeguardsHold ==
  /\ focus = "backup" =>
       /\ Saved!BackupTypeOK /\ Saved!BucketIsWhole /\ Saved!LastBackupStays
       /\ Saved!SuccessIsRestorable /\ Saved!DeletionIsNotCopied
  /\ focus = "gate" =>
       /\ Gate!RoleGateTypeOK /\ Gate!PassMeansGated /\ Gate!PassMeansNoRot /\ Gate!FailHasCause
===============================================================================
