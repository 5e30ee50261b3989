------------------------------ MODULE MC_Apps ------------------------------
(* The client apps' own state machines side by side: the screens over a     *)
(* content, the session's tokens, the upload in parts and the usage events. *)
(* They share no state, so a behaviour moves one of them.                   *)
EXTENDS Naturals, Sequences, FiniteSets

CONSTANTS
  MaxGeneration, MaxLost,
  Caller, MaxTokens, MaxExpiries, MaxMishaps,
  Parts, PartSize, Concurrency,
  Key, MaxEvents, FlushBatchSize, MaxBatchSize, MaxQueuedEvents, MaxSendAttempts, MaxRollupKeys,
  BucketCapacity, MaxRefills

\* A content has its first cut (Content.generation).
ASSUME ScreenAssumption == MaxGeneration \in Nat \ {0} /\ MaxLost \in Nat

\* Refresh tokens are numbered from 1.
ASSUME TokenAssumption == MaxTokens \in Nat

\* A batch holds an event and is sent once at least, and the queue has room for one
\* (createTelemetryBatchQueue, admitEvent, takeBatch).
ASSUME UsageAssumption ==
  /\ IsFiniteSet(Key) /\ Key # {} /\ {MaxEvents, MaxRollupKeys, BucketCapacity} \subseteq Nat
  /\ {FlushBatchSize, MaxBatchSize, MaxQueuedEvents, MaxSendAttempts} \subseteq Nat \ {0}

\* A pool has a worker (uploadMultipart).
ASSUME PartAssumption == {Parts, PartSize} \subseteq Nat /\ Concurrency \in Nat \ {0}

VARIABLES
  focus,
  role, row, shown, refresh, dialog, command, overtaken, lost,
  token, rotations, session, stored, access, inflight, caller, upset, expiries, mishaps,
  part, loaded, cursor, worker, stopped, signalled, firstError, outcome,
  emitted, queue, retry, sending, timer, backoff, disposed, counters, rollup, arrived, bucket,
  refills

Screens == INSTANCE ContentScreens
Session == INSTANCE Sessions
PartsUp == INSTANCE PartUpload
Usage == INSTANCE Telemetry

screenVars == <<role, row, shown, refresh, dialog, command, overtaken, lost>>
sessionVars ==
  <<token, rotations, session, stored, access, inflight, caller, upset, expiries, mishaps>>
partVars == <<part, loaded, cursor, worker, stopped, signalled, firstError, outcome>>
telemetryVars ==
  <<emitted, queue, retry, sending, timer, backoff, disposed, counters, rollup, arrived,
    bucket, refills>>
vars == <<focus, screenVars, sessionVars, partVars, telemetryVars>>

Init ==
  /\ focus \in {"screens", "session", "parts", "usage"}
  /\ Screens!ScreenInit /\ Session!SessionInit /\ PartsUp!PartInit /\ Usage!TelemetryInit
  /\ focus # "screens" => role = "owner"

OnScreens == focus = "screens" /\ UNCHANGED <<focus, sessionVars, partVars, telemetryVars>>

ScreensNext == OnScreens /\ Screens!ScreenNext
SessionNext ==
  focus = "session" /\ Session!SessionNext /\ UNCHANGED <<focus, screenVars, partVars, telemetryVars>>
PartsNext ==
  focus = "parts" /\ PartsUp!PartNext /\ UNCHANGED <<focus, screenVars, sessionVars, telemetryVars>>
UsageNext ==
  focus = "usage" /\ Usage!TelemetryNext /\ UNCHANGED <<focus, screenVars, sessionVars, partVars>>

Next == ScreensNext \/ SessionNext \/ PartsNext \/ UsageNext

ScreensPoll == OnScreens /\ Screens!Poll
ScreensRead == OnScreens /\ Screens!Read
ScreensDeliver == OnScreens /\ Screens!Deliver

\* The interval of a screen keeps asking, and an answer that is not overtaken for ever by
\* newer invalidations arrives.
Spec ==
  /\ Init /\ [][Next]_vars
  /\ WF_vars(ScreensPoll) /\ WF_vars(ScreensRead) /\ SF_vars(ScreensDeliver)

\* No screen offers what the api refuses, nothing is left without a way on, and reviewers
\* decide on what they looked at.
ScreensAgree ==
  /\ [](focus = "screens" =>
          Screens!ScreenTypeOK /\ Screens!OfferedIsAccepted /\ Screens!NobodyIsStuck)
  /\ Screens!DecidedIsWhatWasSeen

\* ... and a screen that shows a moving status catches up.
ScreensAreUsable == ScreensAgree /\ (focus = "screens" => Screens!ScreenCatchesUp)

\* A session has one refresh token that works, its own requests never close it, and only
\* its end refuses them.
SessionIsKept ==
  focus = "session" =>
    /\ Session!SessionTypeOK /\ Session!OneLiveToken
    /\ Session!OwnRequestsKeepTheSession /\ Session!RefusedIsOver

\* An upload in parts is whole when it succeeds, quiet once it is given up, and its progress
\* never falls.
PartsBecomeOne ==
  /\ [](focus = "parts" =>
          PartsUp!PartTypeOK /\ PartsUp!CompleteIsWhole /\ PartsUp!GivenUpIsQuiet)
  /\ PartsUp!ProgressNeverFalls

\* Usage events wait only with a timer, arrive in order, and are counted wherever they end:
\* sent, dropped, refused, or added up in a rollup.
EventsAddUp ==
  focus = "usage" =>
    /\ Usage!TelemetryTypeOK /\ Usage!WaitingIsScheduled
    /\ Usage!EventsAddUp /\ Usage!ArrivedInOrder /\ Usage!ViewsAddUp
===============================================================================
