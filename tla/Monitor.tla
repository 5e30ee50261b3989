------------------------------- MODULE Monitor -------------------------------
(* The hourly round that compares production with main from outside, while  *)
(* the deployments go on.                                                   *)
EXTENDS Deploy

VARIABLES
  tick,  \* the round
  sound  \* production has been in order, and heard, since the round began

monitorVars == <<deployVars, tick, sound>>

Quiet == [pc |-> "idle", expect |-> 0, old |-> FALSE, bad |-> FALSE, alarm |-> FALSE]

MonitorInit == DeployInit /\ tick = Quiet /\ sound = FALSE

\* Everything is in order for a commit.
Failing == {"failure", "cancelled"}
InOrder(c) ==
  /\ head = c /\ serving = [s \in Service |-> c] /\ fault[c] = "none"
  /\ run.pc = "idle" /\ \A d \in Commit : ended[d] \notin Failing

MonitorSame == UNCHANGED <<head, aged, migrating, fault, deployment>>
Sees(pc, bad) == tick' = [tick EXCEPT !.pc = pc, !.bad = tick.bad \/ bad]

\* What is expected is read first; production is looked at afterwards.
TickStarts ==
  /\ tick.pc = "idle"
  /\ tick' = [pc |-> "runs", expect |-> head, old |-> aged, bad |-> FALSE, alarm |-> tick.alarm]
  /\ MonitorSame /\ UNCHANGED losses

\* The runs the monitor is given: the newest ones.
Recent(oldest) == {c \in Commit : c >= oldest}

\* A run of the expected commit that waits too long for its approval, one that failed,
\* and one whose deployment was skipped although it succeeded.
WaitsTooLong == run.pc = "approval" /\ run.sha = tick.expect /\ tick.old
DeployFailed(recent) == \E c \in recent : ended[c] \in Failing
DeploySkipped(recent) == tick.expect \in recent /\ ended[tick.expect] = "skipped"

ReadRuns ==
  /\ tick.pc = "runs"
  /\ \/ /\ \E oldest \in Commit :
             Sees("api", WaitsTooLong \/ DeployFailed(Recent(oldest)) \/ DeploySkipped(Recent(oldest)))
        /\ Kept
     \/ Sees("api", TRUE) /\ Lost
  /\ MonitorSame

\* The version the api answers; no answer is as bad as a wrong one, and a wrong one is
\* tolerated while main is young.
Drifted == serving["api"] # tick.expect /\ tick.old

ReadApi ==
  /\ tick.pc = "api"
  /\ \/ Sees("routes", ~Healthy \/ Drifted) /\ Kept
     \/ Sees("routes", TRUE) /\ Lost
  /\ MonitorSame

\* The routes are probed, and those that failed once more.
ReadRoutes ==
  /\ tick.pc = "routes"
  /\ \/ Sees("media", ~Healthy) /\ Kept
     \/ Healthy /\ Sees("retry", FALSE) /\ Lost
  /\ MonitorSame

RetryRoutes ==
  /\ tick.pc = "retry"
  /\ \/ Sees("media", ~Healthy) /\ Kept
     \/ Sees("media", TRUE) /\ Lost
  /\ MonitorSame

\* The media, as after a deployment.
ReadMedia ==
  /\ tick.pc = "media"
  /\ \/ Sees("judge", MediaAxis # {}) /\ Kept
     \/ Sees("judge", TRUE) /\ Lost
  /\ MonitorSame

Judge ==
  /\ tick.pc = "judge"
  /\ tick' = [tick EXCEPT !.pc = "idle", !.alarm = tick.bad]
  /\ MonitorSame /\ UNCHANGED losses

MonitorStep == TickStarts \/ ReadRuns \/ ReadApi \/ ReadRoutes \/ RetryRoutes \/ ReadMedia \/ Judge

\* A first probe of the routes that is lost is no excuse: it is repeated.
Watched == sound' = IF tick.pc = "idle" THEN InOrder(head)'
                    ELSE sound /\ InOrder(tick.expect)' /\ (losses' = losses \/ tick.pc = "routes")

\* What goes on by itself, and what somebody does.
Proceeds == DeployStep /\ UNCHANGED tick /\ Watched
Ages == Age /\ UNCHANGED tick /\ Watched
Monitors == MonitorStep /\ Watched

MonitorNext ==
  \/ Proceeds \/ Ages \/ Monitors
  \/ (Push \/ Approve \/ RunDies) /\ UNCHANGED tick /\ Watched

------------------------------------------------------------------------------
MonitorTypeOK == DeployTypeOK /\ tick.expect \in 0..head

\* The monitor is quiet about a production that is in order.
SoundIsQuiet == [][tick.pc = "judge" /\ tick'.pc = "idle" /\ sound => ~tick'.alarm]_monitorVars

\* However a deployment gets lost -- skipped, cancelled, half done, rolled back, or
\* waiting for somebody -- main is served or the alarm goes off.
NoSilentLoss == []<>(serving["api"] = head \/ tick.alarm)
=============================================================================
