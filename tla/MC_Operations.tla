---------------------------- MODULE MC_Operations ----------------------------
(* What runs around the contents: the week's recommendation, the deployment *)
(* of main, the monitor that watches the deployments, and the arbiter that  *)
(* holds the media queue.  A behaviour moves one of the four.               *)
EXTENDS Naturals

CONSTANTS
  Handler, MaxGeneration, MaxAttempts, MaxApiCrashes,
  MaxCommits, MaxLosses, Worker,
  MaxDcpMoves, MaxArbiterFaults

VARIABLES
  focus,
  queued, week, requests, dispatching, job, attempts, runs, due, handler, outlived, lost, apiCrashes,
  head, aged, migrating, fault, mode, serving, schema, run, pending, ended, losses,
  tick, sound,
  dcp, dcpMoves, policy, url, paused, proc, refreshing, again, dcpSeen, holding, stream, heard,
  answer, late, banner, arbiterFaults

Week == INSTANCE Recommendations WITH ended <- due
Deployment == INSTANCE Deploy
\* The monitored deployment is a smaller one: one push, one loss.
Watch == INSTANCE Monitor WITH MaxCommits <- 1, MaxLosses <- 1
Gate == INSTANCE Arbiter WITH pending <- again

weekVars ==
  <<queued, week, requests, dispatching, job, attempts, runs, due, handler, outlived, lost,
    apiCrashes>>
deployVars ==
  <<head, aged, migrating, fault, mode, serving, schema, run, pending, ended, losses>>
watchVars == <<tick, sound>>
gateVars ==
  <<dcp, dcpMoves, policy, url, paused, proc, refreshing, again, dcpSeen, holding, stream,
    heard, answer, late, banner, arbiterFaults>>
vars == <<focus, weekVars, deployVars, watchVars, gateVars>>

Init ==
  /\ focus \in {"week", "deployment", "watch", "gate"}
  /\ Week!RecommendationInit /\ (focus # "week" => queued)
  /\ IF focus = "watch" THEN Watch!MonitorInit
     ELSE Deployment!DeployInit /\ (focus # "deployment" => mode = "report")
          /\ tick = Watch!Quiet /\ sound = FALSE
  /\ Gate!ArbiterInit
  /\ focus # "gate" => dcp = "idle" /\ policy = [holdOnImminent |-> TRUE, failMode |-> "hold"]

OnWeek == focus = "week" /\ UNCHANGED <<focus, deployVars, watchVars, gateVars>>
OnDeployment == focus = "deployment" /\ UNCHANGED <<focus, weekVars, watchVars, gateVars>>
OnWatch == focus = "watch" /\ UNCHANGED <<focus, weekVars, gateVars>>
OnGate == focus = "gate" /\ UNCHANGED <<focus, weekVars, deployVars, watchVars>>

WeekNext == OnWeek /\ Week!RecommendationNext
DeploymentNext == OnDeployment /\ Deployment!DeployNext
WatchNext == OnWatch /\ Watch!MonitorNext
GateNext == OnGate /\ Gate!ArbiterNext

Next == WeekNext \/ DeploymentNext \/ WatchNext \/ GateNext

\* The steps that go on by themselves, by how many kinds of them a part needs: a behaviour
\* has one focus, so the fairness of each part is the fairness of the unions.
Proceeds ==
  \/ OnWeek /\ Week!Progress
  \/ OnDeployment /\ Deployment!DeployStep
  \/ OnWatch /\ Watch!Proceeds
  \/ OnGate /\ Gate!ArbiterStep
Ages == (OnWatch /\ Watch!Ages) \/ (OnGate /\ Gate!Poll)
Looks == (OnWatch /\ Watch!Monitors) \/ (OnGate /\ Gate!PagePolls)

\* Queues and runners go on, time passes, the monitor's rounds come and intervals fire;
\* pushes, approvals and operators may not.
Spec == Init /\ [][Next]_vars /\ WF_vars(Proceeds) /\ WF_vars(Ages) /\ WF_vars(Looks)

\* A week's recommendation: what is reviewed is the current ranking and follows the requests
\* that are closed, an approved week is left alone, and a generation ends.
WeekIsReviewed ==
  /\ [](focus = "week" =>
          Week!RecommendationTypeOK /\ Week!ReviewedIsCurrent /\ Week!ResolvedIsReflected)
  /\ Week!ApprovedIsFinal
  /\ (focus = "week" => Week!GenerationEnds)

\* Deployments: the database is not ahead of the api, a green run put its commit into
\* production and it works, a rollback that was verified brought the recorded versions back,
\* the newest commit is judged or waits for somebody; and the monitor is quiet when all is
\* well, and not when a deployment got lost.
DeploymentIsTrue ==
  /\ [](focus = "deployment" =>
          Deployment!DeployTypeOK /\ Deployment!SchemaNotAhead /\ Deployment!RecoveryIsTrue)
  /\ Deployment!GreenIsDeployed
  /\ (focus = "deployment" => Deployment!HeadIsJudged)
  /\ [](focus = "watch" => Watch!MonitorTypeOK)
  /\ Watch!SoundIsQuiet
  /\ (focus = "watch" => Watch!NoSilentLoss)

\* The media queue waits exactly when DCP's state says so, is left running, and runs again;
\* and the reporter's banner goes.
QueueFollowsDcp ==
  /\ [](Gate!ArbiterTypeOK /\ Gate!GateFollowsDcp /\ Gate!StopsRunning)
  /\ (focus = "gate" => Gate!QueueRunsAgain)
  /\ (focus = "gate" => Gate!BannerGoes)
===============================================================================
