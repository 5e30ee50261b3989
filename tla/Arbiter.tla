-------------------------------- MODULE Arbiter --------------------------------
(***************************************************************************)
(* The gate that leaves a shared host to the DCP pipeline                  *)
(* (arbiter/dcp-arbiter.service.ts, arbiter-policy.ts, dcp-arbiter.client  *)
(* .ts): the api pauses the media queue while DCP works.  The pause lives  *)
(* in Redis and outlives the api, which may stop, crash and be deployed    *)
(* again without an arbiter; a reporter's page polls the gate's state.     *)
(***************************************************************************)
EXTENDS Naturals

CONSTANTS
  MaxDcpMoves,           \* bound on the moves of the DCP pipeline
  MaxArbiterFaults       \* bound on deployments, crashes, failed reads and commands, broken streams

VARIABLES
  dcp, dcpMoves,         \* the pipeline's state, and how often it moved
  policy,                \* HoldPolicy: [holdOnImminent, failMode]
  url,                   \* DCP_ARBITER_URL is set for the api
  paused,                \* the media queue, in Redis
  proc,                  \* the api: see Procs
  refreshing, pending,   \* what refresh() is about to do, or "no"; its flags
  dcpSeen, holding,      \* what was read last; the service's idea of the queue
  stream,                \* the event stream: "off", "open", or "event" on its way
  heard,                 \* a trigger came, or a refresh began, since DCP moved
  answer,                \* of the last command to the queue: "good", "refused", or "lost" when
                         \* the service does not know what it or an earlier one did
  late,                  \* the api stopped during a refresh, misled, or could not resume
  banner,                \* the reporter's page: "none", "off", "free" or "held"
  arbiterFaults

gate == <<refreshing, pending, dcpSeen, holding>>
ghosts == <<heard, answer, late>>
arbiterVars ==
  <<dcp, dcpMoves, policy, url, paused, proc, gate, stream, ghosts, banner, arbiterFaults>>

Procs == {"down", "booting", "up", "resuming", "leaving", "disabled"}

\* Nothing, queued work without an active job, work that waits for a person with more of it
\* queued, work under way; and no answer.
DcpState == {"idle", "imminent", "review", "busy"}

ArbiterTypeOK ==
  /\ dcp \in DcpState /\ dcpMoves \in 0 .. MaxDcpMoves
  /\ proc \in Procs /\ paused \in BOOLEAN /\ url \in BOOLEAN
  /\ refreshing \in {"no", "fetch", "apply"} /\ dcpSeen \in DcpState \cup {"none"}
  /\ pending \in BOOLEAN /\ holding \in BOOLEAN
  /\ stream \in {"off", "open", "event"} /\ banner \in {"none", "off", "free", "held"}
  /\ arbiterFaults \in 0 .. MaxArbiterFaults

ArbiterInit ==
  /\ dcp \in DcpState /\ dcpMoves = 0
  /\ policy \in [holdOnImminent : BOOLEAN, failMode : {"hold", "run"}]
  /\ url = TRUE /\ paused = FALSE /\ proc = "down"
  /\ refreshing = "no" /\ pending = FALSE /\ dcpSeen = "none" /\ holding = FALSE
  /\ stream = "off" /\ heard = FALSE /\ answer = "good" /\ late = FALSE
  /\ banner = "none" /\ arbiterFaults = 0

ArbiterFault == arbiterFaults < MaxArbiterFaults /\ arbiterFaults' = arbiterFaults + 1
Calm == UNCHANGED arbiterFaults

-------------------------------------------------------------------------------
(* The policy *)

\* decideHold; a pipeline that waits for a person does not hold the queue.
DecideHold(state) ==
  CASE state = "none" -> policy.failMode = "hold"
    [] state = "busy" -> TRUE
    [] state = "imminent" -> policy.holdOnImminent
    [] OTHER -> FALSE

-------------------------------------------------------------------------------
(* Triggers *)

\* The faulty version for the mutant checks: a trigger during a refresh is dropped.
Refresh_Dropped ==
  IF refreshing # "no" THEN UNCHANGED gate
  ELSE refreshing' = "fetch" /\ UNCHANGED <<pending, dcpSeen, holding>>

\* refresh(): a call during another makes that one go round again.
Refresh ==
  IF refreshing # "no" THEN pending' = TRUE /\ UNCHANGED <<refreshing, dcpSeen, holding>>
  ELSE refreshing' = "fetch" /\ UNCHANGED <<pending, dcpSeen, holding>>

\* DCP moves, and says so on the stream if it is open.
DcpMoves ==
  /\ dcpMoves < MaxDcpMoves /\ dcpMoves' = dcpMoves + 1
  /\ dcp' \in DcpState \ {dcp}
  /\ stream' = IF stream = "off" THEN "off" ELSE "event"
  /\ heard' = FALSE /\ Calm
  /\ UNCHANGED <<policy, url, paused, proc, gate, answer, late, banner>>

Trigger ==
  /\ Refresh /\ heard' = TRUE
  /\ UNCHANGED <<dcp, dcpMoves, policy, url, paused, proc, answer, late, banner>>

\* state_changed arrives.
OnEvent == proc = "up" /\ stream = "event" /\ stream' = "open" /\ Trigger /\ Calm

\* The interval of DCP_ARBITER_POLL_MS.
Poll == proc = "up" /\ Trigger /\ UNCHANGED stream /\ Calm

\* The stream breaks with what it carried, and is taken up again after a while, when DCP
\* begins with a snapshot.
StreamBreaks ==
  /\ proc = "up" /\ stream # "off" /\ stream' = "off" /\ ArbiterFault
  /\ UNCHANGED <<dcp, dcpMoves, policy, url, paused, proc, gate, ghosts, banner>>

StreamOpens ==
  /\ proc = "up" /\ stream = "off" /\ stream' = "event" /\ Calm
  /\ UNCHANGED <<dcp, dcpMoves, policy, url, paused, proc, gate, ghosts, banner>>

-------------------------------------------------------------------------------
(* A refresh *)

Alive == proc \in {"booting", "up", "resuming", "leaving"}

\* fetchState, which answers null for every error.
FetchState ==
  /\ Alive /\ refreshing = "fetch"
  /\ refreshing' = "apply" /\ pending' = FALSE
  /\ \/ dcpSeen' = dcp /\ Calm
     \/ dcpSeen' = "none" /\ ArbiterFault
  /\ heard' = (heard \/ proc = "booting")
  /\ UNCHANGED <<dcp, dcpMoves, policy, url, paused, proc, holding, stream, answer, late, banner>>

\* applyGate: pause or resume if that changes what the service believes; a failed command
\* leaves the belief, even if Redis has carried it out.
ApplyGate(hold) ==
  \/ /\ hold = holding /\ UNCHANGED <<paused, holding>> /\ Calm
     /\ answer' = IF answer = "lost" THEN "lost" ELSE "good"
  \/ hold # holding /\ paused' = hold /\ holding' = hold /\ answer' = "good" /\ Calm
  \/ /\ hold # holding /\ ArbiterFault /\ UNCHANGED holding
     /\ \/ paused' = hold /\ answer' = "lost"
        \/ UNCHANGED paused /\ answer' = IF answer = "lost" THEN "lost" ELSE "refused"

\* The rest of the loop: once more if somebody asked; onModuleInit goes on to subscribe.
EndRefresh ==
  /\ Alive /\ refreshing = "apply"
  /\ ApplyGate(DecideHold(dcpSeen))
  /\ refreshing' = IF pending THEN "fetch" ELSE "no"
  /\ IF proc = "booting" /\ ~pending THEN proc' = "up" /\ stream' = "event"
     ELSE UNCHANGED <<proc, stream>>
  /\ UNCHANGED <<dcp, dcpMoves, policy, url, pending, dcpSeen, heard, late, banner>>

-------------------------------------------------------------------------------
(* The api comes and goes *)

\* onModuleInit: the queue's real state, or running if that cannot be read, and a refresh.
Boot ==
  /\ proc = "down" /\ url
  /\ proc' = "booting" /\ refreshing' = "fetch" /\ pending' = FALSE /\ dcpSeen' = "none"
  /\ \/ holding' = paused /\ answer' = "good" /\ Calm
     \/ holding' = FALSE /\ answer' = (IF paused THEN "lost" ELSE "good") /\ ArbiterFault
  /\ UNCHANGED <<dcp, dcpMoves, policy, url, paused, stream, heard, late, banner>>

BootWithout ==
  /\ proc = "down" /\ ~url /\ proc' = "disabled" /\ Calm
  /\ UNCHANGED <<dcp, dcpMoves, policy, url, paused, gate, stream, ghosts, banner>>

\* onModuleDestroy: no more triggers, and the queue runs again; a refresh under way goes on.
Stop ==
  /\ proc = "up" /\ stream' = "off" /\ ArbiterFault
  /\ proc' = IF holding THEN "resuming" ELSE "leaving"
  /\ late' = (refreshing # "no" \/ answer = "lost")
  /\ UNCHANGED <<dcp, dcpMoves, policy, url, paused, gate, heard, answer, banner>>

ResumeAtStop ==
  /\ proc = "resuming" /\ proc' = "leaving"
  /\ \/ paused' = FALSE /\ Calm /\ UNCHANGED late
     \/ UNCHANGED paused /\ ArbiterFault /\ late' = TRUE
  /\ UNCHANGED <<dcp, dcpMoves, policy, url, gate, stream, heard, answer, banner>>

Gone ==
  /\ proc' = "down" /\ refreshing' = "no" /\ pending' = FALSE /\ dcpSeen' = "none"
  /\ holding' = FALSE /\ stream' = "off" /\ heard' = FALSE
  /\ UNCHANGED <<dcp, dcpMoves, policy, url, paused, answer, banner>>

Exit == proc = "leaving" /\ Gone /\ Calm /\ UNCHANGED late
ExitDisabled == proc = "disabled" /\ Gone /\ Calm /\ UNCHANGED late
Crash == Alive /\ Gone /\ ArbiterFault /\ late' = TRUE

\* The next deployment has, or has not, an arbiter.
Reconfigure ==
  /\ proc = "down" /\ url' = ~url /\ ArbiterFault
  /\ UNCHANGED <<dcp, dcpMoves, policy, paused, proc, gate, stream, ghosts, banner>>

-------------------------------------------------------------------------------
(* The reporter's page *)

\* pollIntervalMs: a deployment without a gate is not asked again.
PollsAgain == banner # "off"

\* useProcessingState and shouldShowHoldBanner
PagePolls ==
  /\ PollsAgain /\ proc \in {"up", "disabled"}
  /\ banner' = IF proc = "disabled" THEN "off" ELSE IF holding THEN "held" ELSE "free"
  /\ Calm
  /\ UNCHANGED <<dcp, dcpMoves, policy, url, paused, proc, gate, stream, ghosts>>

ArbiterStep ==
  \/ FetchState \/ EndRefresh \/ Boot \/ BootWithout \/ ResumeAtStop \/ Exit

ArbiterNext ==
  \/ DcpMoves \/ OnEvent \/ Poll \/ StreamBreaks \/ StreamOpens \/ ArbiterStep
  \/ Stop \/ ExitDisabled \/ Crash \/ Reconfigure \/ PagePolls

-------------------------------------------------------------------------------
(* Properties *)

\* Once the service has heard of DCP's last move, by whatever trigger and however the
\* triggers overlapped, and is done with it, the queue is as the policy says, unless the
\* read or the command failed, or an earlier answer of the queue was lost (refresh).
GateFollowsDcp ==
  proc = "up" /\ refreshing = "no" /\ heard /\ answer = "good"
    => dcpSeen \in {dcp, "none"} /\ paused = DecideHold(dcpSeen)

\* An api that stops in good order leaves a queue that runs, for a successor that may have
\* no arbiter (onModuleDestroy).
StopsRunning == proc \in {"down", "disabled"} /\ ~late => ~paused

\* A paused queue runs again when DCP needs the host no more, whatever stopped, crashed or
\* got lost, unless an answer of the queue was lost or the next deployment knows no arbiter.
QueueRunsAgain == paused ~> ~paused \/ DecideHold(dcp) \/ answer = "lost" \/ ~url

\* The banner that the queue waits goes away.
BannerGoes == banner = "held" ~> banner # "held" \/ paused \/ DecideHold(dcp) \/ ~url
===============================================================================
