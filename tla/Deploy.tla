------------------------------- MODULE Deploy -------------------------------
(* The deployment of main, one run at a time: images are built, the running *)
(* versions are recorded as the recovery point, the new ones come up, four  *)
(* checks judge them and a decision rolls back, escalates or accepts.       *)
EXTENDS Naturals, FiniteSets

CONSTANTS
  MaxCommits, \* pushes to main after commit 0, which is in production
  MaxLosses,  \* ssh sessions and probes that fail without a fault of the code
  Worker      \* the services beside the api

VARIABLES
  head, aged,   \* newest commit of main; it is older than the monitor tolerates
  migrating,    \* commits that add a migration
  fault,        \* what is wrong with each commit
  mode,         \* "report" (the default) or "enforce"
  serving,      \* the commit of each service's container
  schema,       \* newest commit whose migration the database has had
  run,          \* the run that holds the concurrency group
  pending,      \* the run that waits for it, 0 if none
  ended,        \* how the run of each commit ended
  losses

deployment == <<mode, serving, schema, run, pending, ended>>
deployVars == <<head, aged, migrating, fault, deployment, losses>>

Commit == 0..MaxCommits
Service == {"api"} \union Worker
Fault == {"none", "api", "worker", "host", "unclassified"}

Idle == [pc |-> "idle", sha |-> 0, captured |-> [s \in Service |-> 0], migrations |-> FALSE,
         failed |-> {}, decision |-> "none", reverified |-> FALSE]

DeployInit ==
  /\ head = 0 /\ aged = TRUE /\ migrating = {} /\ fault = [c \in Commit |-> "none"]
  /\ mode \in {"report", "enforce"}
  /\ serving = [s \in Service |-> 0] /\ schema = 0
  /\ run = Idle /\ pending = 0 /\ ended = [c \in Commit |-> IF c = 0 THEN "success" ELSE "none"]
  /\ losses = 0

------------------------------------------------------------------------------
\* Something outside fails; every step that can meet this counts it.
Lost == losses < MaxLosses /\ losses' = losses + 1
Kept == UNCHANGED losses

\* The api answers: its image is sound.
Healthy == fault[serving["api"]] # "api"

\* A push to main.  A run that waits for the group gives way to the newer one.
Push ==
  /\ head < MaxCommits
  /\ head' = head + 1 /\ aged' = FALSE
  /\ \E f \in Fault : fault' = [fault EXCEPT ![head + 1] = f]
  /\ migrating' \in {migrating, migrating \union {head + 1}}
  /\ IF run.pc = "idle"
     THEN run' = [Idle EXCEPT !.pc = "build", !.sha = head + 1] /\ UNCHANGED <<pending, ended>>
     ELSE /\ pending' = head + 1
          /\ ended' = IF pending = 0 THEN ended ELSE [ended EXCEPT ![pending] = "cancelled"]
          /\ UNCHANGED run
  /\ UNCHANGED <<mode, serving, schema, losses>>

Age == ~aged /\ aged' = TRUE /\ UNCHANGED <<head, migrating, fault, deployment, losses>>

Goes(pc) == run' = [run EXCEPT !.pc = pc]
Same == UNCHANGED <<head, aged, migrating, fault, mode>>

\* The run ends; the one that waits takes the group.
End(result) ==
  /\ ended' = [ended EXCEPT ![run.sha] = result]
  /\ run' = IF pending = 0 THEN Idle ELSE [Idle EXCEPT !.pc = "build", !.sha = pending]
  /\ pending' = 0

\* The images are built; a missing secret lets the preflight skip the deployment.
Build ==
  /\ run.pc = "build"
  /\ \/ Goes("approval") /\ UNCHANGED <<pending, ended, losses>>
     \/ End("failure") /\ Lost
     \/ End("skipped") /\ Lost
  /\ Same /\ UNCHANGED <<serving, schema>>

Approve ==
  /\ run.pc = "approval" /\ Goes("capture")
  /\ Same /\ UNCHANGED <<serving, schema, pending, ended, losses>>

\* The recovery point: every service is read, or the run ends before it changed anything.
ValidCapture(read) == read = Service

Capture ==
  /\ run.pc = "capture"
  /\ \E read \in SUBSET Service :
       IF ValidCapture(read)
       THEN /\ run' = [run EXCEPT !.pc = "diff", !.captured = [s \in read |-> serving[s]]]
            /\ UNCHANGED <<pending, ended, losses>>
       ELSE End("failure") /\ Lost
  /\ Same /\ UNCHANGED <<serving, schema>>

\* The migrations between the api that runs and the one to come.
MigrationsChanged(base, sha) == \E c \in migrating : base < c /\ c <= sha

Diff ==
  /\ run.pc = "diff"
  /\ \/ /\ run' = [run EXCEPT !.pc = "up",
                              !.migrations = MigrationsChanged(run.captured["api"], run.sha)]
        /\ UNCHANGED <<pending, ended, losses>>
     \/ End("failure") /\ Lost
  /\ Same /\ UNCHANGED <<serving, schema>>

\* The services that are recreated; the api's entry point applies its migrations, if it
\* gets that far.
Newest(commits) == CHOOSE c \in commits : \A d \in commits : d <= c
Applied(sha) == Newest({c \in migrating : c <= sha} \union {schema})

Recreate(done, version) ==
  /\ serving' = [s \in Service |-> IF s \in done THEN version[s] ELSE serving[s]]
  /\ \/ "api" \in done /\ schema' = Applied(version["api"])
     \/ ("api" \notin done \/ fault[version["api"]] = "api") /\ UNCHANGED schema

Up ==
  /\ run.pc = "up"
  /\ \/ Recreate(Service, [s \in Service |-> run.sha]) /\ Goes("verify") /\ UNCHANGED <<pending, ended, losses>>
     \/ /\ \E done \in SUBSET Service : Recreate(done, [s \in Service |-> run.sha])
        /\ End("failure") /\ Lost
  /\ Same

\* The four checks of what was brought up, and which of the decision's axes they fail.
Axes == {"api-sha", "routes", "workers", "media-host", "media-reach", "media-unknown"}

ApiShaFails == ~Healthy \/ serving["api"] # run.sha
RoutesFail == ~Healthy
WorkersFail == \E w \in Worker : serving[w] # run.sha \/ fault[serving[w]] = "worker"

\* The media are found through the api; the kinds of failure the decision does not know
\* are left to a person.
MediaAxis ==
  CASE ~Healthy -> {"media-reach"}
    [] fault[serving["api"]] = "host" -> {"media-host"}
    [] fault[serving["api"]] = "unclassified" -> {"media-unknown"}
    [] OTHER -> {}

TrueFailures ==
  {x \in {"api-sha"} : ApiShaFails} \union {x \in {"routes"} : RoutesFail}
    \union {x \in {"workers"} : WorkersFail} \union MediaAxis

\* What is wrong is always found; a probe that fails by itself adds an axis.
Verify ==
  /\ run.pc = "verify"
  /\ \/ run' = [run EXCEPT !.pc = "decide", !.failed = TrueFailures] /\ Kept
     \/ \E axis \in {"api-sha", "routes", "workers", "media-reach"} :
          run' = [run EXCEPT !.pc = "decide", !.failed = TrueFailures \union {axis}] /\ Lost
  /\ Same /\ UNCHANGED <<serving, schema, pending, ended>>

\* Media that cannot be reached only warns.
WouldRollback(failed) == failed \cap {"api-sha", "routes", "workers", "media-host"} # {}

\* The faulty version for the mutant checks: a rollback does not care about migrations.
Decision_IgnoresMigrations(failed, migrations) ==
  CASE "media-unknown" \in failed -> "escalate"
    [] WouldRollback(failed) -> "rollback"
    [] OTHER -> "none"

Decision(failed, migrations) ==
  CASE WouldRollback(failed) /\ migrations -> "escalate"
    [] "media-unknown" \in failed -> "escalate"
    [] WouldRollback(failed) -> "rollback"
    [] OTHER -> "none"

Decide ==
  /\ run.pc = "decide"
  /\ LET decision == Decision(run.failed, run.migrations) IN
       run' = [run EXCEPT !.decision = decision,
                          !.pc = IF decision = "rollback" /\ mode = "enforce" THEN "rollback" ELSE "verdict"]
  /\ Same /\ UNCHANGED <<serving, schema, pending, ended, losses>>

\* What the plan of the rollback brings up.
RollbackPlan == run.captured

\* The recorded images are tagged and brought up; a step that fails leaves the rest undone
\* and the job goes on.
Rollback ==
  /\ run.pc = "rollback" /\ Goes("reverify")
  /\ \/ Recreate(Service, RollbackPlan) /\ Kept
     \/ (\E done \in SUBSET Service : Recreate(done, RollbackPlan)) /\ Lost
  /\ Same /\ UNCHANGED <<pending, ended>>

Recovered == serving = run.captured /\ Healthy

Reverify ==
  /\ run.pc = "reverify"
  /\ \/ run' = [run EXCEPT !.pc = "verdict", !.reverified = Recovered] /\ Kept
     \/ Goes("verdict") /\ Lost
  /\ Same /\ UNCHANGED <<serving, schema, pending, ended>>

\* A rollback is never a success, however well it went.
Passed == run.failed = {} /\ run.decision = "none"

Verdict ==
  /\ run.pc = "verdict" /\ End(IF Passed THEN "success" ELSE "failure")
  /\ Same /\ UNCHANGED <<serving, schema, losses>>

\* The runner dies, or somebody cancels the run.
RunDies ==
  /\ run.pc # "idle" /\ Lost /\ End("cancelled")
  /\ Same /\ UNCHANGED <<serving, schema>>

DeployStep == Build \/ Capture \/ Diff \/ Up \/ Verify \/ Decide \/ Rollback \/ Reverify \/ Verdict

DeployNext == Push \/ Age \/ Approve \/ DeployStep \/ RunDies

------------------------------------------------------------------------------
DeployTypeOK ==
  /\ head \in Commit /\ aged \in BOOLEAN /\ migrating \subseteq 1..head
  /\ fault \in [Commit -> Fault] /\ mode \in {"report", "enforce"}
  /\ serving \in [Service -> 0..head] /\ schema \in {0} \union migrating
  /\ run.sha \in 0..head /\ run.captured \in [Service -> 0..head] /\ run.failed \subseteq Axes
  /\ run.decision \in {"none", "rollback", "escalate"} /\ pending \in 0..head
  /\ ended \in [Commit -> {"none", "success", "skipped", "failure", "cancelled"}]

\* No sequence of deployments, cancelled runs, half-done updates and rollbacks leaves an
\* api on a database that is ahead of it.
SchemaNotAhead == schema <= serving["api"]

\* A run that ended in success put its commit, and nothing broken, into production.
GreenIsDeployed ==
  [][\A c \in DOMAIN ended : ended'[c] = "success" /\ ended[c] # "success"
       => (\A s \in Service : serving[s] = c) /\ fault[c] = "none"]_deployVars

\* The verification after a rollback vouches for the versions that were recorded.
RecoveryIsTrue ==
  run.reverified => \A s \in Service : serving[s] = run.captured[s] /\ fault[run.captured["api"]] # "api"

\* The newest commit's run is never dropped: it ends, or waits for its approval.
HeadIsJudged == <>[](ended[head] # "none" \/ run.pc = "approval")
=============================================================================
