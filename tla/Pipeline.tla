------------------------------- MODULE Pipeline -------------------------------
(***************************************************************************)
(* PipelineService: how one content travels from `uploaded' to its review  *)
(* through the jobs of the media and the analysis queue                    *)
(* (services/api/src/pipeline, queue, analysis).                           *)
(*                                                                         *)
(*   transcode -> analysis -> auto_edit -> preview -> review               *)
(*                                                                         *)
(* The api adds a job to a queue AFTER the transaction that moved the      *)
(* content (two stores, no common transaction); a worker runs it, with     *)
(* retries; the queue announces the outcome; the api's listener looks the  *)
(* job up, stores its output, moves the content and adds the next job.     *)
(* Announcements that find the api down are lost.  When it boots, it scans *)
(* both queues for finished jobs and runs the very same handlers on them,  *)
(* one after the other, completed jobs first.                              *)
(*                                                                         *)
(* A handler is the three steps its awaits separate: look up and store     *)
(* (Begin), move the content (HopStep), add the next job (EnqueueStep); a  *)
(* crash of the api may fall between any two.  A job's identity is its     *)
(* type and the generation of the content; its run and its outcome are     *)
(* kept by the queue until the job is added again.                         *)
(***************************************************************************)
EXTENDS Naturals, ContentStatus

CONSTANTS
  Origins,               \* the origins the content may have
  Analyze,               \* whether the analysis stage applies, a set of BOOLEANs
  MaxGeneration,         \* bound on the number of generations
  MediaAttempts,         \* how often the media queue runs a failing job
  AnalysisAttempts,      \* how often the analysis queue does
  MaxRetries,            \* bound on the retries users ask for
  MaxCrashes             \* bound on the crashes of the api

ASSUME PipelineAssumption ==
  /\ Origins \subseteq ContentOrigin
  /\ Analyze \subseteq BOOLEAN
  /\ MaxGeneration \in Nat \ {0}
  /\ MediaAttempts \in Nat \ {0}
  /\ AnalysisAttempts \in Nat \ {0}
  /\ MaxRetries \in Nat
  /\ MaxCrashes \in Nat

VARIABLES
  origin, analyze,       \* columns that never change
  status, generation,    \* contents.status, contents.generation
  revisionOpen,          \* an unresolved revision_requests row exists
  assets,                \* media_assets: <<kind, generation, made from>>
  job,                   \* the jobs of both queues
  events,                \* announcements on their way to the api
  tasks,                 \* what running handlers and requests still have to do
  up,                    \* the api process runs
  scan,                  \* the boot scan of each queue
  retries, crashes       \* how many there were, bounded

content == <<status, generation, revisionOpen, retries>>
fixed == <<origin, analyze>>
api == <<up, scan, crashes>>
vars == <<fixed, content, assets, job, events, tasks, api>>

Generation == 1 .. MaxGeneration

\* mediaJobId and analysisJobId.
JobKey == {"transcode", "analysis", "auto_edit", "preview"} \X Generation

Queue == {"media", "analysis"}

QueueOf(k) == IF k[1] = "analysis" THEN "analysis" ELSE "media"

\* MEDIA_JOB_ATTEMPTS and AI_ANALYSIS_JOB_ATTEMPTS.
Attempts(k) == IF QueueOf(k) = "analysis" THEN AnalysisAttempts ELSE MediaAttempts

Absent == [state |-> "absent", made |-> 0, source |-> "original"]

-------------------------------------------------------------------------------
(* The producers *)

\* findEditedMaster.
HasMaster(g) == \E a \in assets : a[1] = "edited_master" /\ a[2] = g

\* requireProcessingSource: the edit of this generation if there is one;
\* requireEditSource: the edit of the generation before.
SourceOf(k) ==
  IF \/ k[1] = "preview" /\ HasMaster(k[2])
     \/ k[1] = "auto_edit" /\ HasMaster(k[2] - 1)
    THEN "edited_master" ELSE "original"

\* Faulty versions for the mutant checks, here and below: a definition whose
\* name ends in _<fault> stands for its namesake with that fault.
Add_KeepsAttempts(k) ==
  IF job[k].state = "active" THEN job
  ELSE [job EXCEPT ![k].state = "waiting", ![k].source = SourceOf(k)]

\* remove(jobId), then add(jobId): neither touches a job that a worker holds.
Add(k) ==
  IF job[k].state = "active" THEN job
  ELSE [job EXCEPT ![k] = [state |-> "waiting", made |-> 0, source |-> SourceOf(k)]]

RequeueForStatus_PreviewOnly(s, g) ==
  CASE s = "processing"         -> {<<"transcode", g>>}
    [] s = "analyzing"          -> {<<"analysis", g>>}
    [] s = "preview_generating" -> {<<"preview", g>>}
    [] s = "regenerating"       -> {<<"auto_edit", g>>}
    [] OTHER                    -> {}

RequeueForStatus_NoAnalysis(s, g) ==
  CASE s = "processing"                              -> {<<"transcode", g>>}
    [] s \in {"preview_generating", "regenerating"} -> {<<"auto_edit", g>>}
    [] OTHER                                         -> {}

\* requeueForStatus of both producers: a retry starts the stage over.
RequeueForStatus(s, g) ==
  CASE s = "processing"                              -> {<<"transcode", g>>}
    [] s = "analyzing"                               -> {<<"analysis", g>>}
    [] s \in {"preview_generating", "regenerating"} -> {<<"auto_edit", g>>}
    [] OTHER                                         -> {}

-------------------------------------------------------------------------------
(* Queue and workers (external) *)

\* Heard by a running api only.  Of the `active' announcements all but a
\* transcode's are logged and left out here.
Announce(name, k) ==
  events' = IF up /\ (name = "active" => k[1] = "transcode")
              THEN events \union {[name |-> name, key |-> k]} ELSE events

Start(k) ==
  /\ job[k].state = "waiting"
  /\ job' = [job EXCEPT ![k].state = "active"]
  /\ Announce("active", k)
  /\ UNCHANGED <<fixed, content, assets, tasks, api>>

Succeed(k) ==
  /\ job[k].state = "active"
  /\ job' = [job EXCEPT ![k].state = "completed"]
  /\ Announce("completed", k)
  /\ UNCHANGED <<fixed, content, assets, tasks, api>>

\* A failed attempt is announced too; the queue retries until Attempts(k).
Fail(k) ==
  LET made == job[k].made + 1
  IN  /\ job[k].state = "active"
      /\ job' = [job EXCEPT ![k].made = made,
                            ![k].state = IF made < Attempts(k) THEN "waiting" ELSE "failed"]
      /\ Announce("failed", k)
      /\ UNCHANGED <<fixed, content, assets, tasks, api>>

-------------------------------------------------------------------------------
(* The handlers of PipelineService *)

IsExhausted_OnAnyFailure(k) == job[k].made > 0

IsExhausted(k) == job[k].made >= Attempts(k)

\* getJob: an outcome without its return value, or one with attempts left,
\* is not acted on.
ActsOn(name, k) ==
  CASE name = "active"    -> job[k].state # "absent"
    [] name = "completed" -> job[k].state = "completed"
    [] name = "failed"    -> IsExhausted(k)

\* upsertOutput: the output of a job replaces its former output.
Upsert(k) ==
  LET kind == IF k[1] = "auto_edit" THEN "edited_master" ELSE k[1]
  IN  {a \in assets : ~ (a[1] = kind /\ a[2] = k[2])}
        \union {<<kind, k[2], job[k].source>>}

Stored(name, k) == IF name = "completed" THEN Upsert(k) ELSE assets

\* The handler's first part: the job, its output, the content row.
Handle(name, k, by) ==
  IF ActsOn(name, k)
    THEN /\ assets' = Stored(name, k)
         /\ tasks' = tasks \union {[do |-> "hop", name |-> name, key |-> k,
                                    seen |-> status, gen |-> generation, by |-> by]}
    ELSE UNCHANGED <<assets, tasks>>

Deliver(e) ==
  /\ e \in events
  /\ events' = events \ {e}
  /\ Handle(e.name, e.key, "event")
  /\ UNCHANGED <<fixed, content, job, api>>

Editing(t) == t.key[1] = "auto_edit" /\ t.name = "completed"

HopFrom_EditsOutsideOnly(t) ==
  CASE t.name = "active"         -> {"uploaded"}
    [] t.name # "active" /\ t.key[1] = "transcode" -> {"uploaded", "processing"}
    [] t.key[1] = "analysis"     -> {"uploaded", "processing", "analyzing"}
    [] t.key[1] = "preview"      -> {"preview_generating"}
    [] t.key[1] = "auto_edit" /\ t.name = "failed" -> {"preview_generating"}
    [] Editing(t)                -> IF t.seen = "regenerating" THEN {"regenerating"} ELSE {}

\* Where an outcome takes the content, and from where: a chain of
\* applySystemTransition calls takes it along from any status on the chain.
\* An auto_edit goes by the status its handler read (t.seen).
HopFrom(t) ==
  CASE t.name = "active"         -> {"uploaded"}
    [] t.name # "active" /\ t.key[1] = "transcode" -> {"uploaded", "processing"}
    [] t.key[1] = "analysis"     -> {"uploaded", "processing", "analyzing"}
    [] t.key[1] = "preview"      -> {"preview_generating"}
    [] t.key[1] = "auto_edit" /\ t.seen = "regenerating" -> {"regenerating"}
    [] t.key[1] = "auto_edit" /\ t.seen # "regenerating" ->
         IF t.name = "failed" THEN {"preview_generating"} ELSE {}

HopTo(t) ==
  LET target ==
        [ active    |-> [transcode |-> "processing"],
          completed |-> [transcode |-> IF analyze THEN "analyzing" ELSE "preview_generating",
                         analysis  |-> "preview_generating",
                         auto_edit |-> "preview_generating",
                         preview   |-> PreviewReviewTarget(origin)],
          failed    |-> [transcode |-> "processing_failed",
                         analysis  |-> "analysis_failed",
                         auto_edit |-> IF t.seen = "regenerating" THEN "regeneration_failed"
                                                                  ELSE "preview_failed",
                         preview   |-> "preview_failed"] ]
  IN  target[t.name][t.key[1]]

Applies(t) == status \in HopFrom(t)

NextType(type) ==
  CASE type = "transcode" -> IF analyze THEN "analysis" ELSE "auto_edit"
    [] type = "analysis"  -> "auto_edit"
    [] type = "auto_edit" -> "preview"

Enqueue(k, then, by) == [do |-> "enqueue", key |-> k, then |-> then, by |-> by]

Resolve(by) == [do |-> "resolve", by |-> by]

FollowUp_NeverResolves(t) ==
  IF /\ t.name = "completed" /\ t.key[1] # "preview"
     /\ Applies(t) \/ (Editing(t) /\ t.seen = "preview_generating")
    THEN {Enqueue(<<NextType(t.key[1]), t.gen>>, "done", t.by)}
  ELSE {}

\* The job the handler adds next.  An edit outside a regeneration goes on to
\* its preview without a hop; one inside ends its revision requests, whether
\* or not its hop applied.
FollowUp(t) ==
  LET then == IF Editing(t) /\ t.seen = "regenerating" THEN "resolve" ELSE "done"
  IN  IF /\ t.name = "completed" /\ t.key[1] # "preview"
         /\ Applies(t) \/ (Editing(t) /\ t.seen = "preview_generating")
        THEN {Enqueue(<<NextType(t.key[1]), t.gen>>, then, t.by)}
      ELSE IF then = "resolve" THEN {Resolve(t.by)}
      ELSE {}

HopStep(t) ==
  /\ t \in tasks /\ t.do = "hop"
  /\ status' = IF Applies(t) THEN HopTo(t) ELSE status
  /\ tasks' = (tasks \ {t}) \union FollowUp(t)
  /\ UNCHANGED <<fixed, generation, revisionOpen, retries, assets, job, events, api>>

EnqueueStep(t) ==
  /\ t \in tasks /\ t.do = "enqueue"
  /\ job' = Add(t.key)
  /\ tasks' = (tasks \ {t}) \union (IF t.then = "resolve" THEN {Resolve(t.by)} ELSE {})
  /\ UNCHANGED <<fixed, content, assets, events, api>>

\* resolveRevisionRequests: every open request of the content is closed.
ResolveStep(t) ==
  /\ t \in tasks /\ t.do = "resolve"
  /\ revisionOpen' = FALSE
  /\ tasks' = tasks \ {t}
  /\ UNCHANGED <<fixed, status, generation, retries, assets, job, events, api>>

-------------------------------------------------------------------------------
(* Users.  Their hops are those of ContentWorkflow; a request that also    *)
(* adds a job reloads the row after its transaction and adds it then.      *)

Request(op) == [do |-> "reload", op |-> op, by |-> "user"]

Retry ==
  /\ up
  /\ retries < MaxRetries
  /\ status \in FailureStatus
  /\ status' = CONTENT_RETRY_TARGET[status]
  /\ status' = "regenerating" => generation < MaxGeneration
  /\ generation' = IF status' = "regenerating" THEN generation + 1 ELSE generation
  /\ tasks' = tasks \union {Request("retry")}
  /\ retries' = retries + 1
  /\ UNCHANGED <<fixed, revisionOpen, assets, job, events, api>>

Regenerate ==
  /\ up
  /\ status = "revision_requested"
  /\ generation < MaxGeneration
  /\ status' = "regenerating"
  /\ generation' = generation + 1
  /\ tasks' = tasks \union {Request("regenerate")}
  /\ UNCHANGED <<fixed, revisionOpen, retries, assets, job, events, api>>

Reload(t) ==
  LET keys == IF t.op = "regenerate" THEN {<<"auto_edit", generation>>}
                                     ELSE RequeueForStatus(status, generation)
  IN  /\ t \in tasks /\ t.do = "reload"
      /\ tasks' = (tasks \ {t}) \union {Enqueue(k, "done", "user") : k \in keys}
      /\ UNCHANGED <<fixed, content, assets, job, events, api>>

ReviewStatus == {"awaiting_reporter_review", "awaiting_center_review"}

RequestRevision ==
  /\ up
  /\ status \in ReviewStatus
  /\ status' = "revision_requested"
  /\ revisionOpen' = TRUE
  /\ UNCHANGED <<fixed, generation, retries, assets, job, events, tasks, api>>

\* A decision that does not send the content back: the reporter's approval
\* leads to the center's review or, by review policy, past it.
EndReview ==
  /\ up
  /\ status \in ReviewStatus
  /\ status' \in IF status = "awaiting_reporter_review"
                   THEN {"awaiting_center_review", "publishing", "rejected"}
                   ELSE {"center_approved", "rejected"}
  /\ UNCHANGED <<fixed, generation, revisionOpen, retries, assets, job, events, tasks, api>>

Cancel ==
  /\ up
  /\ CanTransitionContent(status, "canceled")
  /\ status' = "canceled"
  /\ UNCHANGED <<fixed, generation, revisionOpen, retries, assets, job, events, tasks, api>>

-------------------------------------------------------------------------------
(* Crash, boot and the boot scan *)

NoScan == [q \in Queue |-> [phase |-> "off", todo |-> {}]]

Finished(q, state) == {k \in JobKey : QueueOf(k) = q /\ job[k].state = state}

Crash ==
  /\ up
  /\ crashes < MaxCrashes
  /\ up' = FALSE
  /\ crashes' = crashes + 1
  /\ events' = {} /\ tasks' = {} /\ scan' = NoScan
  /\ UNCHANGED <<fixed, content, assets, job>>

\* onModuleInit: listeners on, both scans started.
Boot ==
  /\ ~ up
  /\ up' = TRUE
  /\ scan' = [q \in Queue |-> [phase |-> "completed", todo |-> Finished(q, "completed")]]
  /\ UNCHANGED <<fixed, content, assets, job, events, tasks, crashes>>

Stage == [transcode |-> 1, analysis |-> 2, auto_edit |-> 3, preview |-> 4]

\* Jobs of one content finish stage by stage, generation by generation.
Before(k, l) == k[2] < l[2] \/ (k[2] = l[2] /\ Stage[k[1]] <= Stage[l[1]])

\* reconcilePending and reconcileAnalysisPending: the next job of the list.
ScanJob(q) ==
  /\ scan[q].todo # {}
  /\ \A t \in tasks : t.by # q
  /\ \E k \in scan[q].todo :
       /\ \A l \in scan[q].todo : Before(k, l)
       /\ Handle(scan[q].phase, k, q)
       /\ scan' = [scan EXCEPT ![q].todo = @ \ {k}]
  /\ UNCHANGED <<fixed, content, job, events, up, crashes>>

AfterPhase_CompletedOnly(q) == [phase |-> "off", todo |-> {}]

\* The list of failed jobs is taken when the completed ones are through.
AfterPhase(q) ==
  IF scan[q].phase = "completed" THEN [phase |-> "failed", todo |-> Finished(q, "failed")]
                                 ELSE [phase |-> "off", todo |-> {}]

ScanPhase(q) ==
  /\ scan[q].phase # "off"
  /\ scan[q].todo = {}
  /\ \A t \in tasks : t.by # q
  /\ scan' = [scan EXCEPT ![q] = AfterPhase(q)]
  /\ UNCHANGED <<fixed, content, assets, job, events, tasks, up, crashes>>

-------------------------------------------------------------------------------
\* The content right after completeUpload's transaction, its transcode yet
\* to be added.
Init ==
  /\ origin \in Origins
  /\ analyze \in Analyze
  /\ status = "uploaded"
  /\ generation = 1
  /\ revisionOpen = FALSE
  /\ assets = {}
  /\ job = [k \in JobKey |-> Absent]
  /\ events = {}
  /\ tasks = {Enqueue(<<"transcode", 1>>, "done", "user")}
  /\ up = TRUE
  /\ scan = NoScan
  /\ retries = 0
  /\ crashes = 0

Work == \E k \in JobKey : Start(k) \/ Succeed(k) \/ Fail(k)

DeliverSome == \E e \in events : Deliver(e)

TaskStep == \E t \in tasks : HopStep(t) \/ EnqueueStep(t) \/ ResolveStep(t) \/ Reload(t)

ScanStep == \E q \in Queue : ScanJob(q) \/ ScanPhase(q)

User == Retry \/ Regenerate \/ RequestRevision \/ EndReview \/ Cancel

Next == Work \/ DeliverSome \/ TaskStep \/ ScanStep \/ User \/ Crash \/ Boot

Spec == Init /\ [][Next]_vars

\* The queue runs what it holds, the event loop runs what it is handed and a
\* dead api is restarted; no user has to do anything.
Fairness ==
  /\ WF_vars(Work) /\ WF_vars(DeliverSome) /\ WF_vars(TaskStep) /\ WF_vars(ScanStep)
  /\ WF_vars(Boot)

FairSpec == Spec /\ Fairness

-------------------------------------------------------------------------------
(* Properties *)

Job == [state : {"absent", "waiting", "active", "completed", "failed"},
        made : Nat, source : {"original", "edited_master"}]

Handler == {"event", "user"} \union Queue

Task ==
  [do : {"hop"}, name : {"active", "completed", "failed"}, key : JobKey, seen : Status,
   gen : Generation, by : Handler]
    \union [do : {"enqueue"}, key : JobKey, then : {"done", "resolve"}, by : Handler]
    \union [do : {"reload"}, op : {"retry", "regenerate"}, by : {"user"}]
    \union [do : {"resolve"}, by : Handler]

\* Rows, jobs, announcements, tasks and scans hold values of their columns; a
\* job is not tried more often than its queue allows, and the only starts
\* that are acted on are a transcode's (PipelineService).
TypeOK ==
  /\ origin \in ContentOrigin /\ analyze \in BOOLEAN
  /\ status \in Status
  /\ generation \in Generation
  /\ revisionOpen \in BOOLEAN
  /\ assets \subseteq {"edited_master", "transcode", "analysis", "preview"}
                        \X Generation \X {"original", "edited_master"}
  /\ job \in [JobKey -> Job]
  /\ \A k \in JobKey : job[k].made <= Attempts(k)
  /\ events \subseteq [name : {"active", "completed", "failed"}, key : JobKey]
  /\ tasks \subseteq Task
  /\ \A x \in events \union {t \in tasks : t.do = "hop"} :
       x.name = "active" => x.key[1] = "transcode"
  /\ up \in BOOLEAN
  /\ scan \in [Queue -> [phase : {"off", "completed", "failed"}, todo : SUBSET JobKey]]
  /\ \A q \in Queue : scan[q].phase = "off" => scan[q].todo = {}
  /\ retries \in Nat /\ crashes \in Nat

\* What is under review has a preview of this generation, and the preview
\* was made from the edit of this generation, not from the raw upload: the
\* reviewer sees what will be released.
ReviewSeesTheEdit ==
  status \in ReviewStatus => <<"preview", generation, "edited_master">> \in assets

StageJobs ==
  [ uploaded           |-> {"transcode"},
    processing         |-> {"transcode"},
    processing_failed  |-> {"transcode"},
    analyzing          |-> {"analysis"},
    analysis_failed    |-> {"analysis"},
    preview_generating |-> {"auto_edit", "preview"},
    preview_failed     |-> {"auto_edit", "preview"},
    regenerating       |-> {"auto_edit"},
    regeneration_failed |-> {"auto_edit"} ]

JobsOf(s) == {k \in JobKey : k[1] \in StageJobs[s] /\ k[2] = generation}

Running(k) == job[k].state \in {"waiting", "active"}

FailedStages == {"processing_failed", "analysis_failed", "preview_failed",
                 "regeneration_failed"}

\* A stage that is reported as failed has stopped: no job of it is still
\* waiting or running, so a retry starts the only one.
FailedMeansStopped ==
  status \in FailedStages => \A k \in JobsOf(status) : ~ Running(k)

WorkingStages == {"uploaded", "processing", "analyzing", "preview_generating",
                  "regenerating"}

\* A content in a working stage is being worked on: a job of the stage runs,
\* or its outcome is on its way, or somebody is about to add the next one.
WorkIsBacked ==
  status \in WorkingStages =>
    \/ \E k \in JobsOf(status) :
         Running(k) \/ \E e \in events : e.key = k /\ e.name = job[k].state
    \/ \E t \in tasks : t.do # "resolve"

\* Every working stage ends, by success, failure or a user.
StagesEnd == \A s \in WorkingStages : status = s ~> status # s

Resolving(t) == t.do = "resolve" \/ (t.do = "enqueue" /\ t.then = "resolve")

\* When a regeneration is under review, no request for it is left open.
RevisionsAreClosed ==
  status \in ReviewStatus /\ (\A t \in tasks : ~ Resolving(t))
    => ~ revisionOpen

DecidingJob(s) ==
  <<IF s = "preview_generating" THEN "preview"
    ELSE CHOOSE type \in StageJobs[s] : TRUE, generation>>

\* Across crashes: when the job that decides a stage is over, its outcome
\* reaches the content, whether it was announced or only scanned at boot.
OutcomesArrive ==
  \A s \in WorkingStages :
    status = s /\ job[DecidingJob(s)].state \in {"completed", "failed"}
      ~> status # s \/ Running(DecidingJob(s))
===============================================================================
