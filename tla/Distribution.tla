----------------------------- MODULE Distribution -----------------------------
(***************************************************************************)
(* Sending one approved content to its channels                            *)
(* (services/api/src/contents/distribution-orchestrator.service.ts,        *)
(* services/api/src/distribution, and the distribution handlers of         *)
(* services/api/src/pipeline/pipeline.service.ts).                         *)
(*                                                                         *)
(* Every channel has its own publication row; a job carries a set of       *)
(* publications and is named after that set, so that operators can retry   *)
(* single channels side by side.  The worker runs inside the api process,  *)
(* posts to the channels and returns one result per channel; the handler   *)
(* records the results, sums up ALL publications of the content and then   *)
(* moves the content, in that order and in separate steps.                 *)
(***************************************************************************)
EXTENDS Naturals, FiniteSets

CONSTANTS
  Channel,               \* the channels, one publication each
  RedisFails,            \* whether adding a job may fail
  MaxRetries,            \* bound on the retries and retractions operators ask for
  MaxCrashes             \* bound on the crashes of the api

ASSUME DistributionAssumption ==
  /\ Channel # {}
  /\ RedisFails \in BOOLEAN
  /\ MaxRetries \in Nat
  /\ MaxCrashes \in Nat

VARIABLES
  status,                \* contents.status
  pub,                   \* publications.status per channel
  onAir,                 \* channels where the post is visible (external)
  job,                   \* the jobs of the distribution queue
  events,                \* announcements on their way to the api
  tasks,                 \* what running handlers and requests still have to do
  up,                    \* the api process runs
  scan,                  \* the boot scan of the queue
  unsent,                \* channels that were in a job that could not be added
  retries, crashes       \* how many there were, bounded

rows == <<status, pub>>
queue == <<job, events>>
process == <<up, scan, crashes>>
vars == <<rows, onAir, queue, tasks, process, unsent, retries>>

JobKey == (SUBSET Channel) \ {{}}

Absent == [state |-> "absent", targets |-> {}, ok |-> {}]

-------------------------------------------------------------------------------
(* PublicationsService and the producer *)

Pending(c) == pub[c] \in {"queued", "publishing"}

\* resolveResult for every target: a publication that is not pending keeps
\* its status.
Resolved(targets, ok) ==
  [c \in Channel |-> IF c \notin targets \/ ~ Pending(c) THEN pub[c]
                     ELSE IF c \in ok THEN "published" ELSE "failed"]

\* beginPublishing for every target.
Begun(targets) ==
  [c \in Channel |-> IF c \in targets /\ pub[c] = "queued" THEN "publishing" ELSE pub[c]]

Relevant == {c \in Channel : pub[c] \in {"queued", "publishing", "published", "failed"}}

AnyPending == \E c \in Relevant : Pending(c)

AnyFailed == \E c \in Relevant : pub[c] = "failed"

\* Faulty versions for the mutant checks, here and below: a definition whose
\* name ends in _<fault> stands for its namesake with that fault.
AllPublished_IgnoresPending ==
  Relevant # {} /\ \A c \in Relevant : pub[c] = "published" \/ Pending(c)

AllPublished == Relevant # {} /\ \A c \in Relevant : pub[c] = "published"

PublishJobId_PerContent(targets) == Channel

PublishJobId_FirstOnly(targets) == {CHOOSE c \in targets : TRUE}

\* publishJobId: named after the set of publications.
PublishJobId(targets) == targets

\* enqueuePublish: remove, then add; neither touches a job a worker holds.
Add(targets) ==
  LET id == PublishJobId(targets)
  IN  IF job[id].state = "active" THEN job
      ELSE [job EXCEPT ![id] = [state |-> "waiting", targets |-> targets, ok |-> {}]]

-------------------------------------------------------------------------------
(* The in-process worker and its queue (the queue is external) *)

Announce(name, id) == events' = events \union {[name |-> name, id |-> id]}

Start(id) ==
  /\ up
  /\ job[id].state = "waiting"
  /\ job' = [job EXCEPT ![id].state = "active"]
  /\ Announce("active", id)
  /\ UNCHANGED <<rows, onAir, tasks, process, unsent, retries>>

\* Every channel is posted to; a channel's failure is data, not a failed job.
Publish(id) ==
  /\ up
  /\ job[id].state = "active"
  /\ \E ok \in SUBSET job[id].targets :
       /\ job' = [job EXCEPT ![id].state = "completed", ![id].ok = ok]
       /\ onAir' = onAir \union ok
  /\ Announce("completed", id)
  /\ UNCHANGED <<rows, tasks, process, unsent, retries>>

\* The job itself fails, all its attempts used up, before it posts anything.
Break(id) ==
  /\ up
  /\ job[id].state = "active"
  /\ job' = [job EXCEPT ![id].state = "failed"]
  /\ Announce("failed", id)
  /\ UNCHANGED <<rows, onAir, tasks, process, unsent, retries>>

-------------------------------------------------------------------------------
(* The distribution handlers of PipelineService *)

Handle(name, id, by) ==
  \/ /\ name = "active" /\ job[id].state # "absent"
     /\ pub' = Begun(job[id].targets)
     /\ UNCHANGED tasks
  \/ /\ name # "active" /\ job[id].state = name
     /\ pub' = Resolved(job[id].targets, job[id].ok)
     /\ tasks' = tasks \union {[do |-> "summarize", name |-> name, by |-> by]}
  \/ /\ IF name = "active" THEN job[id].state = "absent" ELSE job[id].state # name
     /\ UNCHANGED <<pub, tasks>>

Deliver(e) ==
  /\ e \in events
  /\ events' = events \ {e}
  /\ Handle(e.name, e.id, "event")
  /\ UNCHANGED <<status, onAir, job, process, unsent, retries>>

Verdict(name) ==
  IF name = "completed" /\ AllPublished THEN {"published"}
  ELSE IF AnyFailed /\ ~ AnyPending THEN {"publish_failed"}
  ELSE {}

Summarize(t) ==
  /\ t \in tasks /\ t.do = "summarize"
  /\ tasks' = (tasks \ {t}) \union {[do |-> "hop", to |-> to, by |-> t.by] : to \in Verdict(t.name)}
  /\ UNCHANGED <<rows, onAir, queue, process, unsent, retries>>

\* applySystemTransition.
Hop(t) ==
  /\ t \in tasks /\ t.do = "hop"
  /\ status' = IF status = "publishing" THEN t.to ELSE status
  /\ tasks' = tasks \ {t}
  /\ UNCHANGED <<pub, onAir, queue, process, unsent, retries>>

-------------------------------------------------------------------------------
(* Operators *)

Enqueue(targets) == [do |-> "enqueue", targets |-> targets, by |-> "user"]

\* The publications of a content that has none yet (createQueued).
CreateQueued(targets) ==
  pub' = [c \in Channel |-> IF c \in targets THEN "queued" ELSE pub[c]]

\* distribute, up to its commit.
Distribute ==
  /\ up
  /\ status = "center_approved"
  /\ status' = "publishing"
  /\ \E targets \in JobKey : CreateQueued(targets) /\ tasks' = tasks \union {Enqueue(targets)}
  /\ UNCHANGED <<onAir, queue, process, unsent, retries>>

\* startAutoDistribution, which the reporter's approval runs once: without a
\* channel to send to, or with an error on the way, it leaves the content
\* publishing.
AutoDistribute(t) ==
  /\ t \in tasks /\ t.do = "auto"
  /\ \/ \E targets \in JobKey :
          CreateQueued(targets) /\ tasks' = (tasks \ {t}) \union {Enqueue(targets)}
     \/ tasks' = tasks \ {t} /\ UNCHANGED pub
  /\ UNCHANGED <<status, onAir, queue, process, unsent, retries>>

\* enqueuePublish after the commit; the approval swallows its errors, the
\* other requests answer with one, and nothing is rolled back.
EnqueueStep(t) ==
  /\ t \in tasks /\ t.do = "enqueue"
  /\ \/ job' = Add(t.targets) /\ UNCHANGED unsent
     \/ RedisFails /\ unsent' = unsent \union t.targets /\ UNCHANGED job
  /\ tasks' = tasks \ {t}
  /\ UNCHANGED <<rows, onAir, events, process, retries>>

\* retryPublication: publication and content are loaded ...
RetryPublication(c) ==
  /\ up
  /\ retries < MaxRetries
  /\ pub[c] = "failed"
  /\ tasks' = tasks \union {[do |-> "retry", channel |-> c, seen |-> status, by |-> "user"]}
  /\ retries' = retries + 1
  /\ UNCHANGED <<rows, onAir, queue, process, unsent>>

CommitRetryPublication_Unchecked(t) ==
  /\ t \in tasks /\ t.do = "retry"
  /\ pub' = [pub EXCEPT ![t.channel] = "queued"]
  /\ status' = IF t.seen = "publish_failed" /\ status = "publish_failed"
                 THEN "publishing" ELSE status
  /\ tasks' = (tasks \ {t}) \union {Enqueue({t.channel})}
  /\ UNCHANGED <<onAir, queue, process, unsent, retries>>

\* ... then one transaction queues the publication and resumes the content,
\* if it was loaded as publish_failed; it is refused if the publication moved.
CommitRetryPublication(t) ==
  /\ t \in tasks /\ t.do = "retry"
  /\ IF pub[t.channel] = "failed"
       THEN /\ pub' = [pub EXCEPT ![t.channel] = "queued"]
            /\ status' = IF t.seen = "publish_failed" /\ status = "publish_failed"
                           THEN "publishing" ELSE status
            /\ tasks' = (tasks \ {t}) \union {Enqueue({t.channel})}
       ELSE /\ tasks' = tasks \ {t}
            /\ UNCHANGED rows
  /\ UNCHANGED <<onAir, queue, process, unsent, retries>>

\* retry of the whole content, up to its commit.
Retry ==
  /\ up
  /\ retries < MaxRetries
  /\ status = "publish_failed"
  /\ status' = "publishing"
  /\ tasks' = tasks \union {[do |-> "reload", by |-> "user"]}
  /\ retries' = retries + 1
  /\ UNCHANGED <<pub, onAir, queue, process, unsent>>

\* ... which loads the content again ...
Reload(t) ==
  /\ t \in tasks /\ t.do = "reload"
  /\ tasks' = (tasks \ {t}) \union
                (IF status = "publishing" THEN {[do |-> "requeue", by |-> "user"]} ELSE {})
  /\ UNCHANGED <<rows, onAir, queue, process, unsent, retries>>

\* ... and, if it is publishing, requeues its failed publications
\* (requeueForStatus, requeueFailedForContent).
RequeueFailed(t) ==
  LET failed == {c \in Channel : pub[c] = "failed"}
  IN  /\ t \in tasks /\ t.do = "requeue"
      /\ pub' = [c \in Channel |-> IF c \in failed THEN "queued" ELSE pub[c]]
      /\ tasks' = (tasks \ {t}) \union (IF failed = {} THEN {} ELSE {Enqueue(failed)})
      /\ UNCHANGED <<status, onAir, queue, process, unsent, retries>>

\* retractPublication: a published row is loaded ...
Retract(c) ==
  /\ up
  /\ retries < MaxRetries
  /\ pub[c] = "published"
  /\ tasks' = tasks \union {[do |-> "takedown", channel |-> c, by |-> "user"]}
  /\ retries' = retries + 1
  /\ UNCHANGED <<rows, onAir, queue, process, unsent>>

TakeDown_RecordsFirst(t) ==
  /\ t \in tasks /\ t.do = "takedown"
  /\ pub' = IF pub[t.channel] = "published" THEN [pub EXCEPT ![t.channel] = "retracted"] ELSE pub
  /\ tasks' = tasks \ {t}
  /\ UNCHANGED <<status, onAir, queue, process, unsent, retries>>

\* ... the adapter takes the post down ...
TakeDown(t) ==
  /\ t \in tasks /\ t.do = "takedown"
  /\ onAir' = onAir \ {t.channel}
  /\ tasks' = (tasks \ {t}) \union {[do |-> "retract", channel |-> t.channel, by |-> "user"]}
  /\ UNCHANGED <<rows, queue, process, unsent, retries>>

\* ... and only then the row says so.
CommitRetract(t) ==
  /\ t \in tasks /\ t.do = "retract"
  /\ pub' = IF pub[t.channel] = "published" THEN [pub EXCEPT ![t.channel] = "retracted"] ELSE pub
  /\ tasks' = tasks \ {t}
  /\ UNCHANGED <<status, onAir, queue, process, unsent, retries>>

Cancel ==
  /\ up
  /\ status = "publish_failed"
  /\ status' = "canceled"
  /\ UNCHANGED <<pub, onAir, queue, tasks, process, unsent, retries>>

-------------------------------------------------------------------------------
(* Crash, boot and the boot scan *)

NoScan == [phase |-> "off", todo |-> {}]

Finished(state) == {id \in JobKey : job[id].state = state}

\* The worker dies with the api: some of the posts of a running job may be
\* out, and the queue hands the job out again.
Crash ==
  /\ up
  /\ crashes < MaxCrashes
  /\ up' = FALSE
  /\ crashes' = crashes + 1
  /\ \E out \in SUBSET UNION {job[id].targets : id \in Finished("active")} :
       onAir' = onAir \union out
  /\ job' = [id \in JobKey |-> IF job[id].state = "active"
                                 THEN [job[id] EXCEPT !.state = "waiting"] ELSE job[id]]
  /\ events' = {} /\ tasks' = {} /\ scan' = NoScan
  /\ UNCHANGED <<rows, unsent, retries>>

Boot ==
  /\ ~ up
  /\ up' = TRUE
  /\ scan' = [phase |-> "completed", todo |-> Finished("completed")]
  /\ UNCHANGED <<rows, onAir, queue, tasks, crashes, unsent, retries>>

ScanIdle == \A t \in tasks : t.by # "scan"

\* reconcileDistributionPending: the handlers, job by job.
ScanJob ==
  /\ scan.todo # {} /\ ScanIdle
  /\ \E id \in scan.todo :
       /\ Handle(scan.phase, id, "scan")
       /\ scan' = [scan EXCEPT !.todo = @ \ {id}]
  /\ UNCHANGED <<status, onAir, queue, up, crashes, unsent, retries>>

NextPhase_CompletedOnly == NoScan

NextPhase ==
  IF scan.phase = "completed" THEN [phase |-> "failed", todo |-> Finished("failed")] ELSE NoScan

ScanPhase ==
  /\ scan.phase # "off" /\ scan.todo = {} /\ ScanIdle
  /\ scan' = NextPhase
  /\ UNCHANGED <<rows, onAir, queue, tasks, up, crashes, unsent, retries>>

-------------------------------------------------------------------------------
\* An approved content, the center's or (reporter_only) the reporter's.
Init ==
  /\ \/ status = "center_approved" /\ tasks = {}
     \/ status = "publishing" /\ tasks = {[do |-> "auto", by |-> "user"]}
  /\ pub = [c \in Channel |-> "none"]
  /\ onAir = {}
  /\ job = [id \in JobKey |-> Absent]
  /\ events = {}
  /\ up = TRUE
  /\ scan = NoScan
  /\ unsent = {} /\ retries = 0 /\ crashes = 0

Work == \E id \in JobKey : Start(id) \/ Publish(id) \/ Break(id)

DeliverSome == \E e \in events : Deliver(e)

TaskStep ==
  \E t \in tasks : \/ Summarize(t) \/ Hop(t) \/ EnqueueStep(t) \/ AutoDistribute(t)
                   \/ CommitRetryPublication(t) \/ Reload(t) \/ RequeueFailed(t)
                   \/ TakeDown(t) \/ CommitRetract(t)

ScanStep == ScanJob \/ ScanPhase

Operator ==
  \/ Distribute \/ Retry \/ Cancel
  \/ \E c \in Channel : RetryPublication(c) \/ Retract(c)

Next == Work \/ DeliverSome \/ TaskStep \/ ScanStep \/ Operator \/ Crash \/ Boot

Spec == Init /\ [][Next]_vars

\* The event loop runs what it is handed, the worker takes the jobs of the
\* queue, a dead api is restarted; operators have to do nothing.
Fairness ==
  /\ WF_vars(Work) /\ WF_vars(DeliverSome) /\ WF_vars(TaskStep) /\ WF_vars(ScanStep)
  /\ WF_vars(Boot)

FairSpec == Spec /\ Fairness

-------------------------------------------------------------------------------
(* Properties *)

ContentStatus ==
  {"center_approved", "publishing", "published", "publish_failed", "canceled"}

PublicationStatus == {"none", "queued", "publishing", "published", "failed", "retracted"}

Job == [state : {"absent", "waiting", "active", "completed", "failed"},
        targets : SUBSET Channel, ok : SUBSET Channel]

Handler == {"event", "scan"}

Task ==
  [do : {"summarize"}, name : {"completed", "failed"}, by : Handler]
    \union [do : {"hop"}, to : {"published", "publish_failed"}, by : Handler]
    \union [do : {"enqueue"}, targets : JobKey, by : {"user"}]
    \union [do : {"retry"}, channel : Channel, seen : ContentStatus, by : {"user"}]
    \union [do : {"takedown", "retract"}, channel : Channel, by : {"user"}]
    \union [do : {"auto", "reload", "requeue"}, by : {"user"}]

\* Rows, jobs and tasks hold values of their columns, a job carries the
\* publications it is named after and only ever reports on these
\* (publishJobId, PublishJobResult).
TypeOK ==
  /\ status \in ContentStatus
  /\ pub \in [Channel -> PublicationStatus]
  /\ onAir \subseteq Channel /\ unsent \subseteq Channel
  /\ job \in [JobKey -> Job]
  /\ \A id \in JobKey : job[id].ok \subseteq job[id].targets /\ job[id].targets \subseteq id
  /\ events \subseteq [name : {"active", "completed", "failed"}, id : JobKey]
  /\ tasks \subseteq Task
  /\ up \in BOOLEAN
  /\ scan \in [phase : {"off", "completed", "failed"}, todo : SUBSET JobKey]
  /\ retries \in Nat /\ crashes \in Nat

\* A content is reported as published only when every channel it was sent to
\* has it, or had it until an operator took it back: results of concurrent
\* retries, stale results and crashes included.
PublishedIsComplete ==
  status = "published" => \A c \in Channel : pub[c] \in {"none", "published", "retracted"}

\* A publication that is on record as retracted is off the air.
RetractedIsOffAir ==
  \A c \in Channel : pub[c] = "retracted" => c \notin onAir

\* A publication that is reported as failed is not still being sent: an
\* operator's retry never meets a job that is about to post it.
FailedMeansStopped ==
  \A c \in Channel : pub[c] = "failed" =>
    \A id \in JobKey : c \in job[id].targets => job[id].state \notin {"waiting", "active"}

\* Every publication that is queued is sent and resolved, also when several
\* channels are retried at the same time; unless the queue refused its job
\* after the commit, which leaves it queued for good.
QueuedIsResolved == \A c \in Channel : Pending(c) ~> (~ Pending(c) \/ c \in unsent)

\* When all the channels have it, the content gets reported as published,
\* unless somebody cancels it (onPublishCompleted).
AllPublishedIsReported ==
  AllPublished ~> (status \in {"published", "canceled"} \/ ~ AllPublished)

\* Across crashes: what a finished job says about a pending publication is
\* recorded, whether it was announced or only scanned at boot.
ResultsArrive ==
  \A c \in Channel :
    (Pending(c) /\ \E id \in JobKey : c \in job[id].targets
                                      /\ job[id].state \in {"completed", "failed"})
      ~> ~ Pending(c)
===============================================================================
